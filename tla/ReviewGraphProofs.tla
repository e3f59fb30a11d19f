-------------------------- MODULE ReviewGraphProofs --------------------------
(***************************************************************************)
(* What TLAPS proves of a review, for any number of processes working on   *)
(* it at once and any number of crashes, recoveries and resumes.           *)
(*                                                                         *)
(* Nothing reaches the pull request around Gate 2 or Gate 3, and the audit *)
(* trail is never behind the stored checkpoint.  The argument: every state *)
(* a process works on, every result on its way to disk and the stored      *)
(* checkpoint are sound for the node they stand before and backed by the   *)
(* mirror files of the nodes they have passed, whichever process made      *)
(* them; so it does not matter who continues from which.                   *)
(*                                                                         *)
(* Mirror steps are numbered without gap while processes come one after    *)
(* the other, and every side effect happens once while none of them        *)
(* crashes.  The argument: then one process at most is at work, its newest *)
(* result is where it stands, and it leaves only with everything stored.   *)
(***************************************************************************)
EXTENDS ReviewGraph, FiniteSetTheorems, SequenceTheorems, TLAPS

\* A state that may be posted.
Attended(s) == s.panel = "ESCALATE" => s.decision # None
Earned(s) ==
  s.leader \in Clean => \/ s.report = "clear"
                        \/ s.report = "skipped" /\ s.mode = "fast"
                        \/ s.decision = s.leader
Judged(s) == s.leader \in Verdicts /\ Attended(s) /\ Earned(s)

\* What a state must satisfy before each place of the graph.
Sound(place, s) ==
  /\ place \in {"verify", "leader"} => s.panel \in Verdicts
  /\ place \in {"escalate", "issued", "hitl"} =>
       s.panel = "ESCALATE" /\ s.leader = "ESCALATE"
  /\ place = "test_gate" => s.panel # "ESCALATE" /\ s.leader \in Verdicts
  /\ place \in {"post", "end"} /\ s.dor = "pass" => Judged(s)
  /\ place \in {"logged", "commented"} => Judged(s)

WorkSound == \A p \in Procs : Sound(at[p], st[p])
UnsavedSound ==
  \A p \in Procs : \A i \in 1 .. Len(unsaved[p]) :
    Sound(unsaved[p][i].next, unsaved[p][i].st)
StoredSound == Sound(ckpt.next, ckpt.st)
PostedSound == \A c \in comments \cup finals :
                 c.verdict = c.from.leader /\ Judged(c.from)

IInv == /\ TypeOK /\ IsFiniteSet(files)
        /\ WorkSound /\ UnsavedSound /\ StoredSound /\ PostedSound

-----------------------------------------------------------------------------
(* Lemmas about what processes have in common.                             *)

\* Handing a sound result to the checkpointer keeps all of them sound.
LEMMA ReturnsSound ==
  ASSUME IInv, NEW p \in Procs, NEW next \in Nodes \cup {"end"},
         NEW s \in GraphState, Sound(next, s), Returns(p, next, s)
  PROVE  /\ at' \in [Procs -> Places] /\ st' \in [Procs -> GraphState]
         /\ unsaved' \in [Procs -> Seq(Checkpoint)]
         /\ WorkSound' /\ UnsavedSound'
<1> DEFINE r == [next |-> next, st |-> s]
<1>1. r \in Checkpoint
  BY DEF Checkpoint
<1>2. /\ at \in [Procs -> Places] /\ st \in [Procs -> GraphState]
      /\ unsaved \in [Procs -> Seq(Checkpoint)]
  BY DEF IInv, TypeOK
<1>3. /\ at' \in [Procs -> Places] /\ st' \in [Procs -> GraphState]
  BY <1>2 DEF Returns, Places
<1>4. unsaved' = [unsaved EXCEPT ![p] = Append(unsaved[p], r)]
  BY DEF Returns
<1>5. /\ Append(unsaved[p], r) \in Seq(Checkpoint)
      /\ Len(Append(unsaved[p], r)) = Len(unsaved[p]) + 1
      /\ Append(unsaved[p], r)[Len(unsaved[p]) + 1] = r
      /\ \A i \in 1 .. Len(unsaved[p]) : Append(unsaved[p], r)[i] = unsaved[p][i]
  BY <1>1, <1>2, AppendProperties
<1>6. unsaved' \in [Procs -> Seq(Checkpoint)]
  BY <1>2, <1>4, <1>5
<1>7. WorkSound'
  BY <1>2 DEF Returns, IInv, WorkSound
<1>8. UnsavedSound'
  <2> SUFFICES ASSUME NEW q \in Procs, NEW i \in 1 .. Len(unsaved'[q])
               PROVE  Sound(unsaved'[q][i].next, unsaved'[q][i].st)
    BY DEF UnsavedSound
  <2>1. CASE q # p
    BY <2>1, <1>2, <1>4 DEF IInv, UnsavedSound
  <2>2. CASE q = p /\ i \in 1 .. Len(unsaved[p])
    BY <2>2, <1>2, <1>4, <1>5 DEF IInv, UnsavedSound
  <2>3. CASE q = p /\ i = Len(unsaved[p]) + 1
    BY <2>3, <1>2, <1>4, <1>5
  <2>4. Len(unsaved[p]) \in Nat
    BY <1>2, LenProperties
  <2>5. QED
    BY <2>1, <2>2, <2>3, <2>4, <1>2, <1>4, <1>5
<1>9. QED
  BY <1>3, <1>6, <1>7, <1>8

\* Writing a mirror file keeps the mirror's types.
LEMMA MirrorsType ==
  ASSUME IInv, NEW p \in Procs, NEW name \in Nodes \cup {"dor_fail", "final"},
         Mirrors(p, name)
  PROVE  /\ files' \subseteq (Nat \X (Nodes \cup {"dor_fail", "final"}))
         /\ IsFiniteSet(files') /\ writes' \in Nat /\ count' \in [Procs -> Nat]
<1>1. IsFiniteSet(files')
  BY FS_AddElement DEF IInv, Mirrors
<1>2. QED
  BY <1>1 DEF IInv, TypeOK, Mirrors

\* A mirrored node with a sound result keeps the invariant.
LEMMA RunsKeeps ==
  ASSUME IInv, NEW p \in Procs, NEW node \in Nodes, NEW next \in Nodes \cup {"end"},
         NEW s \in GraphState, Sound(next, s), Runs(p, node, next, s)
  PROVE  IInv'
<1>1. Mirrors(p, node) /\ Returns(p, next, s)
      /\ UNCHANGED <<meta, ckpt, finals, logs, forge, answer, tally>>
  BY DEF Runs
<1>2. /\ at' \in [Procs -> Places] /\ st' \in [Procs -> GraphState]
      /\ unsaved' \in [Procs -> Seq(Checkpoint)]
      /\ WorkSound' /\ UnsavedSound'
  BY <1>1, ReturnsSound
<1>3. /\ files' \subseteq (Nat \X (Nodes \cup {"dor_fail", "final"}))
      /\ IsFiniteSet(files') /\ writes' \in Nat /\ count' \in [Procs -> Nat]
  BY <1>1, MirrorsType
<1>4. TypeOK'
  BY <1>1, <1>2, <1>3 DEF IInv, TypeOK, forge, tally
<1>5. StoredSound' /\ PostedSound'
  BY <1>1 DEF IInv, StoredSound, PostedSound, forge
<1>6. QED
  BY <1>2, <1>3, <1>4, <1>5 DEF IInv

\* A process that ends takes nothing but its own work with it.
LEMMA LeavesSound ==
  ASSUME IInv, NEW p \in Procs, Leaves(p)
  PROVE  /\ at' \in [Procs -> Places] /\ st' \in [Procs -> GraphState]
         /\ count' \in [Procs -> Nat] /\ unsaved' \in [Procs -> Seq(Checkpoint)]
         /\ answer' \in [Procs -> Decisions \cup {None}]
         /\ WorkSound' /\ UnsavedSound'
<1>1. /\ at \in [Procs -> Places] /\ st \in [Procs -> GraphState]
      /\ count \in [Procs -> Nat] /\ unsaved \in [Procs -> Seq(Checkpoint)]
      /\ answer \in [Procs -> Decisions \cup {None}]
  BY DEF IInv, TypeOK
<1>2. Fresh \in GraphState
  BY DEF Fresh, GraphState
<1>3. Sound("idle", Fresh)
  BY DEF Sound
<1>4. << >> \in Seq(Checkpoint) /\ Len(<< >>) = 0
  BY EmptySeq
<1>5. /\ at' \in [Procs -> Places] /\ st' \in [Procs -> GraphState]
      /\ count' \in [Procs -> Nat] /\ unsaved' \in [Procs -> Seq(Checkpoint)]
      /\ answer' \in [Procs -> Decisions \cup {None}]
  BY <1>1, <1>2, <1>4 DEF Leaves, Places
<1>6. WorkSound'
  BY <1>1, <1>3 DEF Leaves, IInv, WorkSound
<1>7. UnsavedSound'
  BY <1>1, <1>4 DEF Leaves, IInv, UnsavedSound
<1>8. QED
  BY <1>5, <1>6, <1>7

\* A process that enters at a sound place with a sound state.
LEMMA EntersSound ==
  ASSUME IInv, NEW p \in Procs, NEW node \in Nodes, NEW s \in GraphState,
         NEW d \in Decisions \cup {None}, Sound(node, s), Enters(p, node, s, d)
  PROVE  /\ at' \in [Procs -> Places] /\ st' \in [Procs -> GraphState]
         /\ count' \in [Procs -> Nat] /\ answer' \in [Procs -> Decisions \cup {None}]
         /\ WorkSound'
<1>1. Cardinality(files) \in Nat
  BY FS_CardinalityType DEF IInv
<1>2. QED
  BY <1>1 DEF Enters, IInv, TypeOK, WorkSound, Places

-----------------------------------------------------------------------------
(* The inductive invariant.                                                *)

LEMMA InitInvariant == Init => IInv
<1> SUFFICES ASSUME Init PROVE IInv
  OBVIOUS
<1>1. Fresh \in GraphState
  BY DEF Fresh, GraphState
<1>2. Sound("idle", Fresh) /\ Sound("nowhere", Fresh)
  BY DEF Sound
<1>3. << >> \in Seq(Checkpoint) /\ Len(<< >>) = 0
  BY EmptySeq
<1>4. IsFiniteSet(files)
  BY FS_EmptySet DEF Init
<1>5. TypeOK
  <2>1. ckpt \in Stored /\ files \subseteq (Nat \X (Nodes \cup {"dor_fail", "final"}))
    BY DEF Init, Stored
  <2>2. /\ at \in [Procs -> Places] /\ st \in [Procs -> GraphState]
        /\ count \in [Procs -> Nat] /\ unsaved \in [Procs -> Seq(Checkpoint)]
        /\ answer \in [Procs -> Decisions \cup {None}]
    BY <1>1, <1>3 DEF Init, Places
  <2>3. /\ meta \in BOOLEAN /\ writes \in Nat /\ issues \in Nat /\ logs \in Nat
        /\ comments \subseteq Posting /\ finals \subseteq Posting
    BY DEF Init
  <2>4. /\ crashes \in 0 .. MaxCrashes /\ answers \in 0 .. MaxAnswers
        /\ overlaps \in 0 .. MaxOverlaps
    BY ReviewAssumption DEF Init
  <2>5. QED
    BY <2>1, <2>2, <2>3, <2>4 DEF TypeOK
<1>6. WorkSound /\ UnsavedSound /\ StoredSound /\ PostedSound
  BY <1>2, <1>3
     DEF Init, WorkSound, UnsavedSound, StoredSound, PostedSound, NoCheckpoint
<1>7. QED
  BY <1>4, <1>5, <1>6 DEF IInv

\* The nodes of the graph.
LEMMA NodeInvariant ==
  ASSUME IInv, NEW p \in Procs, Node(p) PROVE IInv'
<1>0. /\ st[p] \in GraphState /\ at[p] \in Places /\ Sound(at[p], st[p])
      /\ answer[p] \in Decisions \cup {None}
  BY DEF IInv, TypeOK, WorkSound
<1>1. CASE DorGate(p)
  <2>1. PICK r \in {"pass", "fail"} :
          Runs(p, "dor_gate", IF r = "pass" THEN "init" ELSE "post",
               [st[p] EXCEPT !.dor = r])
    BY <1>1 DEF DorGate
  <2> DEFINE s == [st[p] EXCEPT !.dor = r]
             next == IF r = "pass" THEN "init" ELSE "post"
  <2>2. s \in GraphState /\ next \in Nodes /\ s.dor = r
    BY <1>0 DEF GraphState, Nodes
  <2>3. Sound(next, s)
    BY <2>2 DEF Sound
  <2>4. QED
    BY <2>1, <2>2, <2>3, RunsKeeps DEF Nodes
<1>2. CASE InitNode(p)
  <2>1. Sound("analyze", st[p])
    BY DEF Sound
  <2>2. QED
    BY <1>0, <1>2, <2>1, RunsKeeps DEF InitNode, Nodes
<1>3. CASE Analyze(p)
  <2>1. PICK m \in Modes : Runs(p, "analyze", "tools", [st[p] EXCEPT !.mode = m])
    BY <1>3 DEF Analyze
  <2>2. [st[p] EXCEPT !.mode = m] \in GraphState
    BY <1>0 DEF GraphState
  <2>3. Sound("tools", [st[p] EXCEPT !.mode = m])
    BY DEF Sound
  <2>4. QED
    BY <2>1, <2>2, <2>3, RunsKeeps DEF Nodes
<1>4. CASE Tools(p)
  <2>1. Sound("vote", st[p])
    BY DEF Sound
  <2>2. QED
    BY <1>0, <1>4, <2>1, RunsKeeps DEF Tools, Nodes
<1>5. CASE Vote(p)
  <2>1. PICK v \in Panels : Runs(p, "vote", "verify", [st[p] EXCEPT !.panel = v])
    BY <1>5 DEF Vote
  <2>2. v \in Verdicts
    BY ReviewAssumption
  <2>3. [st[p] EXCEPT !.panel = v] \in GraphState /\ [st[p] EXCEPT !.panel = v].panel = v
    BY <1>0, <2>2 DEF GraphState
  <2>4. Sound("verify", [st[p] EXCEPT !.panel = v])
    BY <2>2, <2>3 DEF Sound
  <2>5. QED
    BY <2>1, <2>3, <2>4, RunsKeeps DEF Nodes
<1>6. CASE Verify(p)
  <2>1. st[p].panel \in Verdicts
    BY <1>0, <1>6 DEF Verify, At, Sound
  <2>2. PICK v \in Verdicts : Runs(p, "verify", "leader", [st[p] EXCEPT !.panel = v])
    BY <1>6, <2>1, ReviewAssumption DEF Verify
  <2>3. [st[p] EXCEPT !.panel = v] \in GraphState /\ [st[p] EXCEPT !.panel = v].panel = v
    BY <1>0 DEF GraphState
  <2>4. Sound("leader", [st[p] EXCEPT !.panel = v])
    BY <2>3 DEF Sound
  <2>5. QED
    BY <2>2, <2>3, <2>4, RunsKeeps DEF Nodes
<1>7. CASE Leader(p)
  <2> DEFINE s == [st[p] EXCEPT !.leader = st[p].panel]
             next == IF st[p].panel = "ESCALATE" THEN "escalate" ELSE "test_gate"
  <2>1. st[p].panel \in Verdicts
    BY <1>0, <1>7 DEF Leader, At, Sound
  <2>2. s \in GraphState /\ s.leader = st[p].panel /\ s.panel = st[p].panel
    BY <1>0, <2>1 DEF GraphState
  <2>3. Sound(next, s)
    BY <2>1, <2>2 DEF Sound
  <2>4. next \in Nodes
    BY DEF Nodes
  <2>5. Runs(p, "leader", next, s)
    BY <1>7 DEF Leader
  <2>6. QED
    BY <2>2, <2>3, <2>4, <2>5, RunsKeeps DEF Nodes
<1>8. CASE TestGate(p)
  <2>1. st[p].panel # "ESCALATE" /\ st[p].leader \in Verdicts
    BY <1>0, <1>8 DEF TestGate, At, Sound
  <2>2. PICK r \in Reports : /\ Runs(p, "test_gate", "post", Gated(st[p], r))
                             /\ r = "skipped" => st[p].mode = "fast"
    BY <1>8 DEF TestGate, Reports
  <2> DEFINE s == Gated(st[p], r)
  <2>3. /\ s.report = r /\ s.mode = st[p].mode /\ s.panel = st[p].panel
        /\ s.leader = IF r = "blocks" /\ st[p].leader \in Clean
                      THEN "REQUEST_CHANGES" ELSE st[p].leader
    BY <1>0 DEF Gated, GraphState
  <2>4. s \in GraphState
    BY <1>0, <2>1 DEF Gated, GraphState, Verdicts
  <2>5. Judged(s)
    BY <2>1, <2>2, <2>3 DEF Judged, Attended, Earned, Verdicts, Clean, Reports
  <2>6. Sound("post", s)
    BY <2>5 DEF Sound
  <2>7. QED
    BY <2>2, <2>4, <2>6, RunsKeeps DEF Nodes
<1>9. CASE OpenIssue(p)
  <2>1. PICK opened \in BOOLEAN :
          /\ issues' = IF opened THEN issues + 1 ELSE issues
          /\ st' = [st EXCEPT ![p].issue = opened]
    BY <1>9 DEF OpenIssue
  <2>2. [st[p] EXCEPT !.issue = opened] \in GraphState
    BY <1>0 DEF GraphState
  <2>3. Sound("issued", [st[p] EXCEPT !.issue = opened])
    BY <1>0, <1>9 DEF OpenIssue, At, Sound
  <2>4. TypeOK'
    <3>1. issues' \in Nat
      BY <2>1 DEF IInv, TypeOK
    <3>2. st' \in [Procs -> GraphState]
      BY <2>1, <2>2 DEF IInv, TypeOK
    <3>3. at' \in [Procs -> Places]
      BY <1>9 DEF OpenIssue, IInv, TypeOK, Places, Midway
    <3>4. QED
      BY <1>9, <3>1, <3>2, <3>3 DEF OpenIssue, IInv, TypeOK, disk, tally
  <2>5. WorkSound'
    BY <1>9, <2>1, <2>3 DEF OpenIssue, IInv, TypeOK, WorkSound
  <2>6. QED
    BY <1>9, <2>4, <2>5
       DEF OpenIssue, IInv, UnsavedSound, StoredSound, PostedSound, disk
<1>10. CASE Escalate(p)
  <2>1. Sound("hitl", st[p])
    BY <1>0, <1>10 DEF Escalate, Sound
  <2>2. QED
    BY <1>0, <1>10, <2>1, RunsKeeps DEF Escalate, Nodes
<1>11. CASE Pause(p)
  <2> DEFINE mark == ckpt.paused \/ (ckpt.next = "hitl" /\ ckpt.st = st[p])
  <2>1. ckpt' = [ckpt EXCEPT !.paused = mark]
    BY <1>11 DEF Pause
  <2>2. ckpt'.next = ckpt.next /\ ckpt'.st = ckpt.st
    BY <2>1 DEF IInv, TypeOK, Stored, NoCheckpoint
  <2>3. ckpt' \in Stored
    <3>1. CASE ckpt = NoCheckpoint
      BY <2>1, <3>1 DEF NoCheckpoint, Stored
    <3>2. CASE ckpt \in [next : Nodes \cup {"end"}, st : GraphState, paused : BOOLEAN]
      <4>1. mark \in BOOLEAN
        BY <3>2
      <4>2. QED
        BY <2>1, <3>2, <4>1 DEF Stored
    <3>3. QED
      BY <3>1, <3>2 DEF IInv, TypeOK, Stored
  <2>4. Leaves(p) /\ UNCHANGED <<meta, files, writes, finals, logs, forge, tally>>
    BY <1>11 DEF Pause
  <2>5. StoredSound'
    BY <2>2 DEF IInv, StoredSound
  <2>6. QED
    BY <2>3, <2>4, <2>5, LeavesSound DEF IInv, TypeOK, PostedSound, forge, tally
<1>12. CASE Hitl(p)
  <2> DEFINE s == Decided(st[p], answer[p])
  <2>1. /\ answer[p] \in Decisions /\ answer[p] # None /\ Returns(p, "post", s)
        /\ answer' = [answer EXCEPT ![p] = None]
        /\ UNCHANGED <<disk, forge, count, tally>>
    BY <1>12 DEF Hitl, Decisions, Verdicts, Clean, None
  <2>2. st[p].panel = "ESCALATE" /\ st[p].leader = "ESCALATE"
    BY <1>0, <1>12 DEF Hitl, At, Sound
  <2>3. /\ s.decision = answer[p] /\ s.panel = "ESCALATE"
        /\ s.leader = IF answer[p] \in Verdicts THEN answer[p] ELSE "ESCALATE"
    BY <1>0, <2>2 DEF Decided, GraphState
  <2>4. s \in GraphState
    BY <1>0, <2>1 DEF Decided, GraphState
  <2>5. Sound("post", s)
    BY <2>1, <2>3 DEF Sound, Judged, Attended, Earned, Verdicts, Clean
  <2>6. /\ at' \in [Procs -> Places] /\ st' \in [Procs -> GraphState]
        /\ unsaved' \in [Procs -> Seq(Checkpoint)]
        /\ WorkSound' /\ UnsavedSound'
    BY <2>1, <2>4, <2>5, ReturnsSound DEF Nodes
  <2>7. TypeOK'
    BY <2>1, <2>6 DEF IInv, TypeOK, disk, forge, tally
  <2>8. QED
    BY <2>1, <2>6, <2>7 DEF IInv, StoredSound, PostedSound, disk, forge
<1>13. CASE HitlRejects(p)
  <2>1. Leaves(p) /\ UNCHANGED <<disk, forge, tally>>
    BY <1>13 DEF HitlRejects
  <2>2. QED
    BY <2>1, LeavesSound DEF IInv, TypeOK, StoredSound, PostedSound, disk, forge, tally
<1>14. CASE PostDorFail(p)
  <2>1. /\ Mirrors(p, "dor_fail") /\ Returns(p, "end", st[p])
        /\ UNCHANGED <<meta, ckpt, finals, logs, forge, answer, tally>>
    BY <1>14 DEF PostDorFail
  <2>2. Sound("end", st[p])
    BY <1>14 DEF PostDorFail, Sound
  <2>3. /\ at' \in [Procs -> Places] /\ st' \in [Procs -> GraphState]
        /\ unsaved' \in [Procs -> Seq(Checkpoint)]
        /\ WorkSound' /\ UnsavedSound'
    BY <1>0, <2>1, <2>2, ReturnsSound
  <2>4. /\ files' \subseteq (Nat \X (Nodes \cup {"dor_fail", "final"}))
        /\ IsFiniteSet(files') /\ writes' \in Nat /\ count' \in [Procs -> Nat]
    BY <2>1, MirrorsType
  <2>5. TypeOK'
    BY <2>1, <2>3, <2>4 DEF IInv, TypeOK, forge, tally
  <2>6. QED
    BY <2>1, <2>3, <2>4, <2>5 DEF IInv, StoredSound, PostedSound, forge
<1>15. CASE PostLogs(p)
  <2>1. Sound("logged", st[p])
    BY <1>0, <1>15 DEF PostLogs, At, Sound
  <2>2. TypeOK'
    BY <1>15 DEF PostLogs, IInv, TypeOK, forge, tally, Places, Midway
  <2>3. WorkSound'
    BY <1>15, <2>1 DEF PostLogs, IInv, TypeOK, WorkSound
  <2>4. QED
    BY <1>15, <2>2, <2>3 DEF PostLogs, IInv, UnsavedSound, StoredSound, PostedSound, forge
<1>16. CASE PostComment(p)
  <2>1. Judged(st[p]) /\ Says(st[p]) \in Posting
    BY <1>0, <1>16 DEF PostComment, Sound, Judged, Says, Posting
  <2>2. comments' \subseteq comments \cup {Says(st[p])}
    BY <1>16 DEF PostComment
  <2>3. TypeOK'
    BY <1>16, <2>1, <2>2 DEF PostComment, IInv, TypeOK, disk, tally, Places, Midway
  <2>4. WorkSound'
    BY <1>0, <1>16, <2>1 DEF PostComment, IInv, TypeOK, WorkSound, Sound
  <2>5. PostedSound'
    BY <1>16, <2>1, <2>2 DEF PostComment, IInv, PostedSound, Says, disk
  <2>6. QED
    BY <1>16, <2>3, <2>4, <2>5 DEF PostComment, IInv, UnsavedSound, StoredSound, disk
<1>17. CASE PostFinal(p)
  <2>1. /\ Mirrors(p, "final") /\ Returns(p, "end", st[p])
        /\ finals' = finals \cup {Says(st[p])}
        /\ UNCHANGED <<meta, ckpt, logs, forge, answer, tally>>
    BY <1>17 DEF PostFinal
  <2>2. Judged(st[p]) /\ Says(st[p]) \in Posting /\ Sound("end", st[p])
    BY <1>0, <1>17 DEF PostFinal, Sound, Judged, Says, Posting
  <2>3. /\ at' \in [Procs -> Places] /\ st' \in [Procs -> GraphState]
        /\ unsaved' \in [Procs -> Seq(Checkpoint)]
        /\ WorkSound' /\ UnsavedSound'
    BY <1>0, <2>1, <2>2, ReturnsSound
  <2>4. /\ files' \subseteq (Nat \X (Nodes \cup {"dor_fail", "final"}))
        /\ IsFiniteSet(files') /\ writes' \in Nat /\ count' \in [Procs -> Nat]
    BY <2>1, MirrorsType
  <2>5. TypeOK'
    BY <2>1, <2>2, <2>3, <2>4 DEF IInv, TypeOK, forge, tally
  <2>6. PostedSound'
    BY <2>1, <2>2 DEF IInv, PostedSound, Says, forge
  <2>7. QED
    BY <2>1, <2>3, <2>4, <2>5, <2>6 DEF IInv, StoredSound
<1>18. QED
  BY <1>1, <1>2, <1>3, <1>4, <1>5, <1>6, <1>7, <1>8, <1>9, <1>10, <1>11, <1>12,
     <1>13, <1>14, <1>15, <1>16, <1>17 DEF Node

\* The processes.
LEMMA FreeTally ==
  ASSUME IInv, NEW p \in Procs, Free(p) PROVE overlaps' \in 0 .. MaxOverlaps
BY ReviewAssumption DEF IInv, TypeOK, Free

LEMMA NextInvariant == IInv /\ [Next]_vars => IInv'
<1> SUFFICES ASSUME IInv, [Next]_vars PROVE IInv'
  OBVIOUS
<1>0. ckpt.next \in Nodes => ckpt.st \in GraphState
  BY DEF IInv, TypeOK, Stored, NoCheckpoint, Nodes
<1>1. ASSUME NEW p \in Procs, Node(p) PROVE IInv'
  BY <1>1, NodeInvariant
<1>2. ASSUME NEW p \in Procs, StartReview(p) PROVE IInv'
  <2> DEFINE r == [next |-> "dor_gate", st |-> Fresh]
  <2>1. Fresh \in GraphState /\ Sound("dor_gate", Fresh)
    BY DEF Fresh, GraphState, Sound
  <2>2. /\ at' \in [Procs -> Places] /\ st' \in [Procs -> GraphState]
        /\ count' \in [Procs -> Nat] /\ answer' \in [Procs -> Decisions \cup {None}]
        /\ WorkSound'
    BY <1>2, <2>1, EntersSound DEF StartReview, Nodes
  <2>3. <<r>> \in Seq(Checkpoint) /\ Len(<<r>>) = 1 /\ <<r>>[1] = r
    BY <2>1 DEF Checkpoint, Nodes
  <2>4. unsaved' = [unsaved EXCEPT ![p] = <<r>>]
    BY <1>2 DEF StartReview
  <2>5. unsaved' \in [Procs -> Seq(Checkpoint)]
    BY <2>3, <2>4 DEF IInv, TypeOK
  <2>6. UnsavedSound'
    BY <2>1, <2>3, <2>4 DEF IInv, TypeOK, UnsavedSound
  <2>7. overlaps' \in 0 .. MaxOverlaps
    BY <1>2, FreeTally DEF StartReview
  <2>8. TypeOK'
    BY <1>2, <2>2, <2>5, <2>7 DEF StartReview, IInv, TypeOK, forge
  <2>9. QED
    BY <1>2, <2>2, <2>6, <2>8 DEF StartReview, IInv, StoredSound, PostedSound, forge
<1>3. ASSUME NEW p \in Procs, Recover(p) PROVE IInv'
  <2>1. Sound(ckpt.next, ckpt.st)
    BY DEF IInv, StoredSound
  <2>2. /\ at' \in [Procs -> Places] /\ st' \in [Procs -> GraphState]
        /\ count' \in [Procs -> Nat] /\ answer' \in [Procs -> Decisions \cup {None}]
        /\ WorkSound'
    BY <1>0, <1>3, <2>1, EntersSound DEF Recover
  <2>3. overlaps' \in 0 .. MaxOverlaps
    BY <1>3, FreeTally DEF Recover
  <2>4. TypeOK'
    BY <1>3, <2>2, <2>3 DEF Recover, IInv, TypeOK, disk, forge
  <2>5. QED
    BY <1>3, <2>2, <2>4
       DEF Recover, IInv, UnsavedSound, StoredSound, PostedSound, disk, forge
<1>4. ASSUME NEW p \in Procs, Resume(p) PROVE IInv'
  <2>1. PICK d \in Answers :
          Enters(p, ckpt.next, ckpt.st, IF ckpt.next = "hitl" THEN d ELSE None)
    BY <1>4 DEF Resume
  <2>2. Sound(ckpt.next, ckpt.st) /\ d \in Decisions
    BY ReviewAssumption DEF IInv, StoredSound
  <2>3. /\ at' \in [Procs -> Places] /\ st' \in [Procs -> GraphState]
        /\ count' \in [Procs -> Nat] /\ answer' \in [Procs -> Decisions \cup {None}]
        /\ WorkSound'
    BY <1>0, <1>4, <2>1, <2>2, EntersSound DEF Resume
  <2>4. overlaps' \in 0 .. MaxOverlaps
    BY <1>4, FreeTally DEF Resume
  <2>5. answers' \in 0 .. MaxAnswers
    BY <1>4, ReviewAssumption DEF Resume, IInv, TypeOK
  <2>6. TypeOK'
    BY <1>4, <2>3, <2>4, <2>5 DEF Resume, IInv, TypeOK, disk, forge
  <2>7. QED
    BY <1>4, <2>3, <2>6
       DEF Resume, IInv, UnsavedSound, StoredSound, PostedSound, disk, forge
<1>5. ASSUME NEW p \in Procs, Persist(p) PROVE IInv'
  <2> DEFINE h == Head(unsaved[p])
  <2>1. /\ unsaved[p] \in Seq(Checkpoint) /\ unsaved[p] # << >>
        /\ unsaved \in [Procs -> Seq(Checkpoint)]
    BY <1>5 DEF Persist, IInv, TypeOK
  <2>2. /\ h \in Checkpoint /\ h = unsaved[p][1] /\ 1 \in 1 .. Len(unsaved[p])
        /\ Tail(unsaved[p]) \in Seq(Checkpoint)
        /\ Len(Tail(unsaved[p])) = Len(unsaved[p]) - 1
        /\ \A i \in 1 .. Len(Tail(unsaved[p])) : Tail(unsaved[p])[i] = unsaved[p][i + 1]
    BY <2>1, HeadTailProperties, EmptySeq
  <2>3. ckpt' = [next |-> h.next, st |-> h.st, paused |-> FALSE]
        /\ unsaved' = [unsaved EXCEPT ![p] = Tail(unsaved[p])]
    BY <1>5 DEF Persist
  <2>4. ckpt' \in Stored /\ StoredSound'
    BY <2>2, <2>3 DEF Checkpoint, Stored, IInv, UnsavedSound, StoredSound
  <2>5. unsaved' \in [Procs -> Seq(Checkpoint)]
    BY <2>1, <2>2, <2>3
  <2>6. UnsavedSound'
    <3> SUFFICES ASSUME NEW q \in Procs, NEW i \in 1 .. Len(unsaved'[q])
                 PROVE  Sound(unsaved'[q][i].next, unsaved'[q][i].st)
      BY DEF UnsavedSound
    <3>1. CASE q # p
      BY <2>1, <2>3, <3>1 DEF IInv, UnsavedSound
    <3>2. CASE q = p
      <4>1. /\ unsaved'[p] = Tail(unsaved[p]) /\ i \in 1 .. Len(Tail(unsaved[p]))
            /\ Len(unsaved[p]) \in Nat
        BY <2>1, <2>3, <3>2, LenProperties
      <4>2. i + 1 \in 1 .. Len(unsaved[p]) /\ unsaved'[p][i] = unsaved[p][i + 1]
        BY <4>1, <2>2
      <4>3. QED
        BY <3>2, <4>2 DEF IInv, UnsavedSound
    <3>3. QED
      BY <3>1, <3>2
  <2>7. TypeOK'
    BY <1>5, <2>4, <2>5 DEF Persist, IInv, TypeOK, forge, tally
  <2>8. QED
    BY <1>5, <2>4, <2>6, <2>7 DEF Persist, IInv, WorkSound, PostedSound, forge
<1>6. ASSUME NEW p \in Procs, Crash(p) PROVE IInv'
  <2>1. Leaves(p) /\ crashes' = crashes + 1 /\ UNCHANGED <<disk, forge, answers, overlaps>>
    BY <1>6 DEF Crash
  <2>2. crashes' \in 0 .. MaxCrashes
    BY <1>6, ReviewAssumption DEF Crash, IInv, TypeOK
  <2>3. QED
    BY <2>1, <2>2, LeavesSound
       DEF IInv, TypeOK, StoredSound, PostedSound, disk, forge
<1>7. ASSUME NEW p \in Procs, Finish(p) PROVE IInv'
  <2>1. Leaves(p) /\ UNCHANGED <<disk, forge, tally>>
    BY <1>7 DEF Finish
  <2>2. QED
    BY <2>1, LeavesSound DEF IInv, TypeOK, StoredSound, PostedSound, disk, forge, tally
<1>8. CASE UNCHANGED vars
  BY <1>8
     DEF vars, disk, forge, procs, tally, IInv, TypeOK, WorkSound, UnsavedSound,
         StoredSound, PostedSound
<1>9. QED
  BY <1>1, <1>2, <1>3, <1>4, <1>5, <1>6, <1>7, <1>8 DEF Next

LEMMA Invariance == Spec => []IInv
BY InitInvariant, NextInvariant, PTL DEF Spec

-----------------------------------------------------------------------------
(* One process at a time: the mirror's numbers and the side effects.       *)

\* Where the graph stands when a process is at this place.
Stand(place) == CASE place = "issued" -> "escalate"
                  [] place \in {"logged", "commented"} -> "post"
                  [] OTHER -> place

Quiet == \A p \in Procs : at[p] = "idle"
Alone == \A p, q \in Procs : at[p] # "idle" /\ at[q] # "idle" => p = q

\* A process that is gone has nothing to store; a human's answer is brought to
\* hitl by a process that has run no node yet; a review begins with meta.yaml.
Idling == \A p \in Procs : at[p] = "idle" => unsaved[p] = <<>> /\ answer[p] = None
Answering == \A p \in Procs : answer[p] # None => at[p] = "hitl" /\ unsaved[p] = <<>>
Begun == ~ meta => Quiet /\ ckpt = NoCheckpoint /\ issues = 0 /\ logs = 0 /\ comments = {}

OrderInv == Idling /\ Answering /\ Begun /\ (overlaps = 0 => Alone)

\* The process at work counts from the mirror's last step.
Numbered == AppendOnlyMirror /\ \A p \in Procs : at[p] # "idle" => count[p] = writes
NumberInv == overlaps = 0 => Numbered

\* What has not happened when the graph stands at a place.
BeforeIssue == {"dor_gate", "init", "analyze", "tools", "vote", "verify", "leader",
                "test_gate", "escalate"}
Due(place) == /\ place \in BeforeIssue => issues = 0
              /\ place \notin {"logged", "commented", "end"} => logs = 0
              /\ place \notin {"commented", "end"} => comments = {}

\* The newest result of a process, stored or not, is where it stands.
Latest(p) == IF unsaved[p] = <<>> THEN ckpt.next ELSE unsaved[p][Len(unsaved[p])].next

Calm == /\ issues <= 1 /\ logs <= 1 /\ \A c, d \in comments : c = d
        /\ \A p \in Procs : at[p] # "idle" => Due(at[p]) /\ Latest(p) = Stand(at[p])
        /\ Quiet => Due(ckpt.next)
CalmInv == crashes + overlaps = 0 => Calm

\* A step of a process leaves the others where they were, and only a step that
\* opens the graph or leaves it changes which processes are at work.
LEMMA NodeMoves ==
  ASSUME IInv, NEW p \in Procs, Node(p)
  PROVE  /\ at[p] # "idle"
         /\ \A q \in Procs \ {p} : /\ at'[q] = at[q] /\ unsaved'[q] = unsaved[q]
                                   /\ answer'[q] = answer[q] /\ count'[q] = count[q]
         /\ UNCHANGED <<meta, tally>>
<1>0. /\ at \in [Procs -> Places] /\ unsaved \in [Procs -> Seq(Checkpoint)]
      /\ answer \in [Procs -> Decisions \cup {None}] /\ count \in [Procs -> Nat]
  BY DEF IInv, TypeOK
<1>1. CASE DorGate(p)
  BY <1>0, <1>1 DEF DorGate, At, Runs, Mirrors, Returns
<1>2. CASE InitNode(p) \/ Tools(p) \/ Leader(p) \/ Escalate(p)
  BY <1>0, <1>2 DEF InitNode, Tools, Leader, Escalate, At, Runs, Mirrors, Returns
<1>3. CASE Analyze(p) \/ Vote(p) \/ Verify(p) \/ TestGate(p)
  BY <1>0, <1>3 DEF Analyze, Vote, Verify, TestGate, At, Runs, Mirrors, Returns
<1>4. CASE OpenIssue(p) \/ PostLogs(p) \/ PostComment(p)
  BY <1>0, <1>4 DEF OpenIssue, PostLogs, PostComment, At, disk
<1>5. CASE Pause(p) \/ HitlRejects(p)
  BY <1>0, <1>5 DEF Pause, HitlRejects, At, Leaves, disk
<1>6. CASE Hitl(p)
  BY <1>0, <1>6 DEF Hitl, At, Returns, disk
<1>7. CASE PostDorFail(p) \/ PostFinal(p)
  BY <1>0, <1>7 DEF PostDorFail, PostFinal, At, Mirrors, Returns
<1>8. QED
  BY <1>1, <1>2, <1>3, <1>4, <1>5, <1>6, <1>7 DEF Node

\* A process that opens the graph ran nothing, and was alone if it does not
\* count as an overlap.
LEMMA FreeMoves ==
  ASSUME IInv, NEW p \in Procs, Free(p)
  PROVE  /\ at[p] = "idle" /\ overlaps' \in Nat /\ overlaps' >= overlaps
         /\ overlaps' = 0 => overlaps = 0 /\ Quiet
BY DEF Free, Quiet, IInv, TypeOK

LEMMA EntersMoves ==
  ASSUME IInv, NEW p \in Procs, NEW node, NEW s, NEW d, Enters(p, node, s, d)
  PROVE  /\ at'[p] = node /\ answer'[p] = d /\ count'[p] = Cardinality(files)
         /\ \A q \in Procs \ {p} : /\ at'[q] = at[q] /\ answer'[q] = answer[q]
                                   /\ count'[q] = count[q]
BY DEF Enters, IInv, TypeOK

LEMMA LeavesMoves ==
  ASSUME IInv, NEW p \in Procs, Leaves(p)
  PROVE  /\ at'[p] = "idle" /\ answer'[p] = None /\ unsaved'[p] = <<>>
         /\ \A q \in Procs \ {p} : /\ at'[q] = at[q] /\ unsaved'[q] = unsaved[q]
                                   /\ answer'[q] = answer[q] /\ count'[q] = count[q]
BY DEF Leaves, IInv, TypeOK

\* What p brings and holds when a node returned: only hitl has an answer, and
\* takes it.
LEMMA NodeOrder ==
  ASSUME IInv, OrderInv, NEW p \in Procs, Node(p)
  PROVE  /\ answer'[p] # None => at'[p] = "hitl" /\ unsaved'[p] = <<>>
         /\ at'[p] = "idle" => unsaved'[p] = <<>> /\ answer'[p] = None
<1>0. /\ at \in [Procs -> Places] /\ unsaved \in [Procs -> Seq(Checkpoint)]
      /\ answer \in [Procs -> Decisions \cup {None}]
      /\ answer[p] # None => at[p] = "hitl"
  BY DEF IInv, TypeOK, OrderInv, Answering
<1>1. ASSUME NEW node, NEW next \in Nodes \cup {"end"}, NEW s, Runs(p, node, next, s),
             at[p] # "hitl"
      PROVE  answer'[p] = None /\ at'[p] # "idle"
  BY <1>0, <1>1 DEF Runs, Returns, Nodes
<1>2. CASE DorGate(p)
  BY <1>0, <1>1, <1>2 DEF DorGate, At, Nodes
<1>3. CASE InitNode(p) \/ Tools(p) \/ Leader(p) \/ Escalate(p)
  BY <1>0, <1>1, <1>3 DEF InitNode, Tools, Leader, Escalate, At, Nodes
<1>4. CASE Analyze(p) \/ Vote(p) \/ Verify(p) \/ TestGate(p)
  BY <1>0, <1>1, <1>4 DEF Analyze, Vote, Verify, TestGate, At, Nodes
<1>5. CASE OpenIssue(p) \/ PostLogs(p) \/ PostComment(p)
  BY <1>0, <1>5 DEF OpenIssue, PostLogs, PostComment, At, disk
<1>6. CASE Pause(p) \/ HitlRejects(p)
  BY <1>6, LeavesMoves DEF Pause, HitlRejects
<1>7. CASE Hitl(p)
  BY <1>0, <1>7 DEF Hitl, At, Returns, disk
<1>8. CASE PostDorFail(p) \/ PostFinal(p)
  BY <1>0, <1>8 DEF PostDorFail, PostFinal, At, Mirrors, Returns
<1>9. QED
  BY <1>2, <1>3, <1>4, <1>5, <1>6, <1>7, <1>8 DEF Node

LEMMA OrderInit == Init => OrderInv
BY DEF Init, OrderInv, Idling, Answering, Begun, Quiet, Alone

LEMMA OrderNext == IInv /\ OrderInv /\ [Next]_vars => OrderInv'
<1> SUFFICES ASSUME IInv, OrderInv, [Next]_vars PROVE OrderInv'
  OBVIOUS
<1> USE DEF OrderInv, Idling, Answering, Begun, Quiet, Alone
<1>0. meta \in BOOLEAN /\ overlaps \in Nat
  BY DEF IInv, TypeOK
<1>1. ASSUME NEW p \in Procs, Node(p) PROVE OrderInv'
  BY <1>0, <1>1, NodeMoves, NodeOrder DEF tally
<1>2. ASSUME NEW p \in Procs, StartReview(p) PROVE OrderInv'
  <2>1. at' = [at EXCEPT ![p] = "dor_gate"] /\ at'[p] # "idle" /\ answer'[p] = None
    BY <1>2, EntersMoves DEF StartReview, Enters, IInv, TypeOK
  <2>2. meta' /\ \A q \in Procs \ {p} : unsaved'[q] = unsaved[q]
    BY <1>2 DEF StartReview
  <2>3. QED
    BY <1>2, <2>1, <2>2, EntersMoves, FreeMoves DEF StartReview
<1>3. ASSUME NEW p \in Procs, Recover(p) \/ Resume(p) PROVE OrderInv'
  <2>1. PICK d : Enters(p, ckpt.next, ckpt.st, d) /\ (ckpt.next # "hitl" => d = None)
    BY <1>3 DEF Recover, Resume
  <2>2. Free(p) /\ meta /\ meta' = meta /\ unsaved' = unsaved /\ ckpt.next \in Nodes
    BY <1>3 DEF Recover, Resume, disk
  <2>3. at'[p] = ckpt.next /\ at'[p] # "idle" /\ answer'[p] = d /\ unsaved'[p] = <<>>
    BY <2>1, <2>2, EntersMoves, FreeMoves DEF Nodes
  <2>4. QED
    BY <2>1, <2>2, <2>3, EntersMoves, FreeMoves
<1>4. ASSUME NEW p \in Procs, Persist(p) PROVE OrderInv'
  <2>1. /\ UNCHANGED <<at, answer, meta, overlaps>> /\ unsaved[p] # <<>>
        /\ \A q \in Procs \ {p} : unsaved'[q] = unsaved[q]
    BY <1>4 DEF Persist, tally, IInv, TypeOK
  <2>2. at[p] # "idle" /\ answer[p] = None
    BY <2>1
  <2>3. QED
    BY <2>1, <2>2
<1>5. ASSUME NEW p \in Procs, Crash(p) \/ Finish(p) PROVE OrderInv'
  <2>1. Leaves(p) /\ UNCHANGED <<meta, overlaps>> /\ at[p] # "idle"
    BY <1>5 DEF Crash, Finish, disk, tally
  <2>2. QED
    BY <2>1, LeavesMoves
<1>6. CASE UNCHANGED vars
  BY <1>6 DEF vars, disk, forge, procs, tally
<1>7. QED
  BY <1>1, <1>2, <1>3, <1>4, <1>5, <1>6 DEF Next

\* The step a node mirrors is one the mirror does not hold.
LEMMA MirrorsNumbers ==
  ASSUME IInv, Numbered, NEW p \in Procs, NEW name, Mirrors(p, name), at[p] # "idle"
  PROVE  AppendOnlyMirror' /\ count'[p] = writes'
<1>1. /\ IsFiniteSet(files) /\ writes \in Nat /\ count[p] = writes
      /\ {f[1] : f \in files} = 1 .. writes /\ Cardinality(files) = writes
      /\ count \in [Procs -> Nat]
  BY DEF IInv, TypeOK, Numbered, AppendOnlyMirror
<1> DEFINE new == <<writes + 1, name>>
<1>2. files' = files \cup {new} /\ writes' = writes + 1 /\ count'[p] = writes + 1
  BY <1>1 DEF Mirrors
<1>3. new \notin files
  BY <1>1
<1>4. Cardinality(files') = writes + 1
  BY <1>1, <1>2, <1>3, FS_AddElement
<1>5. {f[1] : f \in files'} = {f[1] : f \in files} \cup {writes + 1}
  <2>1. \A f \in files' : f[1] \in {g[1] : g \in files} \cup {writes + 1}
    BY <1>2
  <2>2. new \in files' /\ new[1] = writes + 1 /\ files \subseteq files'
    BY <1>2
  <2>3. QED
    BY <2>1, <2>2, Zenon
<1>6. {f[1] : f \in files'} = 1 .. writes + 1
  <2>1. (1 .. writes) \cup {writes + 1} = 1 .. writes + 1
    BY <1>1
  <2>2. QED
    BY <1>1, <1>5, <2>1, Zenon
<1>7. QED
  BY <1>2, <1>4, <1>6 DEF AppendOnlyMirror

\* A node mirrors one step, or none and leaves the counter alone.
LEMMA NodeMirrors ==
  ASSUME IInv, NEW p \in Procs, Node(p)
  PROVE  \/ \E name : Mirrors(p, name)
         \/ UNCHANGED <<files, writes>> /\ (at'[p] # "idle" => count' = count)
<1>1. CASE DorGate(p)
  BY <1>1 DEF DorGate, Runs
<1>2. CASE InitNode(p) \/ Tools(p) \/ Leader(p) \/ Escalate(p)
  BY <1>2 DEF InitNode, Tools, Leader, Escalate, Runs
<1>3. CASE Analyze(p) \/ Vote(p) \/ Verify(p) \/ TestGate(p)
  BY <1>3 DEF Analyze, Vote, Verify, TestGate, Runs
<1>4. CASE OpenIssue(p) \/ PostLogs(p) \/ PostComment(p) \/ Hitl(p)
  BY <1>4 DEF OpenIssue, PostLogs, PostComment, Hitl, disk
<1>5. CASE Pause(p) \/ HitlRejects(p)
  BY <1>5, LeavesMoves DEF Pause, HitlRejects, disk
<1>6. CASE PostDorFail(p) \/ PostFinal(p)
  BY <1>6 DEF PostDorFail, PostFinal
<1>7. QED
  BY <1>1, <1>2, <1>3, <1>4, <1>5, <1>6 DEF Node

LEMMA NumberInit == Init => NumberInv
<1> SUFFICES ASSUME Init PROVE Numbered
  BY DEF NumberInv
<1>1. Cardinality({}) = 0
  BY FS_EmptySet
<1>2. QED
  BY <1>1 DEF Init, Numbered, AppendOnlyMirror

LEMMA NumberNext == IInv /\ OrderInv /\ NumberInv /\ [Next]_vars => NumberInv'
<1> SUFFICES ASSUME IInv, OrderInv, NumberInv, [Next]_vars, overlaps' = 0
             PROVE  Numbered'
  BY DEF NumberInv
<1>0. at \in [Procs -> Places] /\ (overlaps = 0 => Numbered /\ Alone)
  BY DEF IInv, TypeOK, NumberInv, OrderInv
<1>1. ASSUME NEW p \in Procs, Node(p) PROVE Numbered'
  <2>1. overlaps = 0 /\ at[p] # "idle"
    BY <1>1, NodeMoves DEF tally
  <2>2. \A q \in Procs \ {p} : at'[q] = "idle"
    BY <1>0, <1>1, <2>1, NodeMoves DEF Alone
  <2>3. CASE \E name : Mirrors(p, name)
    BY <1>0, <2>1, <2>2, <2>3, MirrorsNumbers DEF Numbered
  <2>4. CASE UNCHANGED <<files, writes>> /\ (at'[p] # "idle" => count' = count)
    BY <1>0, <2>1, <2>2, <2>4 DEF Numbered, AppendOnlyMirror
  <2>5. QED
    BY <1>1, <2>3, <2>4, NodeMirrors
<1>2. ASSUME NEW p \in Procs, StartReview(p) \/ Recover(p) \/ Resume(p)
      PROVE  Numbered'
  <2>1. Free(p) /\ (\E node, s, d : Enters(p, node, s, d)) /\ UNCHANGED <<files, writes>>
    BY <1>2 DEF StartReview, Recover, Resume, disk
  <2>2. Numbered /\ \A q \in Procs \ {p} : at'[q] = "idle"
    BY <1>0, <2>1, FreeMoves, EntersMoves DEF Quiet
  <2>3. QED
    BY <2>1, <2>2, EntersMoves DEF Numbered, AppendOnlyMirror
<1>3. ASSUME NEW p \in Procs, Persist(p) PROVE Numbered'
  BY <1>0, <1>3 DEF Persist, tally, Numbered, AppendOnlyMirror
<1>4. ASSUME NEW p \in Procs, Crash(p) \/ Finish(p) PROVE Numbered'
  <2>1. Leaves(p) /\ UNCHANGED <<files, writes, overlaps>>
    BY <1>4 DEF Crash, Finish, disk, tally
  <2>2. QED
    BY <1>0, <2>1, LeavesMoves DEF Numbered, AppendOnlyMirror
<1>5. CASE UNCHANGED vars
  BY <1>0, <1>5 DEF vars, disk, procs, tally, Numbered, AppendOnlyMirror
<1>6. QED
  BY <1>1, <1>2, <1>3, <1>4, <1>5 DEF Next

\* What a process hands over is its newest result.
LEMMA ReturnsLatest ==
  ASSUME IInv, NEW p \in Procs, NEW next \in Nodes \cup {"end"},
         NEW s \in GraphState, Returns(p, next, s)
  PROVE  at'[p] = next /\ Latest(p)' = next /\ Stand(next) = next /\ next # "idle"
<1> DEFINE r == [next |-> next, st |-> s]
<1>1. unsaved[p] \in Seq(Checkpoint) /\ r \in Checkpoint
  BY DEF IInv, TypeOK, Checkpoint
<1>2. at'[p] = next /\ unsaved'[p] = Append(unsaved[p], r)
  BY DEF Returns, IInv, TypeOK
<1>3. /\ Append(unsaved[p], r) # <<>>
      /\ Len(Append(unsaved[p], r)) = Len(unsaved[p]) + 1
      /\ Append(unsaved[p], r)[Len(unsaved[p]) + 1] = r
  BY <1>1, AppendProperties
<1>4. Latest(p)' = next
  BY <1>2, <1>3 DEF Latest
<1>5. QED
  BY <1>2, <1>4 DEF Stand, Nodes

\* While one process works, the review is calm if that process is.
LEMMA SoloCalm ==
  ASSUME NEW p \in Procs, \A q \in Procs \ {p} : at'[q] = "idle",
         at'[p] # "idle", Due(at[p])', Latest(p)' = Stand(at'[p]),
         issues' <= 1, logs' <= 1, \A c, d \in comments' : c = d
  PROVE  Calm'
BY DEF Calm, Quiet

\* A node without side effects leaves what is due as it was.
LEMMA DueMoves ==
  ASSUME NEW place, NEW next, Due(place), place \notin {"logged", "commented", "end"},
         UNCHANGED <<issues, logs, comments>>,
         next \in BeforeIssue => place \in BeforeIssue
  PROVE  Due(next)'
BY DEF Due

\* Only the nodes that write outside the process have side effects, each once.
LEMMA NodeCalm ==
  ASSUME IInv, OrderInv, Calm, Alone, NEW p \in Procs, Node(p)
  PROVE  Calm'
<1>0. /\ at[p] # "idle" /\ \A q \in Procs \ {p} : at'[q] = "idle"
      /\ Due(at[p]) /\ Latest(p) = Stand(at[p]) /\ issues \in Nat /\ logs \in Nat
      /\ issues <= 1 /\ logs <= 1 /\ \A c, d \in comments : c = d
      /\ at \in [Procs -> Places] /\ st[p] \in GraphState
  BY NodeMoves DEF Calm, Alone, IInv, TypeOK
<1>1. ASSUME NEW node, NEW next \in Nodes \cup {"end"}, NEW s \in GraphState,
             Returns(p, next, s), UNCHANGED <<logs, forge>>,
             at[p] \notin {"logged", "commented", "end"},
             next \in BeforeIssue => at[p] \in BeforeIssue
      PROVE  Calm'
  <2>1. at'[p] = next /\ Latest(p)' = Stand(at'[p]) /\ at'[p] # "idle"
    BY <1>1, ReturnsLatest
  <2>2. Due(next)'
    BY <1>0, <1>1, DueMoves DEF forge
  <2>3. QED
    BY <1>0, <1>1, <2>1, <2>2, SoloCalm DEF forge, Due
<1>2. CASE DorGate(p)
  <2>1. PICK r \in {"pass", "fail"} :
          Runs(p, "dor_gate", IF r = "pass" THEN "init" ELSE "post",
               [st[p] EXCEPT !.dor = r])
    BY <1>2 DEF DorGate
  <2>2. [st[p] EXCEPT !.dor = r] \in GraphState /\ at[p] = "dor_gate"
    BY <1>0, <1>2 DEF GraphState, DorGate, At
  <2>3. QED
    BY <1>1, <2>1, <2>2 DEF Runs, Nodes, BeforeIssue
<1>3. CASE InitNode(p) \/ Tools(p) \/ Escalate(p)
  BY <1>0, <1>1, <1>3 DEF InitNode, Tools, Escalate, At, Runs, Nodes, BeforeIssue
<1>4. CASE Analyze(p)
  <2>1. PICK m \in Modes : Runs(p, "analyze", "tools", [st[p] EXCEPT !.mode = m])
    BY <1>4 DEF Analyze
  <2>2. [st[p] EXCEPT !.mode = m] \in GraphState /\ at[p] = "analyze"
    BY <1>0, <1>4 DEF GraphState, Analyze, At
  <2>3. QED
    BY <1>1, <2>1, <2>2 DEF Runs, Nodes, BeforeIssue
<1>5. CASE Vote(p)
  <2>1. PICK v \in Verdicts : Runs(p, "vote", "verify", [st[p] EXCEPT !.panel = v])
    BY <1>5, ReviewAssumption DEF Vote
  <2>2. [st[p] EXCEPT !.panel = v] \in GraphState /\ at[p] = "vote"
    BY <1>0, <1>5 DEF GraphState, Vote, At
  <2>3. QED
    BY <1>1, <2>1, <2>2 DEF Runs, Nodes, BeforeIssue
<1>6. CASE Verify(p)
  <2>1. at[p] = "verify" /\ st[p].panel \in Verdicts
    BY <1>6 DEF Verify, At, IInv, WorkSound, Sound
  <2>2. PICK v \in Verdicts : Runs(p, "verify", "leader", [st[p] EXCEPT !.panel = v])
    BY <1>6, <2>1, ReviewAssumption DEF Verify
  <2>3. [st[p] EXCEPT !.panel = v] \in GraphState
    BY <1>0 DEF GraphState
  <2>4. QED
    BY <1>1, <2>1, <2>2, <2>3 DEF Runs, Nodes, BeforeIssue
<1>7. CASE Leader(p)
  <2> DEFINE next == IF st[p].panel = "ESCALATE" THEN "escalate" ELSE "test_gate"
  <2>1. at[p] = "leader" /\ st[p].panel \in Verdicts
    BY <1>7 DEF Leader, At, IInv, WorkSound, Sound
  <2>2. [st[p] EXCEPT !.leader = st[p].panel] \in GraphState
    BY <1>0, <2>1 DEF GraphState
  <2>3. Runs(p, "leader", next, [st[p] EXCEPT !.leader = st[p].panel]) /\ next \in Nodes
    BY <1>7 DEF Leader, Nodes
  <2>4. QED
    BY <1>1, <2>1, <2>2, <2>3 DEF Runs, BeforeIssue
<1>8. CASE TestGate(p)
  <2>1. at[p] = "test_gate" /\ st[p].leader \in Verdicts
    BY <1>8 DEF TestGate, At, IInv, WorkSound, Sound
  <2>2. PICK r \in Reports : Runs(p, "test_gate", "post", Gated(st[p], r))
    BY <1>8 DEF TestGate, Reports
  <2>3. Gated(st[p], r) \in GraphState
    BY <1>0, <2>1 DEF Gated, GraphState, Verdicts
  <2>4. QED
    BY <1>1, <2>1, <2>2, <2>3 DEF Runs, Nodes, BeforeIssue
<1>9. CASE OpenIssue(p)
  <2>1. /\ at[p] = "escalate" /\ at'[p] = "issued" /\ issues' \in {issues, issues + 1}
        /\ UNCHANGED <<ckpt, logs, comments, unsaved>>
    BY <1>0, <1>9 DEF OpenIssue, At, disk
  <2>2. issues = 0 /\ logs = 0 /\ comments = {}
    BY <1>0, <2>1 DEF Due, BeforeIssue
  <2>3. Latest(p)' = Stand(at'[p])
    BY <1>0, <2>1 DEF Latest, Stand
  <2>4. Due(at[p])'
    BY <2>1, <2>2 DEF Due, BeforeIssue
  <2>5. QED
    BY <1>0, <2>1, <2>2, <2>3, <2>4, SoloCalm
<1>10. CASE Pause(p)
  <2>1. /\ at[p] = "hitl" /\ unsaved[p] = <<>> /\ Leaves(p)
        /\ ckpt' = [ckpt EXCEPT !.paused = @ \/ (ckpt.next = "hitl" /\ ckpt.st = st[p])]
        /\ UNCHANGED <<logs, forge>>
    BY <1>10 DEF Pause
  <2>2. ckpt.next = "hitl" /\ ckpt'.next = "hitl"
    BY <1>0, <2>1 DEF Latest, Stand, IInv, TypeOK, Stored, NoCheckpoint
  <2>3. Due("hitl")' /\ \A q \in Procs : at'[q] = "idle"
    BY <1>0, <2>1, LeavesMoves, DueMoves DEF forge, BeforeIssue
  <2>4. QED
    BY <1>0, <2>1, <2>2, <2>3 DEF Calm, forge
<1>11. CASE Hitl(p)
  <2>1. /\ answer[p] \in Decisions /\ Returns(p, "post", Decided(st[p], answer[p]))
        /\ at[p] = "hitl" /\ UNCHANGED <<logs, forge>>
    BY <1>11 DEF Hitl, At, disk
  <2>2. Decided(st[p], answer[p]) \in GraphState
    BY <1>0, <2>1 DEF Decided, GraphState
  <2>3. QED
    BY <1>1, <2>1, <2>2 DEF Nodes, BeforeIssue
<1>12. CASE HitlRejects(p)
  <2>1. /\ at[p] = "hitl" /\ answer[p] # None /\ Leaves(p) /\ UNCHANGED <<ckpt, logs, forge>>
    BY <1>12 DEF HitlRejects, At, disk, None
  <2>2. ckpt.next = "hitl"
    BY <1>0, <2>1 DEF OrderInv, Answering, Latest, Stand
  <2>3. Due("hitl")' /\ \A q \in Procs : at'[q] = "idle"
    BY <1>0, <2>1, LeavesMoves, DueMoves DEF forge, BeforeIssue
  <2>4. QED
    BY <1>0, <2>1, <2>2, <2>3 DEF Calm, forge
<1>13. CASE PostDorFail(p)
  BY <1>0, <1>1, <1>13 DEF PostDorFail, At, Nodes, BeforeIssue
<1>14. CASE PostLogs(p)
  <2>1. /\ at[p] = "post" /\ at'[p] = "logged" /\ logs' = logs + 1
        /\ UNCHANGED <<ckpt, issues, comments, unsaved>>
    BY <1>0, <1>14 DEF PostLogs, At, forge
  <2>2. logs = 0 /\ comments = {}
    BY <1>0, <2>1 DEF Due
  <2>3. Latest(p)' = Stand(at'[p]) /\ Due(at[p])'
    BY <1>0, <2>1, <2>2 DEF Latest, Stand, Due, BeforeIssue
  <2>4. QED
    BY <1>0, <2>1, <2>2, <2>3, SoloCalm
<1>15. CASE PostComment(p)
  <2>1. /\ at[p] = "logged" /\ at'[p] = "commented"
        /\ comments' \in {comments, comments \cup {Says(st[p])}}
        /\ UNCHANGED <<ckpt, issues, logs, unsaved>>
    BY <1>0, <1>15 DEF PostComment, disk
  <2>2. comments = {}
    BY <1>0, <2>1 DEF Due
  <2>3. Latest(p)' = Stand(at'[p]) /\ Due(at[p])'
    BY <1>0, <2>1, <2>2 DEF Latest, Stand, Due, BeforeIssue
  <2>4. QED
    BY <1>0, <2>1, <2>2, <2>3, SoloCalm
<1>16. CASE PostFinal(p)
  <2>1. at[p] = "commented" /\ Returns(p, "end", st[p]) /\ UNCHANGED <<logs, forge>>
    BY <1>16 DEF PostFinal
  <2>2. at'[p] = "end" /\ Latest(p)' = Stand(at'[p])
    BY <1>0, <2>1, ReturnsLatest
  <2>3. Due("end")'
    BY DEF Due, BeforeIssue
  <2>4. QED
    BY <1>0, <2>1, <2>2, <2>3, SoloCalm DEF forge
<1>17. QED
  BY <1>2, <1>3, <1>4, <1>5, <1>6, <1>7, <1>8, <1>9, <1>10, <1>11, <1>12, <1>13,
     <1>14, <1>15, <1>16 DEF Node

LEMMA CalmInit == Init => CalmInv
BY DEF Init, CalmInv, Calm, Due, NoCheckpoint

LEMMA CalmNext == IInv /\ OrderInv /\ CalmInv /\ [Next]_vars => CalmInv'
<1> SUFFICES ASSUME IInv, OrderInv, CalmInv, [Next]_vars, crashes' + overlaps' = 0
             PROVE  Calm'
  BY DEF CalmInv
<1>0. /\ crashes \in Nat /\ overlaps \in Nat /\ at \in [Procs -> Places]
      /\ issues \in Nat /\ logs \in Nat
      /\ crashes + overlaps = 0 => Calm /\ Alone
  BY DEF IInv, TypeOK, CalmInv, OrderInv
<1>1. ASSUME NEW p \in Procs, Node(p) PROVE Calm'
  BY <1>0, <1>1, NodeMoves, NodeCalm DEF tally
<1>2. ASSUME NEW p \in Procs, Free(p), crashes' = crashes, UNCHANGED <<logs, forge>>,
             NEW node \in Nodes, NEW s, NEW d, Enters(p, node, s, d),
             Latest(p)' = node, Due(node)
      PROVE  Calm'
  <2>1. crashes + overlaps = 0 /\ Quiet /\ Calm
    BY <1>0, <1>2, FreeMoves
  <2>2. at'[p] = node /\ \A q \in Procs \ {p} : at'[q] = "idle"
    BY <1>2, <2>1, EntersMoves DEF Quiet
  <2>3. node # "idle" /\ Stand(node) = node /\ Due(node)'
    BY <1>2 DEF Nodes, Stand, Due, forge
  <2>4. QED
    BY <1>2, <2>1, <2>2, <2>3, SoloCalm DEF Calm, forge
<1>3. ASSUME NEW p \in Procs, StartReview(p) PROVE Calm'
  <2> DEFINE r == [next |-> "dor_gate", st |-> Fresh]
  <2>1. unsaved'[p] = <<r>> /\ Len(<<r>>) = 1 /\ <<r>>[1] = r
    BY <1>3 DEF StartReview, IInv, TypeOK
  <2>2. Latest(p)' = "dor_gate"
    BY <2>1 DEF Latest
  <2>3. Due("dor_gate")
    BY <1>3 DEF StartReview, OrderInv, Begun, Due
  <2>4. QED
    BY <1>2, <1>3, <2>2, <2>3 DEF StartReview, Nodes
<1>4. ASSUME NEW p \in Procs, Recover(p) \/ Resume(p) PROVE Calm'
  <2>1. /\ Free(p) /\ crashes' = crashes /\ UNCHANGED <<logs, forge, ckpt, unsaved>>
        /\ ckpt.next \in Nodes /\ \E d : Enters(p, ckpt.next, ckpt.st, d)
    BY <1>4 DEF Recover, Resume, disk
  <2>2. Quiet /\ Calm
    BY <1>0, <2>1, FreeMoves
  <2>3. Due(ckpt.next) /\ unsaved[p] = <<>>
    BY <2>2 DEF Calm, Quiet, OrderInv, Idling
  <2>4. Latest(p)' = ckpt.next
    BY <2>1, <2>3 DEF Latest
  <2>5. QED
    BY <1>2, <2>1, <2>3, <2>4
<1>5. ASSUME NEW p \in Procs, Persist(p) PROVE Calm'
  <2>1. /\ unsaved[p] # <<>> /\ unsaved[p] \in Seq(Checkpoint) /\ UNCHANGED <<at, logs, forge>>
        /\ crashes + overlaps = 0 /\ ckpt'.next = Head(unsaved[p]).next
        /\ unsaved'[p] = Tail(unsaved[p])
    BY <1>0, <1>5 DEF Persist, tally, IInv, TypeOK
  <2>2. /\ at[p] # "idle" /\ \A q \in Procs \ {p} : at[q] = "idle"
    BY <1>0, <2>1 DEF OrderInv, Idling, Alone
  <2>3. Latest(p)' = Latest(p)
    <3>1. /\ Head(unsaved[p]) = unsaved[p][1] /\ Len(unsaved[p]) \in Nat \ {0}
          /\ Len(Tail(unsaved[p])) = Len(unsaved[p]) - 1
          /\ \A i \in 1 .. Len(Tail(unsaved[p])) : Tail(unsaved[p])[i] = unsaved[p][i + 1]
          /\ Tail(unsaved[p]) \in Seq(Checkpoint)
      BY <2>1, HeadTailProperties, EmptySeq
    <3>2. CASE Len(unsaved[p]) = 1
      <4>1. Tail(unsaved[p]) = <<>>
        BY <3>1, <3>2, EmptySeq
      <4>2. QED
        BY <2>1, <3>1, <3>2, <4>1 DEF Latest
    <3>3. CASE Len(unsaved[p]) # 1
      <4>1. /\ Len(Tail(unsaved[p])) \in 1 .. Len(Tail(unsaved[p]))
            /\ Tail(unsaved[p]) # <<>>
        <5>1. Len(Tail(unsaved[p])) \in Nat /\ Len(Tail(unsaved[p])) # 0
          BY <3>1, <3>3
        <5>2. Len(<<>>) = 0
          BY EmptySeq
        <5>3. Tail(unsaved[p]) # <<>>
          BY <5>1, <5>2, Zenon
        <5>4. QED
          BY <5>1, <5>3
      <4>2. Tail(unsaved[p])[Len(Tail(unsaved[p]))] = unsaved[p][Len(unsaved[p])]
        BY <3>1, <4>1
      <4>3. QED
        BY <2>1, <4>1, <4>2 DEF Latest
    <3>4. QED
      BY <3>2, <3>3
  <2>4. Due(at[p])'
    BY <1>0, <2>1, <2>2 DEF Calm, Due, forge
  <2>5. QED
    BY <1>0, <2>1, <2>2, <2>3, <2>4, SoloCalm DEF Calm, forge
<1>6. ASSUME NEW p \in Procs, Finish(p) PROVE Calm'
  <2>1. /\ Leaves(p) /\ UNCHANGED <<ckpt, logs, forge, tally>>
        /\ at[p] = "end" /\ unsaved[p] = <<>>
    BY <1>6 DEF Finish, disk
  <2>2. Calm /\ Alone
    BY <1>0, <2>1 DEF tally
  <2>3. ckpt.next = "end" /\ \A q \in Procs : at'[q] = "idle"
    BY <2>1, <2>2, LeavesMoves DEF Calm, Alone, Latest, Stand
  <2>4. Due("end")'
    BY DEF Due, BeforeIssue
  <2>5. QED
    BY <2>1, <2>2, <2>3, <2>4 DEF Calm, forge
<1>7. ASSUME NEW p \in Procs, Crash(p) PROVE FALSE
  BY <1>0, <1>7 DEF Crash
<1>8. CASE UNCHANGED vars
  BY <1>0, <1>8 DEF vars, disk, forge, procs, tally, Calm, Quiet, Due, Latest
<1>9. QED
  BY <1>1, <1>3, <1>4, <1>5, <1>6, <1>7, <1>8 DEF Next
-----------------------------------------------------------------------------
(* The mirror covers the checkpoint, whoever wrote either.                 *)

Mirrored(F) == {f[2] : f \in F}

\* The nodes that must have left a file when the graph stands at a place.
First == {"dor_gate", "init", "analyze", "tools", "vote", "verify", "leader"}
Owed(place, s) ==
  CASE place \in {"idle", "nowhere", "dor_gate"} -> {}
    [] place = "init" -> {"dor_gate"}
    [] place = "analyze" -> {"dor_gate", "init"}
    [] place = "tools" -> {"dor_gate", "init", "analyze"}
    [] place = "vote" -> {"dor_gate", "init", "analyze", "tools"}
    [] place = "verify" -> {"dor_gate", "init", "analyze", "tools", "vote"}
    [] place = "leader" -> {"dor_gate", "init", "analyze", "tools", "vote", "verify"}
    [] place \in {"escalate", "issued", "test_gate"} -> First
    [] place = "hitl" -> First \cup {"escalate"}
    [] OTHER -> IF s.dor = "fail" THEN {"dor_gate"}
                ELSE First \cup {IF s.panel = "ESCALATE" THEN "escalate" ELSE "test_gate"}

\* A state is backed by mirror files F for a place: Gate 1 has decided where it
\* must have, and the files that are owed are there.
Backed(F, place, s) ==
  /\ place \notin {"idle", "nowhere", "dor_gate", "post", "end"} => s.dor = "pass"
  /\ place \in {"post", "end"} => s.dor # None
  /\ Owed(place, s) \subseteq Mirrored(F)
  /\ place = "end" => Mirrored(F) \cap {"dor_fail", "final"} # {}

WorkBacked == \A p \in Procs : Backed(files, at[p], st[p])
UnsavedBacked ==
  \A p \in Procs : \A i \in 1 .. Len(unsaved[p]) :
    Backed(files, unsaved[p][i].next, unsaved[p][i].st)
CoverInv == WorkBacked /\ UnsavedBacked /\ Backed(files, ckpt.next, ckpt.st)

\* What comes before the n-th node of a trail.
LEMMA PassedBefore ==
  ASSUME NEW s, NEW len \in Nat, DOMAIN Trail(s) = 1 .. len
  PROVE  \A n \in 1 .. len : \A x \in Passed(Trail(s)[n], s) :
           \E i \in 1 .. n - 1 : x = Trail(s)[i]
<1> SUFFICES ASSUME NEW n \in 1 .. len, NEW k \in 1 .. len,
                    \A j \in 1 .. k : Trail(s)[j] # Trail(s)[n]
             PROVE  k \in 1 .. n - 1
  BY DEF Passed
<1>1. k \in Nat /\ k >= 1 /\ n \in Nat /\ n >= 1 /\ ~ (n \in 1 .. k)
  OBVIOUS
<1>2. QED
  BY <1>1

\* The trail of a review that Gate 1 let through.
LEMMA TrailIs ==
  ASSUME NEW s, s.dor # "fail"
  PROVE  LET T == Trail(s) IN
         /\ DOMAIN T = 1 .. (IF s.panel = "ESCALATE" THEN 10 ELSE 9)
         /\ T[1] = "dor_gate" /\ T[2] = "init" /\ T[3] = "analyze" /\ T[4] = "tools"
         /\ T[5] = "vote" /\ T[6] = "verify" /\ T[7] = "leader"
         /\ s.panel = "ESCALATE" => T[8] = "escalate" /\ T[9] = "hitl" /\ T[10] = "post"
         /\ s.panel # "ESCALATE" => T[8] = "test_gate" /\ T[9] = "post"
<1> DEFINE head == <<"dor_gate", "init", "analyze", "tools", "vote", "verify", "leader">>
           long == <<"escalate", "hitl", "post">>
           short == <<"test_gate", "post">>
<1>1. head \in Seq(Nodes) /\ long \in Seq(Nodes) /\ short \in Seq(Nodes)
  BY DEF Nodes
<1>2. Len(head) = 7 /\ Len(long) = 3 /\ Len(short) = 2
  OBVIOUS
<1>3. CASE s.panel = "ESCALATE"
  <2>1. Trail(s) = head \o long
    BY <1>3 DEF Trail
  <2>2. /\ head \o long \in Seq(Nodes) /\ Len(head \o long) = 10
        /\ \A i \in 1 .. 10 : (head \o long)[i] = IF i <= 7 THEN head[i] ELSE long[i - 7]
    BY <1>1, <1>2, ConcatProperties
  <2>3. DOMAIN Trail(s) = 1 .. 10
    BY <2>1, <2>2
  <2>4. QED
    BY <1>3, <2>1, <2>2, <2>3
<1>4. CASE s.panel # "ESCALATE"
  <2>1. Trail(s) = head \o short
    BY <1>4 DEF Trail
  <2>2. /\ head \o short \in Seq(Nodes) /\ Len(head \o short) = 9
        /\ \A i \in 1 .. 9 : (head \o short)[i] = IF i <= 7 THEN head[i] ELSE short[i - 7]
    BY <1>1, <1>2, ConcatProperties
  <2>3. DOMAIN Trail(s) = 1 .. 9
    BY <2>1, <2>2
  <2>4. QED
    BY <1>4, <2>1, <2>2, <2>3
<1>5. QED
  BY <1>3, <1>4

\* A backed result is one whose passed nodes are mirrored.
LEMMA BackedCovers ==
  ASSUME NEW F, NEW s \in GraphState, NEW place \in Nodes \cup {"end"},
         Sound(place, s), Backed(F, place, s)
  PROVE  Passed(place, s) \ {"hitl", "post"} \subseteq Owed(place, s)
<1> SUFFICES ASSUME NEW x \in Passed(place, s), x \notin {"hitl", "post"}
             PROVE  x \in Owed(place, s)
  OBVIOUS
<1>1. CASE s.dor = "fail"
  <2>1. Trail(s) = <<"dor_gate", "post">> /\ DOMAIN Trail(s) = 1 .. 2
    BY <1>1 DEF Trail
  <2>2. place \in {"dor_gate", "post", "end"}
    BY <1>1 DEF Backed, Nodes
  <2>3. x = "dor_gate"
    BY <2>1 DEF Passed
  <2>4. place # "dor_gate"
    BY <2>1, <2>3 DEF Passed
  <2>5. QED
    BY <1>1, <2>2, <2>3, <2>4 DEF Owed
<1>2. CASE s.dor # "fail"
  <2> DEFINE T == Trail(s)
             len == IF s.panel = "ESCALATE" THEN 10 ELSE 9
  <2>1. /\ DOMAIN T = 1 .. len /\ len \in {9, 10}
        /\ T[1] = "dor_gate" /\ T[2] = "init" /\ T[3] = "analyze" /\ T[4] = "tools"
        /\ T[5] = "vote" /\ T[6] = "verify" /\ T[7] = "leader"
        /\ s.panel = "ESCALATE" => T[8] = "escalate" /\ T[9] = "hitl" /\ T[10] = "post"
        /\ s.panel # "ESCALATE" => T[8] = "test_gate" /\ T[9] = "post"
    BY <1>2, TrailIs
  <2>2. ASSUME NEW n \in 1 .. len, T[n] = place
        PROVE  \E i \in 1 .. n - 1 : x = T[i]
    <3>1. len \in Nat /\ DOMAIN Trail(s) = 1 .. len
      BY <2>1
    <3>2. \A m \in 1 .. len : \A y \in Passed(Trail(s)[m], s) :
            \E i \in 1 .. m - 1 : y = Trail(s)[i]
      BY ONLY <3>1, PassedBefore
    <3>3. QED
      BY <2>2, <3>2
  <2>3. PICK k \in 1 .. len : x = T[k]
    BY <2>1 DEF Passed
  <2>4. CASE place = "dor_gate"
    <3>1. \E i \in 1 .. 0 : x = T[i]
      BY <2>1, <2>2, <2>4
    <3>2. QED
      BY <2>1, <2>4, <3>1 DEF Owed
  <2>5. CASE place = "init"
    <3>1. \E i \in 1 .. 1 : x = T[i]
      BY <2>1, <2>2, <2>5
    <3>2. QED
      BY <2>1, <2>5, <3>1 DEF Owed
  <2>6. CASE place = "analyze"
    <3>1. \E i \in 1 .. 2 : x = T[i]
      BY <2>1, <2>2, <2>6
    <3>2. QED
      BY <2>1, <2>6, <3>1 DEF Owed
  <2>7. CASE place = "tools"
    <3>1. \E i \in 1 .. 3 : x = T[i]
      BY <2>1, <2>2, <2>7
    <3>2. QED
      BY <2>1, <2>7, <3>1 DEF Owed
  <2>8. CASE place = "vote"
    <3>1. \E i \in 1 .. 4 : x = T[i]
      BY <2>1, <2>2, <2>8
    <3>2. QED
      BY <2>1, <2>8, <3>1 DEF Owed
  <2>9. CASE place = "verify"
    <3>1. \E i \in 1 .. 5 : x = T[i]
      BY <2>1, <2>2, <2>9
    <3>2. QED
      BY <2>1, <2>9, <3>1 DEF Owed
  <2>10. CASE place = "leader"
    <3>1. \E i \in 1 .. 6 : x = T[i]
      BY <2>1, <2>2, <2>10
    <3>2. QED
      BY <2>1, <2>10, <3>1 DEF Owed
  <2>11. CASE place \in {"escalate", "test_gate"}
    <3>1. s.panel = "ESCALATE" <=> place = "escalate"
      BY <2>11 DEF Sound
    <3>2. \E i \in 1 .. 7 : x = T[i]
      BY <2>1, <2>2, <2>11, <3>1
    <3>3. QED
      BY <2>1, <2>11, <3>2 DEF Owed, First
  <2>12. CASE place = "hitl"
    <3>1. s.panel = "ESCALATE"
      BY <2>12 DEF Sound
    <3>2. \E i \in 1 .. 8 : x = T[i]
      BY <2>1, <2>2, <2>12, <3>1
    <3>3. QED
      BY <2>1, <2>12, <3>1, <3>2 DEF Owed, First
  <2>13. CASE place \in {"post", "end"}
    <3>1. Owed(place, s)
          = First \cup {IF s.panel = "ESCALATE" THEN "escalate" ELSE "test_gate"}
      BY <1>2, <2>13 DEF Owed
    <3>2. x \in First \cup {IF s.panel = "ESCALATE" THEN "escalate" ELSE "test_gate"}
      BY <2>1, <2>3 DEF First
    <3>3. QED
      BY <3>1, <3>2
  <2>14. QED
    BY <2>4, <2>5, <2>6, <2>7, <2>8, <2>9, <2>10, <2>11, <2>12, <2>13 DEF Nodes
<1>3. QED
  BY <1>1, <1>2

\* Files are never taken away, so what is backed stays backed.
LEMMA BackedGrows ==
  ASSUME NEW F, NEW G, F \subseteq G
  PROVE  /\ Mirrored(F) \subseteq Mirrored(G)
         /\ \A place, s : Backed(F, place, s) => Backed(G, place, s)
BY DEF Mirrored, Backed

\* A backed result may be handed over.
LEMMA ReturnsBacked ==
  ASSUME IInv, CoverInv, NEW p \in Procs, NEW next \in Nodes \cup {"end"},
         NEW s \in GraphState, Returns(p, next, s), files \subseteq files',
         Backed(files', next, s), UNCHANGED ckpt
  PROVE  CoverInv'
<1> DEFINE r == [next |-> next, st |-> s]
<1>1. /\ unsaved[p] \in Seq(Checkpoint) /\ r \in Checkpoint
      /\ at \in [Procs -> Places] /\ st \in [Procs -> GraphState]
      /\ unsaved \in [Procs -> Seq(Checkpoint)]
  BY DEF IInv, TypeOK, Checkpoint
<1>2. \A place, t : Backed(files, place, t) => Backed(files', place, t)
  BY BackedGrows
<1>3. WorkBacked'
  BY <1>1, <1>2 DEF Returns, CoverInv, WorkBacked
<1>4. /\ Append(unsaved[p], r) \in Seq(Checkpoint)
      /\ Len(Append(unsaved[p], r)) = Len(unsaved[p]) + 1
      /\ Append(unsaved[p], r)[Len(unsaved[p]) + 1] = r
      /\ \A i \in 1 .. Len(unsaved[p]) : Append(unsaved[p], r)[i] = unsaved[p][i]
      /\ Len(unsaved[p]) \in Nat
  BY <1>1, AppendProperties, LenProperties
<1>5. unsaved' = [unsaved EXCEPT ![p] = Append(unsaved[p], r)]
  BY DEF Returns
<1>6. UnsavedBacked'
  <2> SUFFICES ASSUME NEW q \in Procs, NEW i \in 1 .. Len(unsaved'[q])
               PROVE  Backed(files', unsaved'[q][i].next, unsaved'[q][i].st)
    BY DEF UnsavedBacked
  <2>1. CASE q # p
    BY <1>1, <1>2, <1>5, <2>1 DEF CoverInv, UnsavedBacked
  <2>2. CASE q = p /\ i \in 1 .. Len(unsaved[p])
    BY <1>1, <1>2, <1>4, <1>5, <2>2 DEF CoverInv, UnsavedBacked
  <2>3. CASE q = p /\ i = Len(unsaved[p]) + 1
    BY <1>1, <1>4, <1>5, <2>3
  <2>4. QED
    BY <1>1, <1>4, <1>5, <2>1, <2>2, <2>3
<1>7. Backed(files', ckpt'.next, ckpt'.st)
  BY <1>2 DEF CoverInv
<1>8. QED
  BY <1>3, <1>6, <1>7 DEF CoverInv

\* A node that mirrors what it passed hands over a backed result.
LEMMA MirrorsBacked ==
  ASSUME IInv, CoverInv, NEW p \in Procs, NEW name, Mirrors(p, name),
         NEW next \in Nodes \cup {"end"}, NEW s \in GraphState, Returns(p, next, s),
         UNCHANGED ckpt,
         Owed(next, s) \subseteq Owed(at[p], st[p]) \cup {name},
         next \notin {"dor_gate", "post", "end"} => s.dor = "pass",
         next \in {"post", "end"} => s.dor # None,
         next = "end" => name \in {"dor_fail", "final"}
  PROVE  CoverInv'
<1>1. files \subseteq files' /\ <<count[p] + 1, name>> \in files'
  BY DEF Mirrors
<1>2. Mirrored(files) \subseteq Mirrored(files') /\ name \in Mirrored(files')
  BY <1>1, BackedGrows DEF Mirrored
<1>3. Backed(files, at[p], st[p])
  BY DEF CoverInv, WorkBacked
<1>4. Backed(files', next, s)
  BY <1>2, <1>3 DEF Backed
<1>5. QED
  BY <1>1, <1>4, ReturnsBacked

\* A process that ends leaves the files it wrote.
LEMMA LeavesBacked ==
  ASSUME IInv, CoverInv, NEW p \in Procs, Leaves(p), UNCHANGED files
  PROVE  WorkBacked' /\ UnsavedBacked'
<1>1. /\ at \in [Procs -> Places] /\ st \in [Procs -> GraphState]
      /\ unsaved \in [Procs -> Seq(Checkpoint)] /\ Len(<< >>) = 0
  BY EmptySeq DEF IInv, TypeOK
<1>2. Backed(files, "idle", Fresh)
  BY DEF Backed, Owed
<1>3. QED
  BY <1>1, <1>2 DEF Leaves, CoverInv, WorkBacked, UnsavedBacked

\* Every node.
LEMMA NodeCovers ==
  ASSUME IInv, CoverInv, NEW p \in Procs, Node(p) PROVE CoverInv'
<1>0. /\ st[p] \in GraphState /\ at[p] \in Places /\ Sound(at[p], st[p])
      /\ Backed(files, at[p], st[p])
      /\ at \in [Procs -> Places] /\ st \in [Procs -> GraphState]
      /\ unsaved \in [Procs -> Seq(Checkpoint)]
      /\ answer[p] \in Decisions \cup {None}
  BY DEF IInv, TypeOK, WorkSound, CoverInv, WorkBacked
<1>1. CASE DorGate(p)
  <2>1. PICK r \in {"pass", "fail"} :
          Runs(p, "dor_gate", IF r = "pass" THEN "init" ELSE "post",
               [st[p] EXCEPT !.dor = r])
    BY <1>1 DEF DorGate
  <2> DEFINE s == [st[p] EXCEPT !.dor = r]
             next == IF r = "pass" THEN "init" ELSE "post"
  <2>2. s \in GraphState /\ next \in Nodes /\ s.dor = r
    BY <1>0 DEF GraphState, Nodes
  <2>3. Owed(next, s) \subseteq {"dor_gate"}
    BY <2>2 DEF Owed
  <2>4. Mirrors(p, "dor_gate") /\ Returns(p, next, s) /\ UNCHANGED ckpt
    BY <2>1 DEF Runs
  <2>5. /\ Owed(next, s) \subseteq Owed(at[p], st[p]) \cup {"dor_gate"}
        /\ next \notin {"dor_gate", "post", "end"} => s.dor = "pass"
        /\ next \in {"post", "end"} => s.dor # None /\ next # "end"
    BY <2>2, <2>3 DEF None
  <2> HIDE DEF s, next
  <2>6. QED
    BY <2>2, <2>4, <2>5, MirrorsBacked
<1>2. CASE InitNode(p)
  <2>1. /\ Mirrors(p, "init") /\ Returns(p, "analyze", st[p]) /\ UNCHANGED ckpt
        /\ at[p] = "init"
    BY <1>2 DEF InitNode, Runs, At
  <2>2. Owed("analyze", st[p]) \subseteq Owed("init", st[p]) \cup {"init"}
    BY DEF Owed
  <2>3. QED
    BY <1>0, <2>1, <2>2, MirrorsBacked DEF Nodes, Backed
<1>3. CASE Analyze(p)
  <2>1. PICK m \in Modes : Runs(p, "analyze", "tools", [st[p] EXCEPT !.mode = m])
    BY <1>3 DEF Analyze
  <2> DEFINE s == [st[p] EXCEPT !.mode = m]
  <2>2. s \in GraphState /\ s.dor = st[p].dor /\ at[p] = "analyze"
    BY <1>0, <1>3 DEF GraphState, Analyze, At
  <2>3. Mirrors(p, "analyze") /\ Returns(p, "tools", s) /\ UNCHANGED ckpt
    BY <2>1 DEF Runs
  <2>4. Owed("tools", s) \subseteq Owed("analyze", st[p]) \cup {"analyze"}
    BY DEF Owed
  <2> HIDE DEF s
  <2>5. QED
    BY <1>0, <2>2, <2>3, <2>4, MirrorsBacked DEF Nodes, Backed
<1>4. CASE Tools(p)
  <2>1. /\ Mirrors(p, "tools") /\ Returns(p, "vote", st[p]) /\ UNCHANGED ckpt
        /\ at[p] = "tools"
    BY <1>4 DEF Tools, Runs, At
  <2>2. Owed("vote", st[p]) \subseteq Owed("tools", st[p]) \cup {"tools"}
    BY DEF Owed
  <2>3. QED
    BY <1>0, <2>1, <2>2, MirrorsBacked DEF Nodes, Backed
<1>5. CASE Vote(p)
  <2>1. PICK v \in Verdicts : Runs(p, "vote", "verify", [st[p] EXCEPT !.panel = v])
    BY <1>5, ReviewAssumption DEF Vote
  <2> DEFINE s == [st[p] EXCEPT !.panel = v]
  <2>2. s \in GraphState /\ s.dor = st[p].dor /\ at[p] = "vote"
    BY <1>0, <1>5 DEF GraphState, Vote, At
  <2>3. Mirrors(p, "vote") /\ Returns(p, "verify", s) /\ UNCHANGED ckpt
    BY <2>1 DEF Runs
  <2>4. Owed("verify", s) \subseteq Owed("vote", st[p]) \cup {"vote"}
    BY DEF Owed
  <2> HIDE DEF s
  <2>5. QED
    BY <1>0, <2>2, <2>3, <2>4, MirrorsBacked DEF Nodes, Backed
<1>6. CASE Verify(p)
  <2>1. st[p].panel \in Verdicts /\ at[p] = "verify"
    BY <1>0, <1>6 DEF Verify, At, Sound
  <2>2. PICK v \in Verdicts : Runs(p, "verify", "leader", [st[p] EXCEPT !.panel = v])
    BY <1>6, <2>1, ReviewAssumption DEF Verify
  <2> DEFINE s == [st[p] EXCEPT !.panel = v]
  <2>3. s \in GraphState /\ s.dor = st[p].dor
    BY <1>0 DEF GraphState
  <2>4. Mirrors(p, "verify") /\ Returns(p, "leader", s) /\ UNCHANGED ckpt
    BY <2>2 DEF Runs
  <2>5. Owed("leader", s) \subseteq Owed("verify", st[p]) \cup {"verify"}
    BY DEF Owed
  <2> HIDE DEF s
  <2>6. QED
    BY <1>0, <2>1, <2>3, <2>4, <2>5, MirrorsBacked DEF Nodes, Backed
<1>7. CASE Leader(p)
  <2> DEFINE s == [st[p] EXCEPT !.leader = st[p].panel]
             next == IF st[p].panel = "ESCALATE" THEN "escalate" ELSE "test_gate"
  <2>1. at[p] = "leader" /\ st[p].panel \in Verdicts
    BY <1>0, <1>7 DEF Leader, At, Sound
  <2>2. s \in GraphState /\ s.dor = st[p].dor /\ next \in {"escalate", "test_gate"}
    BY <1>0, <2>1 DEF GraphState
  <2>3. Mirrors(p, "leader") /\ Returns(p, next, s) /\ UNCHANGED ckpt
    BY <1>7 DEF Leader, Runs
  <2>4. Owed(next, s) \subseteq Owed("leader", st[p]) \cup {"leader"}
    BY DEF Owed, First
  <2> HIDE DEF s, next
  <2>5. QED
    BY <1>0, <2>1, <2>2, <2>3, <2>4, MirrorsBacked DEF Nodes, Backed
<1>8. CASE TestGate(p)
  <2>1. at[p] = "test_gate" /\ st[p].leader \in Verdicts /\ st[p].panel # "ESCALATE"
    BY <1>0, <1>8 DEF TestGate, At, Sound
  <2>2. PICK r \in Reports : Runs(p, "test_gate", "post", Gated(st[p], r))
    BY <1>8 DEF TestGate, Reports
  <2> DEFINE s == Gated(st[p], r)
  <2>3. s \in GraphState /\ s.dor = st[p].dor /\ s.panel = st[p].panel
    BY <1>0, <2>1 DEF Gated, GraphState, Verdicts
  <2>4. Mirrors(p, "test_gate") /\ Returns(p, "post", s) /\ UNCHANGED ckpt
    BY <2>2 DEF Runs
  <2>5. s.dor = "pass"
    BY <1>0, <2>1, <2>3 DEF Backed
  <2> HIDE DEF s
  <2>6. Owed("post", s) \subseteq Owed("test_gate", st[p]) \cup {"test_gate"}
    BY <2>1, <2>3, <2>5 DEF Owed
  <2>7. QED
    BY <1>0, <2>1, <2>3, <2>4, <2>5, <2>6, MirrorsBacked DEF Nodes, None
<1>9. CASE OpenIssue(p)
  <2>1. PICK opened \in BOOLEAN : st' = [st EXCEPT ![p].issue = opened]
    BY <1>9 DEF OpenIssue
  <2>2. /\ at[p] = "escalate" /\ at' = [at EXCEPT ![p] = "issued"]
        /\ UNCHANGED <<files, ckpt, unsaved>>
    BY <1>9 DEF OpenIssue, At, disk
  <2>3. st'[p].dor = st[p].dor /\ Owed("issued", st'[p]) = Owed("escalate", st[p])
    BY <1>0, <2>1 DEF GraphState, Owed
  <2>4. Backed(files, "issued", st'[p])
    BY <1>0, <2>2, <2>3 DEF Backed
  <2>5. QED
    BY <1>0, <2>1, <2>2, <2>4 DEF CoverInv, WorkBacked, UnsavedBacked
<1>10. CASE Escalate(p)
  <2>1. /\ Mirrors(p, "escalate") /\ Returns(p, "hitl", st[p]) /\ UNCHANGED ckpt
        /\ at[p] = "issued"
    BY <1>10 DEF Escalate, Runs
  <2>2. Owed("hitl", st[p]) \subseteq Owed("issued", st[p]) \cup {"escalate"}
    BY DEF Owed
  <2>3. QED
    BY <1>0, <2>1, <2>2, MirrorsBacked DEF Nodes, Backed
<1>11. CASE Pause(p)
  <2>1. /\ Leaves(p) /\ UNCHANGED files
        /\ ckpt' = [ckpt EXCEPT !.paused = @ \/ (ckpt.next = "hitl" /\ ckpt.st = st[p])]
    BY <1>11 DEF Pause
  <2>2. ckpt'.next = ckpt.next /\ ckpt'.st = ckpt.st
    BY <2>1 DEF IInv, TypeOK, Stored, NoCheckpoint
  <2>3. QED
    BY <2>1, <2>2, LeavesBacked DEF CoverInv
<1>12. CASE Hitl(p)
  <2> DEFINE s == Decided(st[p], answer[p])
  <2>1. /\ answer[p] \in Decisions /\ Returns(p, "post", s) /\ at[p] = "hitl"
        /\ UNCHANGED <<files, ckpt>>
    BY <1>12 DEF Hitl, At, disk
  <2>2. s \in GraphState /\ s.dor = st[p].dor /\ s.panel = st[p].panel
    BY <1>0, <2>1 DEF Decided, GraphState
  <2>3. s.dor = "pass" /\ s.panel = "ESCALATE"
    BY <1>0, <2>1, <2>2 DEF Backed, Sound
  <2> HIDE DEF s
  <2>4. Owed("post", s) \subseteq Owed("hitl", st[p])
    BY <2>3 DEF Owed
  <2>5. Backed(files, "post", s)
    BY <1>0, <2>1, <2>3, <2>4 DEF Backed, None
  <2>6. QED
    BY <2>1, <2>2, <2>5, ReturnsBacked DEF Nodes
<1>13. CASE HitlRejects(p)
  BY <1>13, LeavesBacked DEF HitlRejects, disk, CoverInv
<1>14. CASE PostDorFail(p)
  <2>1. /\ Mirrors(p, "dor_fail") /\ Returns(p, "end", st[p]) /\ UNCHANGED ckpt
        /\ at[p] = "post" /\ st[p].dor # None
    BY <1>0, <1>14 DEF PostDorFail, At, Backed
  <2>2. Owed("end", st[p]) \subseteq Owed("post", st[p]) \cup {"dor_fail"}
    BY DEF Owed
  <2>3. QED
    BY <1>0, <2>1, <2>2, MirrorsBacked
<1>15. CASE PostLogs(p)
  <2>1. /\ at[p] = "post" /\ st[p].dor = "pass" /\ at' = [at EXCEPT ![p] = "logged"]
        /\ UNCHANGED <<files, ckpt, unsaved, st>>
    BY <1>15 DEF PostLogs, At
  <2>2. Owed("logged", st[p]) = Owed("post", st[p])
    BY DEF Owed
  <2>3. Backed(files, "logged", st[p])
    BY <1>0, <2>1, <2>2 DEF Backed
  <2>4. QED
    BY <1>0, <2>1, <2>3 DEF CoverInv, WorkBacked, UnsavedBacked
<1>16. CASE PostComment(p)
  <2>1. /\ at[p] = "logged" /\ at' = [at EXCEPT ![p] = "commented"]
        /\ UNCHANGED <<files, ckpt, unsaved, st>>
    BY <1>16 DEF PostComment, disk
  <2>2. Owed("commented", st[p]) = Owed("logged", st[p])
    BY DEF Owed
  <2>3. Backed(files, "commented", st[p])
    BY <1>0, <2>1, <2>2 DEF Backed
  <2>4. QED
    BY <1>0, <2>1, <2>3 DEF CoverInv, WorkBacked, UnsavedBacked
<1>17. CASE PostFinal(p)
  <2>1. /\ Mirrors(p, "final") /\ Returns(p, "end", st[p]) /\ UNCHANGED ckpt
        /\ at[p] = "commented" /\ st[p].dor = "pass"
    BY <1>0, <1>17 DEF PostFinal, Backed
  <2>2. Owed("end", st[p]) \subseteq Owed("commented", st[p]) \cup {"final"}
    BY DEF Owed
  <2>3. QED
    BY <1>0, <2>1, <2>2, MirrorsBacked DEF None
<1>18. QED
  BY <1>1, <1>2, <1>3, <1>4, <1>5, <1>6, <1>7, <1>8, <1>9, <1>10, <1>11, <1>12,
     <1>13, <1>14, <1>15, <1>16, <1>17 DEF Node

LEMMA CoverInit == Init => CoverInv
<1> SUFFICES ASSUME Init PROVE CoverInv
  OBVIOUS
<1>1. Len(<< >>) = 0
  BY EmptySeq
<1>2. \A s : Backed(files, "idle", s) /\ Backed(files, "nowhere", s)
  BY DEF Backed, Owed
<1>3. QED
  BY <1>1, <1>2 DEF Init, CoverInv, WorkBacked, UnsavedBacked, NoCheckpoint

LEMMA CoverNext == IInv /\ OrderInv /\ CoverInv /\ [Next]_vars => CoverInv'
<1> SUFFICES ASSUME IInv, OrderInv, CoverInv, [Next]_vars PROVE CoverInv'
  OBVIOUS
<1>0. /\ at \in [Procs -> Places] /\ st \in [Procs -> GraphState]
      /\ unsaved \in [Procs -> Seq(Checkpoint)]
  BY DEF IInv, TypeOK
<1>1. ASSUME NEW p \in Procs, Node(p) PROVE CoverInv'
  BY <1>1, NodeCovers
<1>2. ASSUME NEW p \in Procs, StartReview(p) PROVE CoverInv'
  <2> DEFINE r == [next |-> "dor_gate", st |-> Fresh]
  <2>1. Len(<<r>>) = 1 /\ <<r>>[1] = r
    OBVIOUS
  <2>2. /\ at' = [at EXCEPT ![p] = "dor_gate"] /\ st' = [st EXCEPT ![p] = Fresh]
        /\ unsaved' = [unsaved EXCEPT ![p] = <<r>>] /\ UNCHANGED <<files, ckpt>>
    BY <1>2 DEF StartReview, Enters
  <2>3. Backed(files, "dor_gate", Fresh)
    BY DEF Backed, Owed
  <2>4. WorkBacked'
    BY <1>0, <2>2, <2>3 DEF CoverInv, WorkBacked
  <2>5. UnsavedBacked'
    BY <1>0, <2>1, <2>2, <2>3 DEF CoverInv, UnsavedBacked
  <2>6. QED
    BY <2>2, <2>4, <2>5 DEF CoverInv
<1>3. ASSUME NEW p \in Procs, Recover(p) \/ Resume(p) PROVE CoverInv'
  <2>1. /\ at' = [at EXCEPT ![p] = ckpt.next] /\ st' = [st EXCEPT ![p] = ckpt.st]
        /\ UNCHANGED <<files, ckpt, unsaved>>
    BY <1>3 DEF Recover, Resume, Enters, disk
  <2>2. QED
    BY <1>0, <2>1 DEF CoverInv, WorkBacked, UnsavedBacked
<1>4. ASSUME NEW p \in Procs, Persist(p) PROVE CoverInv'
  <2> DEFINE h == Head(unsaved[p])
  <2>1. /\ unsaved[p] \in Seq(Checkpoint) /\ unsaved[p] # <<>>
        /\ ckpt' = [next |-> h.next, st |-> h.st, paused |-> FALSE]
        /\ unsaved' = [unsaved EXCEPT ![p] = Tail(unsaved[p])]
        /\ UNCHANGED <<files, at, st>>
    BY <1>0, <1>4 DEF Persist
  <2>2. /\ h = unsaved[p][1] /\ 1 \in 1 .. Len(unsaved[p]) /\ Len(unsaved[p]) \in Nat
        /\ Len(Tail(unsaved[p])) = Len(unsaved[p]) - 1
        /\ \A i \in 1 .. Len(Tail(unsaved[p])) : Tail(unsaved[p])[i] = unsaved[p][i + 1]
    BY <2>1, HeadTailProperties, EmptySeq
  <2>3. Backed(files', ckpt'.next, ckpt'.st)
    BY <2>1, <2>2 DEF CoverInv, UnsavedBacked
  <2>4. UnsavedBacked'
    <3> SUFFICES ASSUME NEW q \in Procs, NEW i \in 1 .. Len(unsaved'[q])
                 PROVE  Backed(files', unsaved'[q][i].next, unsaved'[q][i].st)
      BY DEF UnsavedBacked
    <3>1. CASE q # p
      BY <1>0, <2>1, <3>1 DEF CoverInv, UnsavedBacked
    <3>2. CASE q = p
      <4>1. unsaved'[p] = Tail(unsaved[p]) /\ i \in 1 .. Len(Tail(unsaved[p]))
        BY <1>0, <2>1, <3>2
      <4>2. i + 1 \in 1 .. Len(unsaved[p]) /\ unsaved'[p][i] = unsaved[p][i + 1]
        BY <2>2, <4>1
      <4>3. QED
        BY <2>1, <3>2, <4>2 DEF CoverInv, UnsavedBacked
    <3>3. QED
      BY <3>1, <3>2
  <2>5. QED
    BY <2>1, <2>3, <2>4 DEF CoverInv, WorkBacked
<1>5. ASSUME NEW p \in Procs, Crash(p) \/ Finish(p) PROVE CoverInv'
  BY <1>5, LeavesBacked DEF Crash, Finish, disk, CoverInv
<1>6. CASE UNCHANGED vars
  BY <1>6 DEF vars, disk, procs, CoverInv, WorkBacked, UnsavedBacked
<1>7. QED
  BY <1>1, <1>2, <1>3, <1>4, <1>5, <1>6 DEF Next

LEMMA OrderInvariance == Spec => [](IInv /\ OrderInv)
BY InitInvariant, NextInvariant, OrderInit, OrderNext, PTL DEF Spec

-----------------------------------------------------------------------------
(* The theorems.                                                           *)

\* The disk, the forge and every process keep their types.
THEOREM TypeCorrect == Spec => []TypeOK
<1>1. IInv => TypeOK
  BY DEF IInv
<1>2. QED
  BY <1>1, Invariance, PTL

\* Gate 3 holds for any number of overlapping processes: when the leader
\* escalated, nothing is posted or archived before a human decided.
THEOREM EscalationsAreAttended == Spec => []NoUnattendedEscalation
<1>1. IInv => NoUnattendedEscalation
  BY DEF IInv, PostedSound, Judged, Attended, NoUnattendedEscalation
<1>2. QED
  BY <1>1, Invariance, PTL

\* Gate 2 holds for any number of overlapping processes: an approval that is
\* posted or archived passed the gate, skipped it in fast mode, or is exactly
\* what a human overrode the verdict to.
THEOREM ApprovalsAreEarned == Spec => []ApprovalIsEarned
<1>1. IInv => ApprovalIsEarned
  BY DEF IInv, PostedSound, Judged, Earned, ApprovalIsEarned
<1>2. QED
  BY <1>1, Invariance, PTL

\* Where no process crashed and no two ran at once, every side effect of a
\* review happens at most once, however many times a human resumes it.
THEOREM SideEffectsHappenOnce == Spec => []SideEffectsOnce
<1>1. IInv /\ CalmInv => SideEffectsOnce
  <2> SUFFICES ASSUME IInv, Calm, crashes + overlaps = 0
               PROVE  issues <= 1 /\ logs <= 1 /\ Cardinality(comments) <= 1
    BY DEF CalmInv, SideEffectsOnce
  <2>1. Cardinality(comments) <= 1
    <3>1. CASE comments = {}
      BY <3>1, FS_EmptySet
    <3>2. CASE comments # {}
      <4>1. PICK c \in comments : comments = {c}
        BY <3>2 DEF Calm
      <4>2. Cardinality({c}) = 1
        BY FS_Singleton
      <4>3. QED
        BY <4>1, <4>2
    <3>3. QED
      BY <3>1, <3>2
  <2>2. QED
    BY <2>1 DEF Calm
<1>2. IInv /\ OrderInv /\ CalmInv /\ [Next]_vars => CalmInv'
  BY CalmNext
<1>3. QED
  BY <1>1, <1>2, CalmInit, OrderInvariance, PTL DEF Spec

\* While no two processes ran at once, the mirror's steps are numbered without
\* gap or repetition, across any number of crashes, recoveries and resumes.
THEOREM MirrorIsAppendOnly == Spec => [](overlaps = 0 => AppendOnlyMirror)
<1>1. NumberInv => (overlaps = 0 => AppendOnlyMirror)
  BY DEF NumberInv, Numbered
<1>2. QED
  BY <1>1, NumberInit, NumberNext, OrderInvariance, PTL DEF Spec

\* The stored checkpoint is never ahead of the audit trail, for any number of
\* overlapping processes and crashes: the nodes it has passed left their files.
THEOREM MirrorKeepsUp == Spec => []MirrorCoversCheckpoint
<1>1. IInv /\ CoverInv => MirrorCoversCheckpoint
  <2> SUFFICES ASSUME IInv, CoverInv, ckpt # NoCheckpoint
               PROVE  /\ Passed(ckpt.next, ckpt.st) \ {"hitl", "post"} \subseteq Mirrored(files)
                      /\ ckpt.next = "end" => Mirrored(files) \cap {"dor_fail", "final"} # {}
    BY DEF MirrorCoversCheckpoint, Mirrored
  <2>1. /\ ckpt.next \in Nodes \cup {"end"} /\ ckpt.st \in GraphState
        /\ Sound(ckpt.next, ckpt.st) /\ Backed(files, ckpt.next, ckpt.st)
    BY DEF IInv, TypeOK, Stored, StoredSound, CoverInv
  <2>2. Passed(ckpt.next, ckpt.st) \ {"hitl", "post"} \subseteq Owed(ckpt.next, ckpt.st)
    BY <2>1, BackedCovers
  <2>3. QED
    BY <2>1, <2>2 DEF Backed
<1>2. QED
  BY <1>1, CoverInit, CoverNext, OrderInvariance, PTL DEF Spec
====

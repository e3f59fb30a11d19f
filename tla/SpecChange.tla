----------------------------- MODULE SpecChange -----------------------------
(***************************************************************************)
(* Changing a product that is already built: the contracts in specs/, the  *)
(* requirement ledger derived from them, the change requests (SCRs) that   *)
(* unfreeze a built contract, and the runs of `avs add` that do the work   *)
(* (upstream/spec.py, upstream/requirements.py, upstream/correction.py and *)
(* run_feature in upstream/autopilot.py), started from the Studio.         *)
(*                                                                         *)
(* specs/ and product/requirements.yaml are tracked files: commits keep    *)
(* them, and a checkout or a reset takes them back.  The SCRs and the      *)
(* amendment a confirmed change parks are in .mas/, which git ignores.     *)
(* A contract is reduced to the one criterion it promises.                 *)
(***************************************************************************)
EXTENDS Naturals, Sequences, SequencesExt, FiniteSets

CONSTANTS
  Slugs,       \* specs there may be
  Texts,       \* criteria a contract may promise
  Changes,     \* the founder's drafted changes: [spec, text]
  Features,    \* FDRs that ask for something else
  Old,         \* the spec the product was built from, and what it promised
  OldText,
  None,        \* no spec, no parked amendment
  MaxTasks,    \* tasks a run plans at most
  MaxRuns,     \* bounds: runs of avs add, and approvals, repairs, undos and
  MaxEvents,   \* crashes together,
  MaxScrs      \* requests ever raised

FDRs == Changes \cup Features
Live == {"proposed", "approved", "built"}

ASSUME SpecChangeAssumption ==
  /\ IsFiniteSet(Slugs)
  /\ Old \in Slugs /\ OldText \in Texts
  /\ Changes \subseteq [spec: Slugs, text: Texts] /\ Changes \cap Features = {}
  /\ None \notin FDRs
  /\ MaxTasks \in Nat \ {0}
  /\ {MaxRuns, MaxEvents, MaxScrs} \subseteq Nat

VARIABLES
  work,      \* the working tree: [spec, ledger]
  head,      \* the same files in the commit at HEAD
  tags,      \* and in the ap-checkpoint-* tags, oldest first
  scrs,      \* .mas/scr: SCR-001, SCR-002, ...
  parked,    \* .mas/pending-amendment.yaml: the change it belongs to
  build,     \* the detached `avs add` process
  \* history and bounds
  asked,     \* FDRs that have been handed to a run
  landed,    \* FDRs of which a run built every task
  approvals, \* per spec, the SCRs a human approved
  rewrites,  \* per spec, the times its built contract was written anew
  beside,    \* a repair or an undo touched the tree of a running build
  used       \* runs and events so far

files == <<work, head, tags>>
ghost == <<asked, landed, approvals, rewrites>>
vars == <<files, scrs, parked, build, ghost, beside, used>>

Idle == [at |-> "idle"]
Spend(what, max) == used[what] < max /\ used' = [used EXCEPT ![what] = @ + 1]
Go(step) == build' = [at |-> step]

\* A saved contract: what it promises, the change it was amended for if any, and
\* what Gate U3 pinned (approved_hash).
Contract(t) ==
  [text |-> t, by |-> None, status |-> "proposed", built |-> FALSE, pinned |-> None]

Approved(t) == [Contract(t) EXCEPT !.status = "approved", !.pinned = t]

Init ==
  /\ work = [spec |-> [s \in Slugs |->
                 IF s = Old THEN [Approved(OldText) EXCEPT !.built = TRUE] ELSE None],
             ledger |-> <<[spec |-> Old, text |-> OldText, status |-> "built"]>>]
  /\ head = work /\ tags = <<work>>
  /\ scrs = <<>> /\ parked = None /\ build = Idle
  /\ asked = {} /\ landed = {}
  /\ approvals = [s \in Slugs |-> 0] /\ rewrites = [s \in Slugs |-> 0]
  /\ beside = FALSE
  /\ used = [what \in {"runs", "events"} |-> 0]

-----------------------------------------------------------------------------
(* The ledger: R-001 is its first row.                                     *)

Promises(spec) == {<<s, spec[s].text>> : s \in {x \in Slugs : spec[x] # None}}
KeyOf(row) == <<row.spec, row.text>>
Derived(c) == IF c.built THEN "built" ELSE IF c.status = "approved" THEN "approved"
              ELSE "proposed"

\* Mutated: a retired promise leaves the file and its number is free again.
SyncForgets(w) ==
  LET kept == SelectSeq(w.ledger, LAMBDA row : KeyOf(row) \in Promises(w.spec))
      new == SetToSeq(Promises(w.spec) \ {KeyOf(kept[i]) : i \in DOMAIN kept})
  IN [w EXCEPT !.ledger =
        [i \in DOMAIN kept |-> [kept[i] EXCEPT !.status = Derived(w.spec[kept[i].spec])]]
        \o [i \in DOMAIN new |-> [spec |-> new[i][1], text |-> new[i][2],
                                  status |-> Derived(w.spec[new[i][1]])]]]

\* sync_ledger: the ledger follows the specs.  A promise that left its spec is
\* retired, one that came back is live again, a new one gets the next number.
Sync(w) ==
  LET new == SetToSeq(Promises(w.spec) \ {KeyOf(w.ledger[i]) : i \in DOMAIN w.ledger})
      Follow(row) ==
        [row EXCEPT !.status = IF KeyOf(row) \in Promises(w.spec)
                                 THEN Derived(w.spec[row.spec])
                               ELSE IF row.status \in Live THEN "retired" ELSE @]
  IN [w EXCEPT !.ledger =
        [i \in DOMAIN w.ledger |-> Follow(w.ledger[i])]
        \o [i \in DOMAIN new |-> [spec |-> new[i][1], text |-> new[i][2],
                                  status |-> Derived(w.spec[new[i][1]])]]]

-----------------------------------------------------------------------------
(* What git does to the tree.                                              *)

\* `git checkout -- .`: tracked files come back, untracked ones stay.
Checkout ==
  [spec |-> [s \in Slugs |-> IF head.spec[s] = None THEN work.spec[s] ELSE head.spec[s]],
   ledger |-> head.ledger]

\* `git reset --hard`: files of the old HEAD that the new one lacks go too.
HardReset(to) ==
  [spec |-> [s \in Slugs |-> IF head.spec[s] = None /\ to.spec[s] = None
                               THEN work.spec[s] ELSE to.spec[s]],
   ledger |-> to.ledger]

-----------------------------------------------------------------------------
(* Change requests.                                                        *)

Granting(s) == {i \in DOMAIN scrs : scrs[i].spec = s /\ scrs[i].status = "approved"}

\* Mutated: the grant is read and never marked as spent.
ConsumeNothing(s) == Granting(s) # {} /\ UNCHANGED scrs

\* _scr_grant: the first approved request for the spec is spent.
Consume(s) ==
  \E i \in Granting(s) :
    /\ \A j \in Granting(s) : i <= j
    /\ scrs' = [scrs EXCEPT ![i].status = "consumed"]

\* `avs scr-approve`: whatever the request's state was.
ApproveScr(i) ==
  /\ Spend("events", MaxEvents)
  /\ scrs' = [scrs EXCEPT ![i].status = "approved"]
  /\ approvals' = [approvals EXCEPT ![scrs[i].spec] = @ + 1]
  /\ UNCHANGED <<files, parked, build, asked, landed, rewrites, beside>>

-----------------------------------------------------------------------------
(* The founder, in the Studio.  A build that runs is not joined by another. *)

Spawn(f) ==
  /\ build = Idle
  /\ Spend("runs", MaxRuns)
  /\ asked' = asked \cup {f}
  /\ build' = [at |-> "start", fdr |-> f]

\* "Make this change": the request is raised and approved in the founder's
\* name, the amendment parked in place of any other, the FDR staged and built.
Confirm(c) ==
  /\ work.spec[c.spec] # None /\ Len(scrs) < MaxScrs
  /\ Spawn(c)
  /\ scrs' = Append(scrs, [spec |-> c.spec, status |-> "approved"])
  /\ approvals' = [approvals EXCEPT ![c.spec] = @ + 1]
  /\ parked' = c
  /\ UNCHANGED <<files, landed, rewrites, beside>>

\* A feature, or the FDR of an earlier change once more.
Add(f) ==
  /\ f \in Features \cup asked
  /\ Spawn(f)
  /\ UNCHANGED <<files, scrs, parked, landed, approvals, rewrites, beside>>

Touch == beside' = (beside \/ build # Idle)

\* A repair of something built is run in the Studio's own process, whether or
\* not a build is running.  It ends in a commit of everything and a checkpoint,
RepairLands ==
  /\ Spend("events", MaxEvents) /\ Touch
  /\ \E s \in Slugs : work.spec[s] # None /\ work.spec[s].built
  /\ head' = work /\ tags' = Append(tags, work)
  /\ UNCHANGED <<work, scrs, parked, build, ghost>>

\* or, when the suite stays red, in a checkout and a clean of the tree.
RepairFails ==
  /\ Spend("events", MaxEvents) /\ Touch
  /\ \E s \in Slugs : work.spec[s] # None /\ work.spec[s].built
  /\ work' = head
  /\ UNCHANGED <<head, tags, scrs, parked, build, ghost>>

\* Back to the checkpoint before the last one.
Undo ==
  /\ Spend("events", MaxEvents) /\ Touch
  /\ Len(tags) >= 2
  /\ work' = HardReset(tags[Len(tags) - 1])
  /\ head' = tags[Len(tags) - 1]
  /\ tags' = Front(tags)
  /\ UNCHANGED <<scrs, parked, build, ghost>>

-----------------------------------------------------------------------------
(* run_feature.                                                            *)

\* The ledger is brought level and the request reconciled with it: it is there
\* already, or planned; a promise it contradicts is put on record as a request
\* nobody has approved.
Reconcile ==
  /\ build.at = "start"
  /\ work' = Sync(work)
  /\ \/ build' = Idle /\ UNCHANGED scrs
     \/ \E n \in 1..MaxTasks, proposed \in {{}} \cup {{s} : s \in Slugs} :
          /\ \A s \in proposed : \E i \in DOMAIN work'.ledger :
               work'.ledger[i].spec = s /\ work'.ledger[i].status \in Live
          /\ Len(scrs) + Cardinality(proposed) <= MaxScrs
          /\ build' = [at |-> "spec", fdr |-> build.fdr, pass |-> 1, todo |-> n, failed |-> 0]
          /\ scrs' = scrs \o SetToSeq({[spec |-> s, status |-> "proposed"] : s \in proposed})
  /\ UNCHANGED <<head, tags, parked, ghost, beside, used>>

\* A task's row: the next task, the retry pass, or the end of both.
Settle(failed) ==
  LET f == build.failed + (IF failed THEN 1 ELSE 0)
  IN build' =
       IF build.todo > 1 THEN [at |-> "spec", pass |-> build.pass, todo |-> build.todo - 1,
                               failed |-> f, fdr |-> build.fdr]
       ELSE IF build.pass = 1 /\ f > 0
         THEN [at |-> "spec", pass |-> 2, todo |-> f, failed |-> 0, fdr |-> build.fdr]
       ELSE [at |-> "tail", fdr |-> build.fdr, failed |-> f]

\* run_spec_stage saves the writer's contract s, t over what was there; clean
\* ones pass Gate U3 on the spot (approve_spec), the others are blocked.
SaveSpec(s, t, clean) ==
  /\ work' = [work EXCEPT !.spec[s] =
                IF clean THEN Approved(t)
                ELSE [Contract(t) EXCEPT !.status = "blocked"]]
  /\ IF clean THEN build' = [at |-> "build", fdr |-> build.fdr, pass |-> build.pass,
                             todo |-> build.todo, failed |-> build.failed, spec |-> s]
     ELSE Settle(TRUE)

Frozen(s) == work.spec[s] # None /\ work.spec[s].built

\* The writer's title decides which spec a task writes.
WriteSpec(s, t, clean) ==
  /\ build.at = "spec" /\ ~ Frozen(s)
  /\ SaveSpec(s, t, clean)
  /\ UNCHANGED <<head, tags, scrs, parked, ghost, beside, used>>

\* A built one is rewritten on a grant, which is spent before the save ...
SpendOnSpec(s, t, clean) ==
  /\ build.at = "spec" /\ Frozen(s)
  /\ Consume(s)
  /\ build' = [at |-> "save", fdr |-> build.fdr, pass |-> build.pass, todo |-> build.todo,
                failed |-> build.failed, spec |-> s, text |-> t, clean |-> clean]
  /\ UNCHANGED <<files, parked, ghost, beside, used>>

SaveGranted ==
  /\ build.at = "save"
  /\ SaveSpec(build.spec, build.text, build.clean)
  /\ rewrites' = [rewrites EXCEPT ![build.spec] = @ + 1]
  /\ UNCHANGED <<head, tags, scrs, parked, asked, landed, approvals, beside, used>>

\* ... and without one the run ends in a PermissionError.
SpecRefused(s) ==
  /\ build.at = "spec" /\ Frozen(s) /\ Granting(s) = {}
  /\ build' = Idle
  /\ UNCHANGED <<files, scrs, parked, ghost, beside, used>>

\* The gate passed: the spec is read again and marked built, the ledger brought
\* level, and everything committed.
Built ==
  /\ build.at = "build" /\ work.spec[build.spec] # None
  /\ work' = Sync([work EXCEPT !.spec[build.spec].built = TRUE])
  /\ head' = work'
  /\ Settle(FALSE)
  /\ UNCHANGED <<tags, scrs, parked, ghost, beside, used>>

\* The gate failed: _reset_workspace.
BuildFailed ==
  /\ build.at = "build"
  /\ work' = Checkout
  /\ Settle(TRUE)
  /\ UNCHANGED <<head, tags, scrs, parked, ghost, beside, used>>

\* Someone removed the spec under the build.
BuildRaises ==
  /\ build.at = "build" /\ work.spec[build.spec] = None
  /\ build' = Idle
  /\ UNCHANGED <<files, scrs, parked, ghost, beside, used>>

\* The ledger is brought level again and the report written; a run with a task
\* unbuilt is over.
Finish ==
  /\ build.at = "tail"
  /\ work' = Sync(work)
  /\ IF build.failed = 0
       THEN landed' = landed \cup {build.fdr} /\ build' = [at |-> "amend", fdr |-> build.fdr]
       ELSE UNCHANGED landed /\ build' = Idle
  /\ UNCHANGED <<head, tags, scrs, parked, asked, approvals, rewrites, beside, used>>

\* Mutated: any parked amendment will do.
TakeAnyParked ==
  /\ build.at = "amend"
  /\ IF parked # None
       THEN parked' = None /\ build' = [at |-> "grant", change |-> parked]
       ELSE UNCHANGED parked /\ Go("tag")
  /\ UNCHANGED <<files, scrs, ghost, beside, used>>

\* apply_pending_amendment: this build's own amendment is taken from the file.
TakeParked ==
  /\ build.at = "amend"
  /\ IF parked = build.fdr
       THEN parked' = None /\ build' = [at |-> "grant", change |-> parked]
       ELSE UNCHANGED parked /\ Go("tag")
  /\ UNCHANGED <<files, scrs, ghost, beside, used>>

\* amend_spec_criteria: the contract is read; a built one costs a grant, and
\* without the grant, or without the spec, it stays as it is.
Amend ==
  /\ build.at = "grant"
  /\ LET s == build.change.spec
     IN \/ /\ work.spec[s] # None
           /\ IF Frozen(s) THEN Consume(s) ELSE UNCHANGED scrs
           /\ build' = [at |-> "stamp", change |-> build.change, copy |-> work.spec[s]]
        \/ /\ Frozen(s) \/ work.spec[s] = None
           /\ Granting(s) = {} \/ work.spec[s] = None
           /\ Go("tag")
           /\ UNCHANGED scrs
  /\ UNCHANGED <<files, parked, ghost, beside, used>>

\* Mutated: the approval keeps its old hash.
Unstamped(copy, c) == [copy EXCEPT !.text = c.text, !.by = c]

Stamped(copy, c) == [copy EXCEPT !.text = c.text, !.by = c, !.pinned = c.text]

\* What was read is saved with the change's criteria and a new hash.
StampAmendment ==
  /\ build.at = "stamp"
  /\ LET c == build.change
     IN /\ work' = [work EXCEPT !.spec[c.spec] = Stamped(build.copy, c)]
        /\ rewrites' = [rewrites EXCEPT ![c.spec] = @ + IF build.copy.built THEN 1 ELSE 0]
  /\ Go("tag")
  /\ UNCHANGED <<head, tags, scrs, parked, asked, landed, approvals, beside, used>>

\* tag_checkpoint: the tag names HEAD, not what the tree has since become.
Tag ==
  /\ build.at = "tag"
  /\ tags' = Append(tags, head)
  /\ build' = Idle
  /\ UNCHANGED <<work, head, scrs, parked, ghost, beside, used>>

Crash ==
  /\ build # Idle
  /\ Spend("events", MaxEvents)
  /\ build' = Idle
  /\ UNCHANGED <<files, scrs, parked, ghost, beside>>

Step ==
  \/ Reconcile \/ SaveGranted \/ Built \/ BuildFailed \/ BuildRaises
  \/ Finish \/ TakeParked \/ Amend \/ StampAmendment \/ Tag
  \/ \E s \in Slugs : SpecRefused(s)
  \/ \E s \in Slugs, t \in Texts, clean \in BOOLEAN :
       WriteSpec(s, t, clean) \/ SpendOnSpec(s, t, clean)

Next ==
  \/ \E c \in Changes : Confirm(c)
  \/ \E f \in FDRs : Add(f)
  \/ \E i \in DOMAIN scrs : ApproveScr(i)
  \/ RepairLands \/ RepairFails \/ Undo
  \/ Step \/ Crash

Spec == Init /\ [][Next]_vars

-----------------------------------------------------------------------------
Contracts == [text: Texts, by: Changes \cup {None},
              status: {"proposed", "approved", "blocked"}, built: BOOLEAN,
              pinned: Texts \cup {None}]
Trees == [spec: [Slugs -> Contracts \cup {None}],
          ledger: Seq([spec: Slugs, text: Texts, status: Live \cup {"retired"}])]

\* The files of specs/, product/ and .mas/ keep their shapes.
TypeOK ==
  /\ work \in Trees /\ head \in Trees /\ tags \in Seq(Trees)
  /\ scrs \in Seq([spec: Slugs, status: {"proposed", "approved", "consumed"}])
  /\ parked \in Changes \cup {None}
  /\ asked \subseteq FDRs /\ landed \subseteq FDRs
  /\ approvals \in [Slugs -> Nat] /\ rewrites \in [Slugs -> Nat]

\* "Each approval grants exactly one regeneration" (spec.py:437-438): a built
\* contract is written anew, by a run or by an amendment, at most as often as a
\* human approved a request for it, whatever crashes or is approved twice.
OneRewritePerApproval == \A s \in Slugs : rewrites[s] <= approvals[s]

\* A spec carries the criteria of a drafted change only if a run built that very
\* change (apply_change: the amendment is parked, not applied), however many
\* changes, failed runs and other features came in between.
AmendmentFollowsItsBuild ==
  \A s \in Slugs : \A tree \in {work, head} :
    tree.spec[s] # None => tree.spec[s].by \in landed \cup {None}

\* A built contract is the one its approval pinned, in the tree, at HEAD and at
\* every checkpoint, so that no later build of it is refused as an unratified
\* fork (_approval_drift): after amendments, resets, undos and repairs that
\* commit whatever lies in the tree, unless one of those came beside a build.
NoUnratifiedFork ==
  ~ beside => \A s \in Slugs : \A tree \in {work, head} \cup ToSet(tags) :
    tree.spec[s] # None /\ tree.spec[s].built =>
      tree.spec[s].pinned = tree.spec[s].text

\* Each promise has one number and each number one promise, for good: only a
\* rollback of the whole file takes a number back (requirements.py:22-24).
NumbersStay ==
  [][/\ \A i, j \in DOMAIN work'.ledger :
          KeyOf(work'.ledger[i]) = KeyOf(work'.ledger[j]) => i = j
     /\ \/ Len(tags') < Len(tags)
        \/ head' = head /\ work'.ledger = head.ledger
        \/ \A i \in DOMAIN work.ledger :
             i \in DOMAIN work'.ledger /\ KeyOf(work'.ledger[i]) = KeyOf(work.ledger[i])]_vars

-----------------------------------------------------------------------------
(* What comments and documents say.                                        *)

\* "The only legal channel is an approved SCR" (spec.py:436-438): the criterion
\* of a built spec changes by a rewrite that was granted, or by an undo.
RatifiedStays ==
  [][\A s \in Slugs :
       Frozen(s) /\ work'.spec[s] # None /\ work'.spec[s].text # work.spec[s].text =>
         build.at \in {"save", "stamp"} \/ Len(tags') < Len(tags)]_vars
=============================================================================

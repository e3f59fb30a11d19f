-------------------------------- MODULE Studio --------------------------------
(***************************************************************************)
(* Founder Studio from the first page to the build (studio.py), with the   *)
(* parts of `avs create` that read and write what the Studio shows:        *)
(* FDR.md, CONFIRMATION.md, the brief and the plan with its lock           *)
(* (upstream/autopilot.py, plan.py, discover.py).                          *)
(*                                                                         *)
(* A browser tab is a process: the page it shows and the request it has in *)
(* flight.  Handlers run beside each other, the async ones between their   *)
(* awaits, the others in a pool of threads; a request is split where       *)
(* another one can come between with consequences: after the check of      *)
(* `thinking` or of build.pid, and at every model call.  The reads and     *)
(* writes of files in between are one step.  A build is a detached process *)
(* of its own.                                                             *)
(***************************************************************************)
EXTENDS ChatThread

CONSTANTS
  Tabs,        \* browser tabs
  Builds,      \* processes a build may run in
  NoBuild,     \* no build.pid
  None,        \* no brief, no plan
  Readings,    \* what the extraction may return
  Earlier,     \* conversations an earlier session may have left
  MaxClicks,   \* bound: requests the founder makes, redirects not counted
  MaxFaults    \* bound: builds that die, runs that raise, restarts, file edits

\* Follow-ups answered, and the one that is being asked.
Asking(turns) == HasOpenQuestion(turns) /\ Last(turns).slot = "clarify"
FollowUpsPut(turns) == FollowUps(turns) + (IF Asking(turns) THEN 1 ELSE 0)

\* Those that start the last round.
MostFollowUps == PerRound * (MaxRounds - 1) + 1

\* An earlier session was one in which no assessment ran beside another.
ASSUME StudioAssumption ==
  /\ IsFiniteSet(Tabs)
  /\ NoBuild \notin Builds
  /\ Readings \subseteq Reading
  /\ Earlier \subseteq Seq(Turn) /\ \A c \in Earlier : FollowUpsPut(c) <= MostFollowUps
  /\ MaxClicks \in Nat /\ MaxFaults \in Nat

VARIABLES
  thread,        \* .mas/conversation.jsonl
  fdr,           \* FDR.md
  backup,        \* FDR-before-chat.md
  questions,     \* whether FDR-QUESTIONS.md is there
  confirmation,  \* the document CONFIRMATION.md is the summary of
  brief,         \* brief.yaml: the document it was written from, its status
  plan,          \* plan.yaml: fingerprint, the document its brief was of, status
  report,        \* whether BUILD-REPORT.md is there
  pid,           \* .mas/build.pid
  thinking,      \* whether `thinking` holds "fdr"
  tab,           \* per tab: the page, and where its request is
  build,         \* per process: where `avs create --yes` is
  clicks, faults,
  \* What happened, never read to decide anything:
  agreed,        \* proposals the founder said yes to, having seen them
  unseen,        \* a yes was taken for a proposal its page did not show
  overlaps,      \* requests that got as far as assessing while another was there
  mixed          \* of the brief and the plan, what another replaced before the run
                 \* that had written it, or had found it to be of its words, read it

docs == <<fdr, backup, questions, confirmation>>
planning == <<brief, plan>>
bounds == <<clicks, faults>>
others == <<agreed, unseen, mixed>>
marks == <<others, overlaps>>
vars == <<thread, docs, planning, report, pid, thinking, tab, build, bounds, marks>>

\* Pages are told apart by the forms they hold, and by what those were
\* rendered from.
Blank == [kind |-> "blank"]
Page ==
  [kind : {"blank", "question", "interrupted", "product"}]
  \cup [kind : {"form"}, doc : Doc \cup {NoDoc}]
  \cup [kind : {"handoff", "confirm"}, doc : Doc]
  \cup [kind : {"conflict"}, doc : Doc, mine : Doc]
  \cup [kind : {"guess"}, guess : Turn]

\* What a request is about to do; "home" and "chat" are redirects.
Doing == {"idle", "home", "chat", "answer", "extract", "guess", "save",
          "assess", "assessing", "read", "discover", "summary", "spawn"}

Brief == [of : Doc, status : {"proposed", "approved"}]
Plan == [of : Doc, from : Doc, status : {"proposed", "blocked", "locked"}]
ASSUME NoPlanAssumption == None \notin Plan

\* A run of `avs create`: the words it read, the plan it made or loaded, and the
\* document whose summary was on the page it was started from.
Off == [at |-> "off"]
Run == [at : {"read", "discover", "confirm", "plan", "approve", "load", "build"}, text : Doc \cup {NoDoc},
        plan : Plan \cup {None}, shown : Doc \cup {NoDoc}]
Live == {b \in Builds : build[b] # Off}
BuildRunning == pid \in Live

TypeOK ==
  /\ thread \in Seq(Turn)
  /\ fdr \in Doc \cup {NoDoc} /\ backup \in Doc \cup {NoDoc}
  /\ confirmation \in Doc \cup {NoDoc}
  /\ brief \in Brief \cup {None} /\ plan \in Plan \cup {None}
  /\ questions \in BOOLEAN /\ report \in BOOLEAN /\ thinking \in BOOLEAN
  /\ pid \in Builds \cup {NoBuild}
  /\ tab \in [Tabs -> [page : Page, at : Doing, text : Doc \cup {NoDoc}]]
  /\ build \in [Builds -> Run \cup {Off}]
  /\ clicks \in 0 .. MaxClicks /\ faults \in 0 .. MaxFaults
  /\ agreed \subseteq Slots \X Proposals /\ overlaps \in Nat
  /\ unseen \in BOOLEAN /\ mixed \subseteq {"brief", "plan"}

\* The proposals a thread holds as answers: an earlier session's yes was a yes.
Accepted(turns) ==
  {<<turns[i].slot, turns[i + 1].words>> : i \in Pairs(turns)} \cap (Slots \X Proposals)

Init ==
  /\ thread \in {<<>>} \cup Earlier
  /\ fdr \in {NoDoc} \cup {Handwritten(x) : x \in Texts}
  /\ backup = NoDoc /\ confirmation = NoDoc /\ questions = FALSE
  /\ brief = None /\ plan = None /\ report = FALSE /\ pid = NoBuild
  /\ thinking = FALSE
  /\ tab = [t \in Tabs |-> [page |-> Blank, at |-> "idle", text |-> NoDoc]]
  /\ build = [b \in Builds |-> Off]
  /\ clicks = 0 /\ faults = 0
  /\ agreed = Accepted(thread) /\ overlaps = 0
  /\ unseen = FALSE /\ mixed = {}

-----------------------------------------------------------------------------
(* Requests and pages.                                                     *)

Click == clicks < MaxClicks /\ clicks' = clicks + 1 /\ UNCHANGED faults
Fault == faults < MaxFaults /\ faults' = faults + 1 /\ UNCHANGED clicks

\* A redirect is followed; otherwise the founder asks.
Get(t, redirect) == \/ tab[t].at = redirect /\ UNCHANGED bounds
                    \/ tab[t].at = "idle" /\ Click

Post(t, kinds) == tab[t].at = "idle" /\ tab[t].page.kind \in kinds /\ Click

Show(t, page) == tab' = [tab EXCEPT ![t] = [page |-> page, at |-> "idle", text |-> NoDoc]]
Goes(t, at) == tab' = [tab EXCEPT ![t].at = at]

\* An async handler looks at `thinking`, then awaits the form.
Submits(t, kinds, at) ==
  /\ Post(t, kinds)
  /\ IF thinking THEN Show(t, Blank) ELSE Goes(t, at)
  /\ UNCHANGED <<thread, docs, planning, report, pid, thinking, build, marks>>

-----------------------------------------------------------------------------
(* The conversation.                                                       *)

\* _chat_handoff: the conversation becomes FDR.md; the first document it
\* replaces is kept.
HandsOff(t, turns) ==
  LET written == Composed(turns, fdr) IN
  /\ fdr' = written
  /\ backup' = IF fdr \notin {NoDoc, written} /\ backup = NoDoc THEN fdr ELSE backup
  /\ questions' = FALSE
  /\ Show(t, [kind |-> "handoff", doc |-> written])
  /\ UNCHANGED confirmation

\* _chat_page on the thread `turns`; `start` is ?start=1.  Without an answer in
\* it, a thread gives way to the document that exists, or to the first question
\* the assessor left about it.
ChatPage(t, turns, start) ==
  LET fresh == Pairs(turns) = {} /\ fdr # NoDoc
      kept == IF ~ fresh THEN turns
              ELSE IF questions /\ ~ start THEN <<Asked("clarify")>> ELSE <<>>
      offered == fresh /\ ~ questions /\ ~ start
      asked == ~ offered /\ HasOpenQuestion(kept)
      guess == IF offered \/ asked THEN {} ELSE PendingGuess(kept)
      next == IF offered \/ asked \/ guess # {} THEN {} ELSE NextQuestionSlot(kept)
  IN
  \/ /\ offered
     /\ thread' = kept /\ Show(t, [kind |-> "form", doc |-> fdr]) /\ UNCHANGED docs
  \/ /\ asked
     /\ thread' = kept /\ Show(t, [kind |-> "question"]) /\ UNCHANGED docs
  \/ \E g \in guess :
        thread' = kept /\ Show(t, [kind |-> "guess", guess |-> g]) /\ UNCHANGED docs
  \/ \E slot \in next :
        /\ thread' = Append(kept, Asked(slot))
        /\ Show(t, [kind |-> "question"]) /\ UNCHANGED docs
  \/ /\ ~ offered /\ ~ asked /\ guess = {} /\ next = {}
     /\ thread' = kept
     /\ IF RoundsUsed(kept) >= MaxRounds THEN HandsOff(t, kept)
        ELSE Goes(t, "assess") /\ UNCHANGED docs

\* A request that is about to assess while another one is, or is about to.
NotesOverlap(t) ==
  LET late == /\ tab'[t].at = "assess"
              /\ \E u \in Tabs \ {t} : tab[u].at \in {"assess", "assessing"}
  IN  overlaps' = overlaps + (IF late THEN 1 ELSE 0) /\ UNCHANGED others

Chat(t) ==
  /\ Get(t, "chat")
  /\ IF thinking THEN Show(t, Blank) /\ UNCHANGED <<thread, docs>>
     ELSE \E start \in (IF tab[t].at = "chat" THEN {FALSE} ELSE BOOLEAN) :
            ChatPage(t, thread, start)
  /\ NotesOverlap(t)
  /\ UNCHANGED <<planning, report, pid, thinking, build>>

\* _chat_assess sets the flag a moment after it looked.
BeginAssess(t) ==
  /\ tab[t].at = "assess"
  /\ thinking' = TRUE
  /\ Goes(t, "assessing")
  /\ UNCHANGED <<thread, docs, planning, report, pid, build, bounds, marks>>

\* The assessor is content, or has a question: the flag is taken down, whoever
\* put it up.
Assess(t) ==
  /\ tab[t].at = "assessing"
  /\ thinking' = FALSE
  /\ \/ HandsOff(t, thread) /\ UNCHANGED thread
     \/ ChatPage(t, Append(thread, Asked("clarify")), FALSE)
  /\ NotesOverlap(t)
  /\ UNCHANGED <<planning, report, pid, build, bounds>>

SubmitAnswer(t) == Submits(t, {"question"}, "answer")

\* POST /chat: the answer goes to the question that is open now.
ChatAnswer(t) ==
  /\ tab[t].at = "answer"
  /\ IF ~ HasOpenQuestion(thread)
     THEN Goes(t, "chat") /\ UNCHANGED <<thread, thinking>>
     ELSE LET slot == Last(thread).slot IN
          \E words \in {"typed", "skipped"} :
            /\ thread' = Append(thread, Answer(slot, words))
            /\ IF slot = "open" /\ words = "typed"
               THEN thinking' = TRUE /\ Goes(t, "extract")
               ELSE UNCHANGED thinking /\ Goes(t, "chat")
  /\ UNCHANGED <<docs, planning, report, pid, build, bounds, marks>>

Extract(t) ==
  /\ tab[t].at = "extract"
  /\ thinking' = FALSE
  /\ \E reading \in Readings : thread' = Extracted(thread, reading)
  /\ Goes(t, "chat")
  /\ UNCHANGED <<docs, planning, report, pid, build, bounds, marks>>

SubmitGuess(t) == Submits(t, {"guess"}, "guess")

\* POST /chat/guess: a yes, other words, or neither, for the proposal that is
\* pending now.
ChatGuess(t) ==
  /\ tab[t].at = "guess"
  /\ Goes(t, "chat")
  /\ \/ /\ PendingGuess(thread) = {}
        /\ UNCHANGED <<thread, agreed, unseen>>
     \/ \E g \in PendingGuess(thread) :
          \/ \E words \in {"typed", "skipped"} :
               thread' = thread \o Said(g.slot, words) /\ UNCHANGED <<agreed, unseen>>
          \/ /\ thread' = thread \o Said(g.slot, g.words)
             /\ IF tab[t].page.guess = g
                THEN agreed' = agreed \cup {<<g.slot, g.words>>} /\ UNCHANGED unseen
                ELSE unseen' = TRUE /\ UNCHANGED agreed
  /\ UNCHANGED <<docs, planning, report, pid, thinking, build, bounds,
                 overlaps, mixed>>

ChatEnough(t) ==
  /\ Post(t, {"question", "guess"})
  /\ HandsOff(t, thread)
  /\ UNCHANGED <<thread, planning, report, pid, thinking, build, marks>>

ChatRestart(t) ==
  /\ Post(t, {"question", "guess"})
  /\ thread' = <<>>
  /\ Goes(t, "chat")
  /\ UNCHANGED <<docs, planning, report, pid, thinking, build, marks>>

-----------------------------------------------------------------------------
(* The document and its plan.                                              *)

\* What a form submits.  Of the forms that hold the document, the one on the
\* handoff page sends no base; "use mine" on the conflict page sends force.
Submission(page) ==
  CASE page.kind = "form" ->
         {[text |-> d, base |-> {page.doc}] :
            d \in ({page.doc} \cup {Handwritten(x) : x \in Texts}) \ {NoDoc}}
    [] page.kind = "handoff" -> {[text |-> page.doc, base |-> {}]}
    [] OTHER -> {[text |-> page.doc, base |-> {page.doc}], [text |-> page.mine, base |-> {}]}

\* FDR.md is no longer what the form was rendered from.
Conflict(sent) == fdr # NoDoc /\ fdr \notin sent.base \cup {sent.text} /\ sent.base # {}

Locked == plan # None /\ plan.status = "locked"

\* Mutated: the lock outlives the words it was for.
ReusableAnyway(text) == Locked

\* reusable_plan gives the locked plan, and raises when it is of other words.
Reusable(text) == Locked /\ plan.of = text

\* release_lock_if_fdr_changed
Released(text) ==
  IF Locked /\ plan.of # text THEN [plan EXCEPT !.status = "proposed"] ELSE plan

SubmitFdr(t) == Submits(t, {"form", "handoff", "conflict"}, "save")

SaveFdr(t) ==
  /\ tab[t].at = "save"
  /\ \E sent \in Submission(tab[t].page) :
       IF Conflict(sent)
       THEN /\ Show(t, [kind |-> "conflict", doc |-> fdr, mine |-> sent.text])
            /\ UNCHANGED <<fdr, questions, plan, thinking>>
       ELSE /\ plan' = Released(sent.text)
            /\ fdr' = sent.text
            /\ questions' = FALSE
            /\ thinking' = TRUE
            /\ Goes(t, "read")
  /\ UNCHANGED <<thread, backup, confirmation, brief, report, pid, build, bounds, marks>>

\* The foreground run_autopilot, yes=False, up to the assessor: with a plan
\* locked, for these words or others, there is nothing to work out.
FdrReads(t) ==
  /\ tab[t].at = "read"
  /\ IF Locked THEN thinking' = FALSE /\ Goes(t, "home")
     ELSE /\ tab' = [tab EXCEPT ![t].at = "discover", ![t].text = fdr]
          /\ UNCHANGED thinking
  /\ UNCHANGED <<thread, docs, planning, report, pid, build, bounds, marks>>

\* A file that another run has yet to read is replaced.
Mixes(b, file, until) ==
  mixed' = mixed \cup {f \in {file} : \E c \in Live \ {b} : build[c].at \in until}

\* The assessor has questions, or discovery writes the brief.
FdrDiscovers(t) ==
  /\ tab[t].at = "discover"
  /\ \/ /\ questions' = TRUE /\ thinking' = FALSE
        /\ Goes(t, "home") /\ UNCHANGED <<brief, mixed>>
     \/ /\ brief' = [of |-> tab[t].text, status |-> "proposed"]
        /\ Mixes(NoBuild, "brief", {"confirm"})
        /\ Goes(t, "summary") /\ UNCHANGED <<questions, thinking>>
  /\ UNCHANGED <<thread, fdr, backup, confirmation, plan, report, pid, build, bounds,
                 agreed, unseen, overlaps>>

FdrSummary(t) ==
  /\ tab[t].at = "summary"
  /\ confirmation' = tab[t].text
  /\ thinking' = FALSE
  /\ Goes(t, "home")
  /\ UNCHANGED <<thread, fdr, backup, questions, planning, report, pid, build, bounds, marks>>

\* A model call raises: its handler shows a failure page and takes the flag down.
Raises(t) ==
  /\ tab[t].at \in {"assessing", "extract", "discover", "summary"}
  /\ Fault
  /\ thinking' = FALSE
  /\ Show(t, Blank)
  /\ UNCHANGED <<thread, docs, planning, report, pid, build, marks>>

-----------------------------------------------------------------------------
(* The home page and the buttons of a build.                               *)

\* The pages home() looks for before the describe state, in this order.
StatusPage ==
  CASE thinking \/ BuildRunning -> {Blank}
    [] pid # NoBuild /\ ~ report /\ plan # None -> {[kind |-> "interrupted"]}
    [] report -> {[kind |-> "product"]}
    [] confirmation # NoDoc -> {[kind |-> "confirm", doc |-> confirmation]}
    [] OTHER -> {}

Home(t) ==
  /\ Get(t, "home")
  /\ \/ \E page \in StatusPage : Show(t, page) /\ UNCHANGED <<thread, docs>>
     \/ /\ StatusPage = {}
        /\ \/ Show(t, [kind |-> "form", doc |-> fdr]) /\ UNCHANGED <<thread, docs>>
           \/ ChatPage(t, thread, FALSE)
  /\ NotesOverlap(t)
  /\ UNCHANGED <<planning, report, pid, thinking, build>>

\* POST /build looks at build.pid, then spawns.
StartBuild(t) ==
  /\ Post(t, {"confirm", "interrupted", "product"})
  /\ Goes(t, IF BuildRunning THEN "home" ELSE "spawn")
  /\ UNCHANGED <<thread, docs, planning, report, pid, thinking, build, marks>>

SpawnBuild(t) ==
  /\ tab[t].at = "spawn"
  /\ \E b \in Builds \ Live :
       /\ build' = [build EXCEPT ![b] =
                     [at |-> "read", text |-> NoDoc, plan |-> None,
                      shown |-> IF tab[t].page.kind = "confirm" THEN tab[t].page.doc ELSE NoDoc]]
       /\ pid' = b
  /\ Goes(t, "home")
  /\ UNCHANGED <<thread, docs, planning, report, thinking, bounds, marks>>

Reset(t) ==
  /\ Post(t, {"confirm", "interrupted"})
  /\ confirmation' = NoDoc /\ report' = FALSE /\ questions' = FALSE /\ pid' = NoBuild
  /\ Goes(t, "home")
  /\ UNCHANGED <<thread, fdr, backup, planning, thinking, build, marks>>

-----------------------------------------------------------------------------
(* A build: `avs create --yes` on the workspace.                           *)

Steps(b, at, text, made) ==
  build' = [build EXCEPT ![b] = [@ EXCEPT !.at = at, !.text = text, !.plan = made]]
Stops(b) == build' = [build EXCEPT ![b] = Off]

\* There is a locked plan for the words in FDR.md: it will be built.  No build if
\* it is of other words.
BuildReads(b) ==
  /\ build[b].at = "read"
  /\ \/ (fdr = NoDoc \/ (Locked /\ ~ Reusable(fdr))) /\ Stops(b)
     \/ fdr # NoDoc /\ Reusable(fdr) /\ Steps(b, "load", fdr, None)
     \/ fdr # NoDoc /\ ~ Locked /\ Steps(b, "discover", fdr, None)
  /\ UNCHANGED <<thread, docs, planning, report, pid, thinking, tab, bounds, marks>>

BuildDiscovers(b) ==
  /\ build[b].at = "discover"
  /\ \/ questions' = TRUE /\ Stops(b) /\ UNCHANGED <<brief, mixed>>
     \/ /\ brief' = [of |-> build[b].text, status |-> "proposed"]
        /\ Mixes(b, "brief", {"confirm"})
        /\ Steps(b, "confirm", build[b].text, None)
        /\ UNCHANGED questions
  /\ UNCHANGED <<thread, fdr, backup, confirmation, plan, report, pid, thinking, tab, bounds,
                 agreed, unseen, overlaps>>

\* The summary is written and taken as confirmed: the brief on disk is approved
\* and read back, unless a plan was locked meanwhile.
BuildConfirms(b) ==
  LET text == build[b].text IN
  /\ build[b].at = "confirm"
  /\ confirmation' = text
  /\ brief' = [brief EXCEPT !.status = "approved"]
  /\ CASE Reusable(text) -> Steps(b, "approve", text, None)
       [] Locked /\ ~ Reusable(text) -> Stops(b)
       [] OTHER -> Steps(b, "plan", text, [of |-> text, from |-> brief.of,
                                                 status |-> "proposed"])
  /\ UNCHANGED <<thread, fdr, backup, questions, plan, report, pid, thinking, tab, bounds, marks>>

\* Mutated: fingerprinted by the file as it is now.
BuildPlansFromFile(b) ==
  /\ build[b].at = "plan"
  /\ \/ /\ plan' = [build[b].plan EXCEPT !.of = fdr]
        /\ Steps(b, "approve", build[b].text, None)
     \/ plan' = [build[b].plan EXCEPT !.of = fdr, !.status = "blocked"] /\ Stops(b)
  /\ Mixes(b, "plan", {"approve", "load"})
  /\ UNCHANGED <<thread, docs, brief, report, pid, thinking, tab, bounds, agreed, unseen, overlaps>>

\* The plan is saved, with the fingerprint of the words the run read: as
\* proposed, or dag_check blocks it.
BuildPlans(b) ==
  /\ build[b].at = "plan"
  /\ \/ plan' = build[b].plan /\ Steps(b, "approve", build[b].text, None)
     \/ plan' = [build[b].plan EXCEPT !.status = "blocked"] /\ Stops(b)
  /\ Mixes(b, "plan", {"approve", "load"})
  /\ UNCHANGED <<thread, docs, brief, report, pid, thinking, tab, bounds, agreed, unseen, overlaps>>

\* approve_plan locks the plan that is in plan.yaml, and raises if it is blocked.
BuildApproves(b) ==
  /\ build[b].at = "approve"
  /\ IF plan.status = "blocked" THEN Stops(b) /\ UNCHANGED plan
     ELSE plan' = [plan EXCEPT !.status = "locked"] /\ Steps(b, "load", build[b].text, None)
  /\ UNCHANGED <<thread, docs, brief, report, pid, thinking, tab, bounds, marks>>

\* What is built is the plan that is in plan.yaml now, whatever its status.
BuildLoads(b) ==
  /\ build[b].at = "load"
  /\ Steps(b, "build", build[b].text, plan)
  /\ UNCHANGED <<thread, docs, planning, report, pid, thinking, tab, bounds, marks>>

BuildEnds(b) ==
  /\ build[b].at = "build"
  /\ report' = TRUE
  /\ Stops(b)
  /\ UNCHANGED <<thread, docs, planning, pid, thinking, tab, bounds, marks>>

BuildDies(b) ==
  /\ b \in Live
  /\ Fault
  /\ Stops(b)
  /\ UNCHANGED <<thread, docs, planning, report, pid, thinking, tab, marks>>

\* FDR.md is edited outside the Studio: by hand, or by a tool.
EditFdr ==
  /\ Fault
  /\ \E x \in Texts : fdr' = Handwritten(x)
  /\ UNCHANGED <<thread, backup, questions, confirmation, planning, report, pid, thinking,
                 tab, build, marks>>

\* The Studio is stopped and started: requests and flag are gone, builds and
\* open pages are not.
StudioRestarts ==
  /\ Fault
  /\ thinking' = FALSE
  /\ tab' = [t \in Tabs |-> [tab[t] EXCEPT !.at = "idle", !.text = NoDoc]]
  /\ UNCHANGED <<thread, docs, planning, report, pid, build, marks>>

Request(t) ==
  \/ Home(t) \/ Chat(t)
  \/ SubmitAnswer(t) \/ ChatAnswer(t) \/ Extract(t)
  \/ SubmitGuess(t) \/ ChatGuess(t) \/ BeginAssess(t) \/ Assess(t)
  \/ ChatEnough(t) \/ ChatRestart(t)
  \/ SubmitFdr(t) \/ SaveFdr(t) \/ FdrReads(t) \/ FdrDiscovers(t) \/ FdrSummary(t)
  \/ StartBuild(t) \/ SpawnBuild(t) \/ Reset(t) \/ Raises(t)

BuildStep(b) ==
  \/ BuildReads(b) \/ BuildDiscovers(b) \/ BuildConfirms(b) \/ BuildPlans(b)
  \/ BuildApproves(b) \/ BuildLoads(b) \/ BuildEnds(b) \/ BuildDies(b)

Next ==
  \/ \E t \in Tabs : Request(t)
  \/ \E b \in Builds : BuildStep(b)
  \/ EditFdr \/ StudioRestarts

Spec == Init /\ [][Next]_vars

-----------------------------------------------------------------------------
(* Properties.                                                             *)

\* What is built is a plan for the very words the build read, made in that run or
\* in the one whose locked plan it reuses, and was planned from a brief of the
\* words it is for, whatever was written to FDR.md in the meantime and whoever did
\* it; the one unless another run's plan replaced a plan before its run loaded it,
\* the other unless a brief was replaced so.
BuiltFromItsWords ==
  \A b \in Live : build[b].at = "build" =>
    /\ "plan" \notin mixed => build[b].plan.of = build[b].text
    /\ "brief" \notin mixed => build[b].plan.from = build[b].plan.of

Proposal(s) == {w \in Proposals : \E d \in {fdr, backup} \ {NoDoc} : d.says[s] = w}

\* Proposed words are in FDR.md only when the founder said yes to them, on a
\* page that showed them or on one that had gone stale.
ProposalsNeedAYes ==
  \A s \in Slots : \A w \in Proposal(s) : <<s, w>> \in agreed \/ unseen

\* "It cannot trap you": a conversation holds no more answered follow-ups than
\* start the last round, and one for each assessment that ran beside another.
FollowUpsAreBounded ==
  FollowUps(thread) <= MostFollowUps + overlaps

-----------------------------------------------------------------------------
(* What comments and pages say. *)

\* "Someone with a hand-written FDR who clicks the conversation link to see what
\* it does must not lose it" (_chat_handoff): a handoff that replaces such a
\* document keeps it.
HandoffKeepsTheirWords ==
  [][\A t \in Tabs :
       /\ tab[t].page # tab'[t].page /\ tab'[t].page.kind = "handoff"
       /\ fdr # NoDoc /\ fdr.text \in Texts /\ fdr'.text # fdr.text
       => backup' = fdr]_vars

\* "Spec -> build -> review every task in the plan" (_build_plan, which is given
\* the run's plan and loads plan.yaml instead): what a run builds was planned for
\* the words it read.
BuildsThePlanOfItsWords ==
  \A b \in Live : build[b].at = "build" => build[b].plan.of = build[b].text

\* "confirmed via --yes on the plain-language summary" (run_autopilot): a build
\* started on the confirm page builds the words whose summary that page held.
BuiltAsShown ==
  \A b \in Live : build[b].at = "build" =>
                     build[b].shown \in {NoDoc, build[b].text}
=============================================================================

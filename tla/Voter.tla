------------------------------- MODULE Voter -------------------------------
(***************************************************************************)
(* One voter of a review (voters/base.py, tools/voter_tools.py): it asks   *)
(* its model, answers the tool requests the model makes within a budget,   *)
(* sends a reply it cannot read back a bounded number of times, tries      *)
(* again a bounded number of times, switches to the declared fallback      *)
(* provider when its own is not configured, and otherwise gives up with    *)
(* BLOCKED_TOOL_FAILURE.  A reply is the kind of thing it is to the loop.  *)
(***************************************************************************)
EXTENDS Naturals, Sequences

CONSTANTS
  Skills,       \* what a voter may be given: tools, budget, retries, fallback
  Verdicts,     \* the readable verdicts a model may send: [status, findings]
  MaxForeign    \* bound: refused tool requests per attempt

\* The fallback may name the provider the voter runs on already.
VoterSpec == [tools: BOOLEAN, tool_budget: Nat, max_retries: Nat,
              fallback: {"none", "same", "other"}]

ASSUME VoterAssumption ==
  /\ Skills \subseteq VoterSpec /\ Skills # {}
  /\ MaxForeign \in Nat

VARIABLES
  skill,      \* the spec of the voter that runs
  at,         \* idle, start (of an attempt), ask, forced (the last call), done
  provider,   \* "own" or "fallback": where the model is asked
  attempts,   \* failed attempts so far
  turn,       \* of this attempt: nudges and tool calls so far, and paid calls
  output      \* what run() returns

voterVars == <<skill, at, provider, attempts, turn, output>>

_MAX_REQUOTE_NUDGES == 2
_MAX_REVERDICT_NUDGES == 2

FreshTurn == [nudged |-> 0, requote |-> 0, reverdict |-> 0, tools |-> 0, foreign |-> 0, paid |-> 0]
NoOutput == [status |-> "none", findings |-> <<>>, substituted |-> FALSE]

AnySkill == CHOOSE s \in Skills : TRUE

VoterInit ==
  /\ skill = AnySkill
  /\ at = "idle"
  /\ provider = "own" /\ attempts = 0
  /\ turn = FreshTurn
  /\ output = NoOutput

\* Voter.run begins.
VoterStart(s) ==
  /\ at = "idle"
  /\ skill' = s
  /\ at' = "start" /\ provider' = "own" /\ attempts' = 0
  /\ turn' = FreshTurn /\ output' = NoOutput

\* An attempt has a toolbox and a conversation of its own.
BeginAttempt ==
  /\ at = "start"
  /\ at' = "ask"
  /\ turn' = FreshTurn
  /\ UNCHANGED <<skill, provider, attempts, output>>

GiveUp == output' = [status |-> "BLOCKED_TOOL_FAILURE", findings |-> <<>>,
                     substituted |-> provider = "fallback"]

\* A parse failure or any other exception costs one of the retries.
FailedAttempt ==
  /\ attempts' = attempts + 1
  /\ IF attempts < skill.max_retries
       THEN at' = "start" /\ UNCHANGED output
       ELSE at' = "done" /\ GiveUp
  /\ turn' = FreshTurn
  /\ UNCHANGED <<skill, provider>>

ProviderFailsAgain ==
  /\ at \in {"ask", "forced"}
  /\ IF skill.fallback # "none"
       THEN provider' = "fallback" /\ at' = "start" /\ UNCHANGED output
       ELSE at' = "done" /\ GiveUp /\ UNCHANGED provider
  /\ turn' = FreshTurn
  /\ UNCHANGED <<skill, attempts>>

\* The provider is not configured: the fallback, unless this is it already.
\* The provider is compared by its name.
ProviderFails ==
  /\ at \in {"ask", "forced"}
  /\ IF skill.fallback # "none" /\ (provider = "own" \/ skill.fallback = "same")
       THEN provider' = "fallback" /\ at' = "start" /\ UNCHANGED output
       ELSE at' = "done" /\ GiveUp /\ UNCHANGED provider
  /\ turn' = FreshTurn
  /\ UNCHANGED <<skill, attempts>>

AttemptFails == at \in {"ask", "forced"} /\ FailedAttempt

\* A readable verdict ends the run, in any turn.
Answers ==
  /\ at \in {"ask", "forced"}
  /\ \E v \in Verdicts :
       output' = [status |-> v.status, findings |-> v.findings,
                  substituted |-> provider = "fallback"]
  /\ at' = "done"
  /\ turn' = FreshTurn
  /\ UNCHANGED <<skill, provider, attempts>>

\* The conversation goes on; `what` counts one more, and every turn is paid.
Continue(what) ==
  /\ turn' = [turn EXCEPT ![what] = @ + 1, !.paid = @ + 1]
  /\ UNCHANGED <<skill, at, provider, attempts, output>>

\* No answer: asked again once, then read as a verdict that cannot be read.
ReplyEmpty == at = "ask" /\ turn.nudged < 1 /\ Continue("nudged")

\* A tool request that does not parse and carries no verdict: sent back twice,
\* then the attempt fails without another correction.
ReplyMalformed ==
  /\ at = "ask"
  /\ IF turn.requote < _MAX_REQUOTE_NUDGES THEN Continue("requote") ELSE FailedAttempt

\* Prose, or a status that is none of the enum's.
ReplyUnreadable ==
  /\ at = "ask"
  /\ IF turn.reverdict < _MAX_REVERDICT_NUDGES THEN Continue("reverdict") ELSE FailedAttempt

\* The last call: a verdict is asked for, and nothing follows it.
ForceVerdict ==
  /\ at' = "forced"
  /\ turn' = [turn EXCEPT !.paid = @ + 1]
  /\ UNCHANGED <<skill, provider, attempts, output>>

\* ToolBox.call within the allowlist: answered while the budget lasts.
ReplyToolRequest ==
  /\ at = "ask"
  /\ IF skill.tools /\ turn.tools < skill.tool_budget THEN Continue("tools") ELSE ForceVerdict

\* A tool outside the allowlist, or one the taint guard denies, is answered
\* with an error that costs no budget.
ReplyForeignRequest ==
  /\ at = "ask"
  /\ skill.tools
  /\ turn.foreign < MaxForeign
  /\ Continue("foreign")

VoterStep ==
  \/ BeginAttempt
  \/ Answers \/ AttemptFails \/ ProviderFails
  \/ ReplyEmpty \/ ReplyMalformed \/ ReplyUnreadable
  \/ ReplyToolRequest \/ ReplyForeignRequest
=============================================================================

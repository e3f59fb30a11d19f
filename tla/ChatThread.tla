----------------------------- MODULE ChatThread -----------------------------
(***************************************************************************)
(* The conversation that stands in for the requirements form               *)
(* (studio_chat.py): a list of turns, and what the Studio reads off it.    *)
(* Words are only told apart as far as it matters whose they are: typed by *)
(* the founder, skipped, or one of the model's Proposals.  A document      *)
(* (FDR.md) is known by its contents, so equal documents have equal        *)
(* fingerprints.                                                           *)
(***************************************************************************)
EXTENDS Naturals, SequencesExt

CONSTANTS
  IntakeSlots,  \* the questions of the form, in their order (INTAKE_SLOTS)
  Proposals,    \* words a model may propose
  Texts,        \* documents a founder may write by hand
  PerRound,     \* answers that make one clarify round; 5 in the code
  MaxRounds,    \* MAX_CLARIFY_ROUNDS
  MaxGuesses,   \* MAX_GUESSES
  NoDoc         \* no FDR.md

Slots == {IntakeSlots[i] : i \in DOMAIN IntakeSlots}

ASSUME ChatAssumption ==
  /\ {"open", "clarify"} \cap Slots = {}
  /\ {"chat"} \cap Texts = {} /\ {"typed", "skipped", "blank"} \cap Proposals = {}
  /\ IntakeSlots \in Seq(Slots)
  /\ PerRound \in Nat \ {0} /\ MaxRounds \in Nat \ {0, 1} /\ MaxGuesses \in Nat

Words == {"typed", "skipped"} \cup Proposals

\* A question, an answer, or a proposal.
Turn ==
  [role : {"assistant"}, slot : Slots \cup {"open", "clarify"}, kind : {"", "said"},
   words : {"asked"}]
  \cup [role : {"user"}, slot : Slots \cup {"open", "clarify"}, kind : {"", "said"},
        words : Words]
  \cup [role : {"assistant"}, slot : Slots, kind : {"guess"}, words : Proposals]

Asked(slot) == [role |-> "assistant", slot |-> slot, kind |-> "", words |-> "asked"]
Answer(slot, words) == [role |-> "user", slot |-> slot, kind |-> "", words |-> words]
Guess(slot, words) == [role |-> "assistant", slot |-> slot, kind |-> "guess", words |-> words]

\* A question nobody was asked, and its answer.
Said(slot, words) ==
  << [role |-> "assistant", slot |-> slot, kind |-> "said", words |-> "asked"],
     [role |-> "user", slot |-> slot, kind |-> "said", words |-> words] >>

-----------------------------------------------------------------------------
(* What is read off a thread.                                              *)

\* pairs: where a question is followed by an answer.
Pairs(turns) ==
  {i \in 1 .. Len(turns) - 1 :
     turns[i].role = "assistant" /\ turns[i + 1].role = "user"}

Answered(turns) == {turns[i].slot : i \in Pairs(turns)}

HasOpenQuestion(turns) ==
  /\ turns # <<>>
  /\ turns[Len(turns)].role = "assistant"
  /\ turns[Len(turns)].kind # "guess"

\* next_intake_slot, as the set of the slot or of nothing.
NextIntakeSlot(turns) ==
  {IntakeSlots[i] : i \in {i \in DOMAIN IntakeSlots :
     /\ IntakeSlots[i] \notin Answered(turns)
     /\ \A k \in 1 .. i - 1 : IntakeSlots[k] \in Answered(turns)}}

NextQuestionSlot(turns) == IF turns = <<>> THEN {"open"} ELSE NextIntakeSlot(turns)

\* pending_guess: the first proposal whose slot has no answer.
PendingGuess(turns) ==
  LET open == {i \in DOMAIN turns : /\ turns[i].kind = "guess"
                                    /\ turns[i].slot \notin Answered(turns)}
  IN  {turns[i] : i \in {i \in open : \A k \in open : i <= k}}

FollowUps(turns) == Cardinality({i \in Pairs(turns) : turns[i].slot = "clarify"})

\* Mutated: division that rounds down.
RoundsFloored(turns) == FollowUps(turns) \div PerRound

\* clarify_rounds_used
RoundsUsed(turns) == (FollowUps(turns) + PerRound - 1) \div PerRound

HasIntake(turns) == Answered(turns) \cap (Slots \cup {"open"}) # {}

-----------------------------------------------------------------------------
(* Documents.                                                              *)

Doc == [text : Texts \cup {"chat"}, follow : Nat,
        says : [Slots \cup {"open"} -> Words \cup {"blank"}]]

Handwritten(x) ==
  [text |-> x, follow |-> 0, says |-> [s \in Slots \cup {"open"} |-> "blank"]]

\* An answer given again replaces the one before; the opening is the first.
Says(turns, s) ==
  LET given == {i \in Pairs(turns) : turns[i].slot = s}
      one == CHOOSE i \in given : \A k \in given : IF s = "open" THEN i <= k ELSE k <= i
  IN  IF given = {} THEN "blank" ELSE turns[one + 1].words

\* compose_fdr: extend the document that was not written here, or write one.
Composed(turns, base) ==
  IF base # NoDoc /\ ~ HasIntake(turns)
  THEN [base EXCEPT !.follow = @ + FollowUps(turns)]
  ELSE [text |-> "chat", follow |-> FollowUps(turns),
        says |-> [s \in Slots \cup {"open"} |-> Says(turns, s)]]

-----------------------------------------------------------------------------
(* The extraction pass.  A reading is the model's answer: the words it     *)
(* gives for the slots it says were answered, and its guesses.             *)

Reading == [said : UNION {[S -> {"typed"} \cup Proposals] : S \in SUBSET Slots},
            guesses : Seq([slot : Slots, words : Proposals])]

\* Mutated: what the model says they said is believed.
SaidAsRead(reading) == DOMAIN reading.said

\* is_verbatim: only the founder's own words count as said.
SaidVerbatim(reading) == {s \in DOMAIN reading.said : reading.said[s] = "typed"}

\* The guesses, then what was reworded, one a slot, MaxGuesses at most.
Proposed(reading) ==
  LET demoted == FlattenSeq([i \in DOMAIN IntakeSlots |->
        LET s == IntakeSlots[i] IN
        IF s \in DOMAIN reading.said \ SaidVerbatim(reading)
        THEN <<[slot |-> s, words |-> reading.said[s]]>> ELSE <<>>])
      all == reading.guesses \o demoted
      fresh == FlattenSeq([i \in DOMAIN all |->
        IF /\ all[i].slot \notin SaidVerbatim(reading)
           /\ \A k \in 1 .. i - 1 : all[k].slot # all[i].slot
        THEN <<all[i]>> ELSE <<>>])
  IN  SubSeq(fresh, 1, IF Len(fresh) < MaxGuesses THEN Len(fresh) ELSE MaxGuesses)

\* What counts as said, in the order of the form.
SaidTurns(reading) ==
  FlattenSeq([i \in DOMAIN IntakeSlots |->
    LET s == IntakeSlots[i] IN
    IF s \in SaidVerbatim(reading) THEN Said(s, reading.said[s]) ELSE <<>>])

\* apply_extraction
Extracted(turns, reading) ==
  LET guesses == Proposed(reading) IN
  turns \o SaidTurns(reading)
        \o [i \in DOMAIN guesses |-> Guess(guesses[i].slot, guesses[i].words)]
=============================================================================

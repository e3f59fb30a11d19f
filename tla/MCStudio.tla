------------------------------ MODULE MCStudio ------------------------------
(* A small instance of the Studio for TLC.                                 *)
EXTENDS Studio, TLC

CONSTANTS p1, p2

TwoQuestions == <<"who", "numbers">>

\* The model read nothing, read both right, or reworded one and guessed the other.
ThreeReadings ==
  { [said |-> << >>, guesses |-> << >>],
    [said |-> [s \in {"who", "numbers"} |-> "typed"], guesses |-> << >>],
    [said |-> [s \in {"who"} |-> p1], guesses |-> <<[slot |-> "numbers", words |-> p2]>>] }

\* Everything on the form has been said, one of it by saying yes, and two
\* follow-ups; or only the opening, and was guessed at.
Begun ==
  { << Asked("open"), Answer("open", "typed"), Guess("numbers", p1) >>
      \o Said("numbers", p1)
      \o << Asked("who"), Answer("who", "typed"),
            Asked("clarify"), Answer("clarify", "typed"),
            Asked("clarify"), Answer("clarify", "skipped") >>,
    << Asked("open"), Answer("open", "typed"), Guess("who", p2), Guess("numbers", p1) >> }

\* Tabs and processes are interchangeable.
StudioSymmetry == Permutations(Tabs) \cup Permutations(Builds)
=============================================================================

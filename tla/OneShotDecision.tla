-------------------------- MODULE OneShotDecision --------------------------
(***************************************************************************)
(* What a raced approval promises: one decision, made once, that one side  *)
(* really spoke and that carries the name of that side; the request is     *)
(* forwarded to the user only while the decision is open.                  *)
(***************************************************************************)
CONSTANTS Sides, Answers, Undecided

VARIABLES spoken,     \* what every side has said so far
          decision,   \* Undecided, or the side and the answer that won
          forwarded   \* whether the user was asked

vars == <<spoken, decision, forwarded>>

Init == spoken = {} /\ decision = Undecided /\ forwarded = FALSE

Speak ==
  /\ \E more \in SUBSET (Sides \X Answers) : spoken' = spoken \cup more
  /\ UNCHANGED <<decision, forwarded>>

Forward ==
  /\ decision = Undecided /\ forwarded' = TRUE
  /\ UNCHANGED <<spoken, decision>>

Decide ==
  /\ decision = Undecided /\ decision' \in spoken
  /\ UNCHANGED <<spoken, forwarded>>

Next == Speak \/ Forward \/ Decide

Spec == Init /\ [][Next]_vars
=============================================================================

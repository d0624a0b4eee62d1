--------------------------- MODULE AnswererClaims ---------------------------
(***************************************************************************)
(* Statements of the repository's documentation and comments about the     *)
(* answerer that the code does not keep.  Each is checked to be violated   *)
(* by a run of its own; the README tells how.                              *)
(***************************************************************************)
EXTENDS AnswererProperties

\* "Two verdicts must never ride that timeout" (src/src/auto/decision.ts:266):
\* an unattended ask whose reviewer failed or was refused as CRITICAL is not
\* allowed by the countdown.
UnattendedNeverRidesTimeout ==
  \A c \in Calls :
    /\ ask[c].unattended /\ said[c] \in {"FAILURE", "ALLOW-CRITICAL"}
    /\ result[c].outcome = "allowed-once"
    => result[c].by # "timer"

\* "An unaudited verdict must never train the confirmation layer"
\* (src/src/index.ts:2200): a settled ask that left no audit line changes no
\* confirmation.
UnauditedNeverTrains ==
  [][\A c \in Calls :
       result[c] = NoResult /\ result'[c] # NoResult /\ audit'[c] = <<>>
         => learning'[KeyOf[c]] = learning[KeyOf[c]]]_vars
=============================================================================

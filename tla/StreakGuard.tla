---------------------------- MODULE StreakGuard -----------------------------
(***************************************************************************)
(* What the loop guard promises: it remembers nothing but the current run  *)
(* of identical gated calls, fires exactly on every Threshold-th call of a *)
(* run, and starts over after firing.                                      *)
(***************************************************************************)
EXTENDS Naturals

CONSTANTS Keys, Threshold   \* a number of calls

VARIABLES calls,   \* gated calls of the session
          streak,  \* the current run of identical calls since the guard last fired
          fired    \* the verdict on the latest call

vars == <<calls, streak, fired>>

NoStreak == [count |-> 0]
Streak(key, n) == [key |-> key, count |-> n]

\* The length of the run that a call with this key continues or starts.
Length(key) ==
  IF streak # NoStreak /\ streak.key = key THEN streak.count + 1 ELSE 1

Gate(key) ==
  /\ calls' = calls + 1
  /\ fired' = (Length(key) >= Threshold)
  /\ streak' = IF fired' THEN NoStreak ELSE Streak(key, Length(key))

Forget == calls' = 0 /\ streak' = NoStreak /\ fired' = FALSE

Init == calls = 0 /\ streak = NoStreak /\ fired = FALSE
Next == Forget \/ \E key \in Keys : Gate(key)
Spec == Init /\ [][Next]_vars
=============================================================================

----------------------------- MODULE LoopGuard ------------------------------
(***************************************************************************)
(* The repetition guard of one session (src/src/auto/loop-guard.ts): a     *)
(* table of the keys of recent gated calls, each with the position of its  *)
(* latest call and the length of its run.  recordLoopCall deletes and sets *)
(* the entry of its key on every call, so the order of the JavaScript Map  *)
(* is the order of lastSeq, and the oldest entry is the least one.         *)
(***************************************************************************)
EXTENDS Naturals, FiniteSets

CONSTANTS
  Keys,       \* the tool name and arguments of a call
  Threshold,  \* config.loopDetectionThreshold when it is on, clamped to 2
  MaxKeys     \* LOOP_GUARD_MAX_KEYS

ASSUME LoopGuardAssumption ==
  /\ Threshold \in Nat /\ Threshold >= 2
  /\ MaxKeys \in Nat \ {0}

VARIABLES
  seq,     \* gated calls so far
  inner,   \* the table, a function on the keys it holds
  fired    \* the verdict on the latest call

vars == <<seq, inner, fired>>

Entries == [lastSeq : Nat, count : Nat]

TypeOK ==
  /\ seq \in Nat /\ fired \in BOOLEAN
  /\ DOMAIN inner \subseteq Keys /\ inner \in [DOMAIN inner -> Entries]

\* Faulty variant: an interrupted run goes on.
ConsecutiveEver(key) == IF key \in DOMAIN inner THEN inner[key].count + 1 ELSE 1

Consecutive(key) ==
  IF key \in DOMAIN inner /\ inner[key].lastSeq = seq
  THEN inner[key].count + 1 ELSE 1

Without(table, S) == [k \in DOMAIN table \ S |-> table[k]]

Stored(key, n) ==
  [k \in DOMAIN inner \cup {key} |->
     IF k = key THEN [lastSeq |-> seq + 1, count |-> n] ELSE inner[k]]

Oldest(table) ==
  {k \in DOMAIN table : \A l \in DOMAIN table : table[k].lastSeq <= table[l].lastSeq}

Bounded(table) ==
  IF Cardinality(DOMAIN table) > MaxKeys THEN Without(table, Oldest(table)) ELSE table

RecordLoopCall(key) ==
  /\ seq' = seq + 1
  /\ fired' = (Consecutive(key) >= Threshold)
  /\ inner' = IF fired' THEN Without(inner, {key})
              ELSE Bounded(Stored(key, Consecutive(key)))

\* The session is disposed of.
Dispose == seq' = 0 /\ inner' = [k \in {} |-> 0] /\ fired' = FALSE

Init == seq = 0 /\ inner = [k \in {} |-> 0] /\ fired = FALSE
Next == Dispose \/ \E key \in Keys : RecordLoopCall(key)
Spec == Init /\ [][Next]_vars

-----------------------------------------------------------------------------
\* The entries have distinct positions, the table keeps to its bound and no
\* run in it is as long as the threshold (loop-guard.ts:65-70).
TableInv ==
  /\ \A k \in DOMAIN inner : inner[k].lastSeq \in 1..seq /\ inner[k].count \in 1..(Threshold - 1)
  /\ \A k, l \in DOMAIN inner : inner[k].lastSeq = inner[l].lastSeq => k = l
  /\ Cardinality(DOMAIN inner) <= MaxKeys

\* The run the table stands for: the entry of the latest gated call.
Current == {k \in DOMAIN inner : inner[k].lastSeq = seq}
TheStreak ==
  IF Current = {} THEN [count |-> 0]
  ELSE LET k == CHOOSE x \in Current : TRUE
       IN [key |-> k, count |-> inner[k].count]

Abstract == INSTANCE StreakGuard WITH calls <- seq, streak <- TheStreak

\* However small the table, evicting its oldest key never costs a run and
\* never adds to one: the guard fires exactly on the Threshold-th identical
\* call in a row (loop-guard.ts:59-72).
ImplementsStreakGuard == Abstract!Spec
=============================================================================

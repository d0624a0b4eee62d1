----------------------------- MODULE MCProgress -----------------------------
(***************************************************************************)
(* What the host owes an ask: that it ends, and that the critical section  *)
(* its settlement runs in is reached.  The answerer takes a settlement for *)
(* one step because of the keyed mutex; the two share no state, so each    *)
(* behaviour here takes the steps of one of them.                          *)
(***************************************************************************)
EXTENDS MCAnswerer, KeyedMutex

CONSTANTS t1, t2, t3, t4, m1, m2

\* Three calls of run on one key and one on another.
Keys4 == [t \in Tasks |-> IF t = t4 THEN m2 ELSE m1]

ProgressNext ==
  \/ ChainInit /\ Next /\ UNCHANGED chainVars
  \/ Init /\ ChainNext /\ UNCHANGED vars

ProgressSpec ==
  /\ Init /\ ChainInit /\ [][ProgressNext]_<<vars, chainVars>>
  /\ AnswererFairness /\ ChainFairness
=============================================================================

----------------------------- MODULE MCAnswerer -----------------------------
(* Instances of the answerer for TLC: every call belongs to one session and  *)
(* carries one signature.                                                    *)
EXTENDS AnswererClaims, TLC

CONSTANTS s1, k1

OneSession   == {s1}
OneKey       == {k1}
SameSession  == [c \in Calls |-> s1]
SameKey      == [c \in Calls |-> k1]
CallSymmetry == Permutations(Calls)
=============================================================================

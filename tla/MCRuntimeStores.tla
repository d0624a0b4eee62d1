--------------------------- MODULE MCRuntimeStores ---------------------------
\* Three kinds of behaviour, so that each spends its budget where it matters: the
\* windows and the audit, the learning store with revokes and outside rewrites,
\* and learned allows.
EXTENDS ConfirmationStore, TLC

CONSTANTS k1, k2, a1, a2, r1, r2

MCKeys == {k1, k2}
MCAskers == {a1, a2}
MCRevokers == {r1, r2}
MCFaults == {"refuse", "partial", "replace", "truncate"}

None == [op \in {"push", "clear", "learn", "revoke", "outside", "attempt", "dispose", "tick", "crash", "fault"} |-> 0]
MCBudgets ==
    {[None EXCEPT !.push = 4, !.clear = 1, !.crash = 1, !.fault = 2],
     [None EXCEPT !.learn = 3, !.revoke = 2, !.outside = 1, !.crash = 1, !.fault = 2],
     [None EXCEPT !.learn = 3, !.attempt = 3, !.dispose = 1, !.revoke = 1, !.tick = 2, !.fault = 1]}

MCSymmetry == Permutations(MCKeys) \cup Permutations(MCAskers) \cup Permutations(MCRevokers)
=============================================================================

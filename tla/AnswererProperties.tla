------------------------ MODULE AnswererProperties ------------------------
(***************************************************************************)
(* What the approval answerer must get right, whoever answers first and    *)
(* whatever fails in between.                                              *)
(***************************************************************************)
EXTENDS Answerer

\* Every piece of state has its type.
TypeOK ==
  /\ pc \in [Calls -> {"idle", "learning", "asking", "done"}]
  /\ ask \in [Calls -> Shapes]
  /\ held \subseteq Calls /\ reviewing \subseteq Calls
  /\ reviewStates \in [Calls -> Statuses]
  /\ reviewSessions \subseteq Calls /\ followExpiry \subseteq Calls
  /\ reviewVerdicts \in [Calls -> Verdicts \cup {NoVerdict}]
  /\ resolvedCallIds \subseteq Calls /\ autoAnsweredCallIds \subseteq Calls
  /\ timeoutFeedback \subseteq Calls
  /\ decisionFeedback \in [Calls -> Notices]
  /\ reviewModes \in [Sessions -> Modes \cup {"unset"}]
  /\ denials \in [Sessions -> Nat] /\ totalDenials \in [Sessions -> Nat]
  /\ sessionLearnedAllows \in [Sessions -> Nat]
  /\ learning \in [Keys -> Nat]
  /\ audit \in [Calls -> Seq([outcome : Outcomes, source : Sources])]
  /\ answering \subseteq Calls /\ posts \subseteq Calls
  /\ result \in [Calls -> Results]
  /\ said \in [Calls -> Verdicts \cup {NoVerdict}]
  /\ wiped \subseteq Calls /\ posted \subseteq Calls
  /\ told \in [Calls -> Notices \cup {"pending", "timeout"}]

-----------------------------------------------------------------------------
(* The audit trail *)

\* "No unaudited allow may take effect" (src/src/index.ts, APPROVAL-07): a
\* request is recorded at most once, only with the verdict it really got, and
\* an allow was recorded before the tool could run.
AuditMatchesResult ==
  \A c \in Calls :
    /\ Len(audit[c]) <= 1
    /\ Len(audit[c]) = 1 =>
         /\ pc[c] = "done"
         /\ audit[c][1] = Line(result[c].outcome, result[c].source)
    /\ result[c].outcome = "allowed-once" => Len(audit[c]) = 1

-----------------------------------------------------------------------------
(* Who decided *)

\* "Whoever decides is named" (docs/07): the recorded source names the arm
\* that really won the race.  A human click is called automatic only when a
\* client declared an auto-answer for the live ask first, an automatic answer
\* is called human only after a global reset dropped the ask's live state, and
\* a decided LLM denial is one the reviewer really spoke.
ProvenanceHonest ==
  \A c \in Calls :
    LET r == result[c]
        auto == r.source = ByOutcome(r.raced, "auto-allow", "auto-deny")
        human == r.source = ByOutcome(r.raced, "human-allow", "human-deny")
    IN
    /\ r.by = "timer"    => r.source = ByOutcome(r.raced, "timeout-allow", "timeout-deny")
    /\ r.by = "human"    => human \/ (auto /\ c \in posted)
    /\ r.by = "client"   => auto \/ (human /\ c \in wiped)
    /\ r.by = "reviewer" =>
         CASE said[c] = "ALLOW" -> r.source = "llm-allow" /\ r.raced = "allowed-once"
           [] said[c] = "DENY"  -> r.source = "llm-deny"  /\ r.raced = "rejected"
           [] said[c] = "FAILURE" -> r.source = "llm-failed" /\ r.raced = "rejected"
           [] said[c] = "ALLOW-CRITICAL" -> r.source = "llm-blocked" /\ r.raced = "rejected"
           [] OTHER -> FALSE

\* An ask pinned to reject with no takeover handle (status-less, tripped
\* breaker, locked category, loop guard, HIGH or a rejecting timeout action) is
\* released by a human click only: not by the timer, the reviewer or a browser
\* that answers for the user.
PinnedAsksNeedAHuman ==
  \A c \in Calls :
    /\ ask[c].kind # "none" /\ ask[c].action = "reject" /\ ~ask[c].handled
    /\ result[c].outcome = "allowed-once"
    => result[c].by = "human"

\* "Two verdicts must never ride that timeout" (src/src/auto/decision.ts): an
\* unattended ask whose reviewer failed, or whose ALLOW was refused as
\* CRITICAL, while it was open is not allowed by a machine afterwards -- as
\* long as no global reset dropped its live state in between.
UnattendedFailsClosed ==
  \A c \in Calls \ wiped :
    /\ ask[c].unattended /\ said[c] \in {"FAILURE", "ALLOW-CRITICAL"}
    /\ result[c].outcome = "allowed-once"
    => result[c].by = "human"

\* Nothing but a human releases an ask that the countdown may not: one pinned to
\* reject, or an unattended one whose reviewer failed or was refused.
FailsClosed == PinnedAsksNeedAHuman /\ UnattendedFailsClosed

-----------------------------------------------------------------------------
(* What the polling browser is shown *)

\* The per-call maps follow the life of the ask: a countdown or a remembered
\* verdict is published for an open ask only, a panel is held back only while
\* its ask is open, and every terminal status is scheduled for release.
MapsFollowTheAsk ==
  \A c \in Calls :
    /\ reviewStates[c].phase = "countdown" =>
                  /\ pc[c] = "asking" /\ ask[c].kind = "countdown"
                  /\ c \in reviewSessions
    /\ reviewVerdicts[c] # NoVerdict => pc[c] = "asking"
    /\ c \in held => pc[c] = "asking" /\ ask[c].kind = "countdown"
    /\ reviewStates[c].phase = "follow" <=> c \in followExpiry

\* The terminal status tells the browser what the race settled with, and who
\* settled it: a late reviewer never rewrites it, a cancelled ask is never
\* shown as allowed or as decided by a human.
FollowTellsTheTruth ==
  \A c \in Calls :
    LET status == reviewStates[c]
        r == result[c]
    IN status.phase = "follow" =>
         /\ status.action = ActionOf(r.raced)
         /\ r.by = "timer"    => status.source = "timeout"
         /\ r.by = "reviewer" => status.source = "llm"
         /\ r.by \in {"human", "client"} => status.source = "human"
         /\ r.by = "abort"    => status.source \in {"abort", "llm"}
         /\ r.by # "none"

\* The notice post-execute puts in place of a tool error is about this ask:
\* "no response" only when the host timer ran out or a client declared an
\* automatic answer while it was open, a model denial only when the model
\* denied, a missing review only when the reviewer failed or was refused.
NoticeIsTrue ==
  \A c \in Calls :
    /\ told[c] = "timeout" => result[c].by = "timer" \/ c \in posted
    /\ told[c] = "llm" => said[c] = "DENY" /\ result[c].outcome = "rejected"
    /\ told[c] = "unreviewed" =>
         /\ said[c] \in {"FAILURE", "ALLOW-CRITICAL"}
         /\ result[c].outcome # "allowed-once"

-----------------------------------------------------------------------------
(* The breaker and the learning layer *)

\* The two breaker counters never part, whatever settles, resets or disposes in
\* between: with a cumulative limit at or above the consecutive one (20 and 3
\* by default) the cumulative limit can never be the one that trips.
RailsCoincide == denials = totalDenials

\* c is settled by this step.
Settles(c, by) == result[c] = NoResult /\ result'[c].by = by

\* How one step may count for the breaker.
BreakerStep ==
  \A s \in Sessions :
    LET mine(by) == {c \in Calls : SessionOf[c] = s /\ Settles(c, by)} IN
    /\ denials'[s] > denials[s] =>
         /\ denials'[s] = denials[s] + 1
         /\ \E c \in mine("reviewer") : said'[c] = "DENY"
    /\ denials'[s] < denials[s] =>
         result' = result \/ mine("human") # {} \/ mine("client") \cap wiped # {}

\* "A human decision (reset) or a decided LLM denial (increment)"
\* (src/src/index.ts): one step raises the count of a session only because its
\* reviewer denied an ask of that session and took the race, by one; a settled
\* ask clears it only because a human answered one of its asks.
BreakerHonest == [][BreakerStep]_vars

\* How one step may count for the learning layer.
LearningStep ==
  \A k \in Keys :
    /\ learning'[k] > learning[k] =>
         \E c \in Calls :
           /\ KeyOf[c] = k
           /\ Settles(c, "human") \/ (Settles(c, "client") /\ c \in wiped)
           /\ result'[c].outcome = "allowed-once" /\ audit'[c] # <<>>
           /\ ask[c].risk # "HIGH" \/ ask[c].learns = "outcome"
    /\ learning'[k] < learning[k] =>
         \/ result' = result
         \/ \E c \in Calls : /\ KeyOf[c] = k /\ result[c] = NoResult
                             /\ result'[c].outcome = "rejected"

\* "Only a genuine human allow increments" (src/src/index.ts): a signature is
\* confirmed only by a human allow of an ask carrying it that reached the
\* audit trail; a settled ask forgets it only when that ask was not allowed.
LearningHonest == [][LearningStep]_vars

-----------------------------------------------------------------------------
(* Progress *)

\* A closed tab or a headless session never hangs an approval: an ask with a
\* countdown settles although no human, reviewer or browser ever answers.
CountdownSettles ==
  \A c \in Calls :
    (pc[c] = "asking" /\ ask[c].kind = "countdown") ~> (pc[c] = "done")

\* The status, verdict and marker maps let go of a settled ask for good, even
\* when the browser never acknowledges it or posts late.
MapsDrain ==
  \A c \in Calls :
    (pc[c] = "done") ~> [](/\ reviewStates[c] = NoStatus
                           /\ reviewVerdicts[c] = NoVerdict
                           /\ c \notin followExpiry \cup resolvedCallIds
                                         \cup autoAnsweredCallIds)

\* An ask ends, and what is kept about it does.
AskEnds == CountdownSettles /\ MapsDrain
=============================================================================

------------------------- MODULE ApprovalDecisions -------------------------
(***************************************************************************)
(* The pure decision rules of src/src/auto/decision.ts and                 *)
(* src/src/auto/session-introspect.ts that the approval answerer is built  *)
(* from.  A reviewer answer is abstracted to what these rules tell apart:  *)
(* its decision, whether an ALLOW carries the CRITICAL risk level, and     *)
(* whether an ESCALATE stands for a failure of the reviewer.               *)
(***************************************************************************)
EXTENDS Naturals

Outcomes       == {"allowed-once", "rejected"}
Risks          == {"LOW", "MEDIUM", "HIGH"}
Actions        == {"allow", "reject"}
TimeoutActions == {"allow", "low-risk-allow", "reject"}
Modes          == {"manual", "smart", "unattended"}

\* What reviewWithLLM can resolve to.
Verdicts  == {"ALLOW", "ALLOW-CRITICAL", "DENY", "ESCALATE", "FAILURE"}
NoVerdict == "none"

OutcomeOf(action)  == IF action = "allow" THEN "allowed-once" ELSE "rejected"
ActionOf(outcome)  == IF outcome = "allowed-once" THEN "allow" ELSE "reject"

-----------------------------------------------------------------------------
(* Reviewer verdicts *)

ReviewerAutoAllowBlocked(v) == v = "ALLOW-CRITICAL"

UnattendedMustFailClosed(v) == v = "FAILURE" \/ ReviewerAutoAllowBlocked(v)

\* What a verdict does to a LOW ask: "allow" and "deny" settle it, "ask"
\* leaves the countdown running.
LowRiskReviewOutcome(v) ==
  CASE ReviewerAutoAllowBlocked(v) -> "ask"
    [] v = "ALLOW"                 -> "allow"
    [] v \in {"DENY", "FAILURE"}   -> "deny"
    [] OTHER                       -> "ask"

\* The outcome the host applies when nobody answers a countdown.
RiskTimedOutAction(risk, timeoutAction, unattended) ==
  LET allows == \/ unattended /\ risk # "HIGH"
                \/ ~unattended /\ timeoutAction = "allow"
                \/ ~unattended /\ timeoutAction = "low-risk-allow" /\ risk = "LOW"
  IN IF allows THEN "allow" ELSE "reject"

-----------------------------------------------------------------------------
(* Provenance of a resolution *)

HumanSources == {"human-allow", "human-deny"}
LlmSources   == {"llm-allow", "llm-deny", "llm-failed", "llm-blocked"}
AskSources   == {"timeout-allow", "timeout-deny", "auto-allow", "auto-deny"}
                  \cup HumanSources \cup LlmSources

ByOutcome(outcome, ifAllowed, ifRejected) ==
  IF outcome = "allowed-once" THEN ifAllowed ELSE ifRejected

\* Faulty variant: the automatic-answer mark is read first.
ApprovalSourceAutoFirst(outcome, timedOut, claimed, auto, verdict) ==
  CASE auto -> ByOutcome(outcome, "auto-allow", "auto-deny")
    [] ~auto /\ timedOut -> ByOutcome(outcome, "timeout-allow", "timeout-deny")
    [] ~auto /\ ~timedOut /\ claimed -> ByOutcome(outcome, "llm-allow", "llm-deny")
    [] OTHER -> ByOutcome(outcome, "human-allow", "human-deny")

ApprovalSource(outcome, timedOut, claimed, auto, verdict) ==
  CASE timedOut -> ByOutcome(outcome, "timeout-allow", "timeout-deny")
    [] ~timedOut /\ claimed ->
         CASE verdict = "FAILURE"               -> "llm-failed"
           [] ReviewerAutoAllowBlocked(verdict) -> "llm-blocked"
           [] verdict = "ALLOW"                 -> "llm-allow"
           [] verdict = "DENY"                  -> "llm-deny"
           [] OTHER -> ByOutcome(outcome, "llm-allow", "llm-deny")
    [] ~timedOut /\ ~claimed /\ auto ->
         ByOutcome(outcome, "auto-allow", "auto-deny")
    [] OTHER -> ByOutcome(outcome, "human-allow", "human-deny")

-----------------------------------------------------------------------------
(* The denial breaker *)

\* Faulty variant: an automatic denial counts like a model denial.
IncrementOnAnyDenial(source, llmDecided) ==
  llmDecided /\ source \in {"llm-deny", "timeout-deny"}

BreakerReset(source)                == source \in HumanSources
BreakerIncrement(source, llmDecided) == llmDecided /\ source = "llm-deny"

\* counts: [consecutive, total].  A human answer clears both, a decided LLM
\* denial raises both.
ApplyBreaker(counts, source, llmDecided) ==
  CASE BreakerReset(source) -> [consecutive |-> 0, total |-> 0]
    [] BreakerIncrement(source, llmDecided) ->
         [consecutive |-> counts.consecutive + 1, total |-> counts.total + 1]
    [] OTHER -> counts

BreakerTripped(maxConsecutive, maxTotal, consecutive, total) ==
  \/ maxConsecutive > 0 /\ consecutive >= maxConsecutive
  \/ maxTotal > 0 /\ total >= maxTotal

-----------------------------------------------------------------------------
(* The status a settled ask leaves behind for the polling client *)

\* Faulty variant: the settled ask overwrites a takeover's status.
FollowAlwaysPublished(current, outcome, timedOut, aborted) ==
  [phase |-> "follow", action |-> ActionOf(outcome),
   source |-> IF timedOut THEN "timeout" ELSE "human"]

\* The status published when an ask settles, given the one on record: a follow
\* an LLM takeover already published is kept.
FollowResolution(current, outcome, timedOut, aborted) ==
  IF current.phase = "follow" THEN current
  ELSE [phase  |-> "follow",
        action |-> IF aborted THEN "reject" ELSE ActionOf(outcome),
        source |-> CASE timedOut             -> "timeout"
                     [] ~timedOut /\ aborted -> "abort"
                     [] OTHER                -> "human"]

\* Faulty variant: a model allow confirms the signature.
ConfirmOnAnyAllow(source) ==
  CASE source \in {"human-allow", "llm-allow"} -> "increment"
    [] source = "human-deny"                   -> "reset"
    [] OTHER                                   -> "ignore"

\* The learning layer reads the source, never the outcome.
ConfirmActionFor(source) ==
  CASE source = "human-allow" -> "increment"
    [] source = "human-deny"  -> "reset"
    [] OTHER                  -> "ignore"
=============================================================================

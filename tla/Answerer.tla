----------------------------- MODULE Answerer ------------------------------
(***************************************************************************)
(* The terminal answerer of approval/request (src/src/index.ts): the       *)
(* admission of a request, askHuman with its host countdown, the parallel  *)
(* LLM review and its takeover, the denial breaker, the confirmation-      *)
(* learning bookkeeping, the audit gate, the per-call state maps of        *)
(* src/src/auto/approval-state.ts, and everything that touches them from   *)
(* outside: the client's feedback route, the periodic sweep, post-execute, *)
(* the slash commands and session disposal.                                *)
(*                                                                         *)
(* Node runs one macrotask to completion and drains its microtasks before  *)
(* the next one, so one action is one macrotask (a timer, an HTTP request, *)
(* a reviewer response, a human click) with all the continuations it       *)
(* wakes.  Where one macrotask wakes two continuations of the same ask     *)
(* (a cancellation rejects the official approval and aborts the reviewer's *)
(* fetch) every order of the two is an action of its own.                  *)
(*                                                                         *)
(* Every ask carries a callId.  Which lane a request takes (declared       *)
(* rules, lists, categories, loop guard) is an input of Request; live      *)
(* settings are re-chosen at every point the code re-reads them.           *)
(***************************************************************************)
EXTENDS ApprovalDecisions, Sequences

CONSTANTS
  Calls,           \* tool calls that raise an approval request
  Sessions,        \* root authority sessions
  Keys,            \* learning signatures
  SessionOf,       \* [Calls -> Sessions]
  KeyOf,           \* [Calls -> Keys]
  MaxConsecutive,  \* config.maxConsecutiveDenials (0 = off)
  MaxTotal,        \* config.maxTotalDenials (0 = off)
  LearnThreshold,  \* config.learningThreshold
  LearnCap,        \* learningSessionAllowCap
  DefaultMode,     \* config.defaultReviewMode
  LaneInputs,      \* what the environment may present: bounds of a run
  RiskInputs,
  ModeInputs,
  VerdictInputs,
  TimeoutInputs,
  Outside          \* which outside handlers a run exercises

Lanes    == {"deny", "allow", "plain", "direct", "locked", "loop", "ordinary"}
Handlers == {"client", "page", "sweep", "notice", "reset", "mode", "dispose", "abort",
             "hold"}

ASSUME AnswererAssumption ==
  /\ SessionOf \in [Calls -> Sessions]
  /\ KeyOf \in [Calls -> Keys]
  /\ MaxConsecutive \in Nat /\ MaxTotal \in Nat
  /\ LearnThreshold \in Nat \ {0} /\ LearnCap \in Nat
  /\ DefaultMode \in Modes
  /\ LaneInputs \subseteq Lanes /\ RiskInputs \subseteq Risks
  /\ ModeInputs \subseteq Modes /\ VerdictInputs \subseteq Verdicts
  /\ TimeoutInputs \subseteq TimeoutActions
  /\ Outside \subseteq Handlers

VARIABLES
  pc,                  \* where each request is
  ask,                 \* the shape askHuman was entered with
  held,                \* asks whose official panel is still held back
  reviewing,           \* asks with a reviewer call in flight
  reviewStates, reviewSessions, followExpiry, reviewVerdicts,
  resolvedCallIds, autoAnsweredCallIds, timeoutFeedback, decisionFeedback,
  reviewModes,         \* per session
  denials, totalDenials, sessionLearnedAllows,
  learning,            \* confirmations per signature
  audit,               \* decision lines of each call that reached audit.jsonl
  answering,           \* asks the browser decided to answer by itself
  posts,               \* feedback posts on their way to the host
  \* History of what really happened, read by properties only.
  result,              \* what the host was told, and who settled it
  said,                \* what the reviewer answered while the ask was open
  wiped,               \* asks whose live state a global reset dropped
  posted,              \* asks a client declared an auto-answer for, live
  told                 \* which notice post-execute put in the tool result

statusMaps == <<reviewStates, reviewSessions, followExpiry, reviewVerdicts>>
marks      == <<resolvedCallIds, autoAnsweredCallIds>>
feedback   == <<timeoutFeedback, decisionFeedback>>
counters   == <<denials, totalDenials, sessionLearnedAllows>>
records    == <<learning, audit>>
browser    == <<answering, posts>>
history    == <<result, said, wiped, posted, told>>
vars == <<pc, ask, held, reviewing, statusMaps, marks, feedback, reviewModes,
          counters, records, browser, history>>

-----------------------------------------------------------------------------
NoStatus  == [phase |-> "none", action |-> "reject", source |-> "none"]
Countdown(action) == [phase |-> "countdown", action |-> action, source |-> "none"]
LlmFollow(action) == [phase |-> "follow", action |-> action, source |-> "llm"]

Statuses == [phase : {"none", "countdown", "follow"}, action : Actions,
             source : {"none", "human", "llm", "timeout", "abort"}]

\* The arguments askHuman was entered with.  handled: an LLM takeover handle
\* is wired and llmDecided is set.  learns: whether a confirmation may be
\* recorded from the source, from the bare outcome (dsa_request_user), or not.
Shapes == [kind : {"none", "plain", "countdown"}, risk : Risks,
           action : Actions, lockedAsk : BOOLEAN, breaker : BOOLEAN,
           handled : BOOLEAN, takeover : BOOLEAN, unattended : BOOLEAN,
           learns : {"no", "source", "outcome"}]

PlainAsk == [kind |-> "plain", risk |-> "HIGH", action |-> "reject",
             lockedAsk |-> FALSE, breaker |-> FALSE, handled |-> FALSE,
             takeover |-> FALSE, unattended |-> FALSE, learns |-> "no"]
NoAsk       == [PlainAsk EXCEPT !.kind = "none"]
BreakerAsk  == [PlainAsk EXCEPT !.breaker = TRUE]
DirectAsk(learnable) ==
  [PlainAsk EXCEPT !.learns = IF learnable THEN "outcome" ELSE "no"]
LoopAsk     == [PlainAsk EXCEPT !.kind = "countdown"]
LockedAsk   == [LoopAsk EXCEPT !.lockedAsk = TRUE]

\* The ask of the LOW/MEDIUM/HIGH branches.
CountdownAsk(risk, timeoutAction, reviews, takeover, unattended, learns) ==
  [LoopAsk EXCEPT !.risk = risk,
                  !.action = RiskTimedOutAction(risk, timeoutAction, unattended),
                  !.handled = reviews /\ risk # "HIGH",
                  !.takeover = takeover, !.unattended = unattended,
                  !.learns = IF learns THEN "source" ELSE "no"]
LearningAsk(risk, unattended) ==
  [NoAsk EXCEPT !.risk = risk, !.unattended = unattended, !.learns = "source"]

\* The texts recordDecisionFeedback is called with.
Notices == {"none", "policy", "llm", "unreviewed", "audit"}

Actors  == {"none", "human", "client", "timer", "reviewer", "abort",
            "learned", "static"}
Sources == AskSources \cup {"none", "static-deny", "static-allow", "learned-allow"}

\* outcome: what the approval chain was told; raced: what won the race, before
\* the audit gate.
Results  == [outcome : Outcomes \cup {"none", "aborted"},
             raced   : Outcomes \cup {"none", "aborted"},
             source  : Sources, by : Actors]
NoResult == [outcome |-> "none", raced |-> "none", source |-> "none", by |-> "none"]
Aborted  == [outcome |-> "aborted", raced |-> "aborted", source |-> "none",
             by |-> "abort"]

Mode(s)    == IF reviewModes[s] = "unset" THEN DefaultMode ELSE reviewModes[s]
Tripped(s) == BreakerTripped(MaxConsecutive, MaxTotal, denials[s], totalDenials[s])

Line(outcome, source) == [outcome |-> outcome, source |-> source]
Audited(c, line)      == [audit EXCEPT ![c] = Append(@, line)]
Noting(fb, c, notice) == [fb EXCEPT ![c] = notice]

Init ==
  /\ pc = [c \in Calls |-> "idle"]
  /\ ask = [c \in Calls |-> NoAsk]
  /\ held = {} /\ reviewing = {}
  /\ reviewStates = [c \in Calls |-> NoStatus]
  /\ reviewSessions = {} /\ followExpiry = {}
  /\ reviewVerdicts = [c \in Calls |-> NoVerdict]
  /\ resolvedCallIds = {} /\ autoAnsweredCallIds = {}
  /\ timeoutFeedback = {}
  /\ decisionFeedback = [c \in Calls |-> "none"]
  /\ reviewModes = [s \in Sessions |-> "unset"]
  /\ denials = [s \in Sessions |-> 0]
  /\ totalDenials = [s \in Sessions |-> 0]
  /\ sessionLearnedAllows = [s \in Sessions |-> 0]
  /\ learning = [k \in Keys |-> 0]
  /\ audit = [c \in Calls |-> <<>>]
  /\ answering = {} /\ posts = {}
  /\ result = [c \in Calls |-> NoResult]
  /\ said = [c \in Calls |-> NoVerdict]
  /\ wiped = {} /\ posted = {}
  /\ told = [c \in Calls |-> "pending"]

-----------------------------------------------------------------------------
(* Admission: the head of the approval/request handler, up to askHuman *)

\* Nothing outlives the request: the verdict is returned at once.
Return(c, outcome, raced, source, by) ==
  /\ pc' = [pc EXCEPT ![c] = "done"]
  /\ result' = [result EXCEPT ![c] = [outcome |-> outcome, raced |-> raced,
                                      source |-> source, by |-> by]]

\* askHuman up to its first await.  The panel of a countdown ask may be held.
OpenAsk(c, shape) ==
  /\ pc' = [pc EXCEPT ![c] = "asking"]
  /\ ask' = [ask EXCEPT ![c] = shape]
  /\ IF shape.kind = "countdown"
     THEN /\ reviewStates' = [reviewStates EXCEPT ![c] = Countdown(shape.action)]
          /\ reviewSessions' = reviewSessions \cup {c}
          /\ \/ held' = held
             \/ "hold" \in Outside /\ held' = held \cup {c}
     ELSE UNCHANGED <<reviewStates, reviewSessions, held>>

\* A deny terminal: the feedback and the rejection do not wait for the audit.
DenyLane(c) ==
  /\ decisionFeedback' = Noting(decisionFeedback, c, "policy")
  /\ audit' \in {audit, Audited(c, Line("rejected", "static-deny"))}
  /\ Return(c, "rejected", "rejected", "static-deny", "static")
  /\ UNCHANGED <<ask, held, reviewing, reviewStates, reviewSessions>>

\* Faulty variant: the allow does not wait for its audit line.
AutoAllowUnaudited(c, source, fb) ==
  /\ audit' \in {audit, Audited(c, Line("allowed-once", source))}
  /\ decisionFeedback' = fb
  /\ Return(c, "allowed-once", "allowed-once", source, "static")
  /\ UNCHANGED <<ask, held, reviewing, reviewStates, reviewSessions>>

\* An automatic allow: it takes effect only once its audit line is on disk.
AutoAllow(c, source, fb) ==
  /\ \/ /\ audit' = Audited(c, Line("allowed-once", source))
        /\ decisionFeedback' = fb
        /\ Return(c, "allowed-once", "allowed-once", source, "static")
     \/ /\ decisionFeedback' = Noting(fb, c, "audit")
        /\ Return(c, "rejected", "allowed-once", source, "static")
        /\ UNCHANGED audit
  /\ UNCHANGED <<ask, held, reviewing, reviewStates, reviewSessions>>

\* A status-less ask or a pinned-reject one: no reviewer is started.
AskOnly(c, shape, fb) ==
  /\ OpenAsk(c, shape)
  /\ decisionFeedback' = fb
  /\ UNCHANGED <<reviewing, audit, result>>

\* loopGuardAsk
LoopLane(c, fb) ==
  AskOnly(c, IF Mode(SessionOf[c]) = "manual" THEN PlainAsk ELSE LoopAsk, fb)

\* The LOW/MEDIUM/HIGH branches.  Route, scopes and timeoutAction are live
\* settings.  compressed: an ask assessment that an auto directive put at LOW.
RiskBranch(c, risk, learns, unattended, fb) ==
  \E reviews, takeover, compressed \in BOOLEAN, timeoutAction \in TimeoutInputs :
    /\ takeover => reviews
    /\ IF risk = "LOW" /\ ~reviews /\ ~compressed
       THEN \/ AutoAllow(c, "auto-allow", fb)
            \/ "loop" \in LaneInputs /\ LoopLane(c, fb)
       ELSE /\ OpenAsk(c, CountdownAsk(risk, timeoutAction, reviews, takeover,
                                       unattended, learns))
            /\ reviewing' = IF reviews THEN reviewing \cup {c} ELSE reviewing
            /\ decisionFeedback' = fb
            /\ UNCHANGED <<audit, result>>

\* learnDecision: a remembered signature inside the session's allowance.
LearningHit(c) ==
  /\ learning[KeyOf[c]] >= LearnThreshold
  /\ sessionLearnedAllows[SessionOf[c]] < LearnCap

\* Past every terminal: manual mode, the breaker, the learning query, the
\* risk branches, in that order.
OrdinaryLane(c) ==
  LET s == SessionOf[c] IN
  CASE Mode(s) = "manual" -> AskOnly(c, PlainAsk, decisionFeedback)
    [] Mode(s) # "manual" /\ Tripped(s) -> AskOnly(c, BreakerAsk, decisionFeedback)
    [] OTHER ->
         \E risk \in RiskInputs, learnable \in BOOLEAN :
           LET unattended == Mode(s) = "unattended"
               learns     == learnable /\ risk # "HIGH"
           IN \/ RiskBranch(c, risk, learns, unattended, decisionFeedback)
              \/ /\ learns /\ LearningHit(c)
                 /\ pc' = [pc EXCEPT ![c] = "learning"]
                 /\ ask' = [ask EXCEPT ![c] = LearningAsk(risk, unattended)]
                 /\ UNCHANGED <<held, reviewing, reviewStates, reviewSessions,
                                decisionFeedback, audit, result>>

Request(c) ==
  /\ pc[c] = "idle"
  /\ \E lane \in LaneInputs :
       \/ lane = "deny"     /\ DenyLane(c)
       \/ lane = "allow"    /\ AutoAllow(c, "static-allow", decisionFeedback)
       \/ lane = "plain"    /\ AskOnly(c, PlainAsk, decisionFeedback)
       \/ lane = "direct"   /\ \E l \in BOOLEAN : AskOnly(c, DirectAsk(l), decisionFeedback)
       \/ lane = "locked"   /\ AskOnly(c, LockedAsk, decisionFeedback)
       \/ lane = "loop"     /\ LoopLane(c, decisionFeedback)
       \/ lane = "ordinary" /\ OrdinaryLane(c)
  /\ UNCHANGED <<followExpiry, reviewVerdicts, marks, timeoutFeedback,
                 reviewModes, counters, learning, browser, said, wiped, posted,
                 told>>

\* learnAttempt resumes with the verification's verdict.  Anything but a clean
\* ALLOW, or an allow that could not be audited, falls through.
LearnReturns(c, v) ==
  LET s == SessionOf[c]
      fallThrough(fb) == RiskBranch(c, ask[c].risk, TRUE, ask[c].unattended, fb)
  IN
  /\ pc[c] = "learning"
  /\ \/ /\ v = "ALLOW"
        /\ sessionLearnedAllows' = [sessionLearnedAllows EXCEPT ![s] = @ + 1]
        /\ \/ /\ audit' = Audited(c, Line("allowed-once", "learned-allow"))
              /\ Return(c, "allowed-once", "allowed-once", "learned-allow", "learned")
              /\ UNCHANGED <<ask, held, reviewing, reviewStates, reviewSessions,
                             decisionFeedback>>
           \/ fallThrough(Noting(decisionFeedback, c, "audit"))
     \/ /\ v # "ALLOW"
        /\ fallThrough(decisionFeedback)
        /\ UNCHANGED sessionLearnedAllows
  /\ UNCHANGED <<followExpiry, reviewVerdicts, marks, timeoutFeedback,
                 reviewModes, denials, totalDenials, learning, browser, said,
                 wiped, posted, told>>

-----------------------------------------------------------------------------
(* Settlement: the race inside askHuman and everything after it *)

\* What the learning layer does with a settled ask.  An ordinary ask is read
\* through its source, and not at all when it could not be audited; a direct
\* human request is read through the outcome its caller was handed.
LearnAction(c, source, outcome, audited) ==
  CASE ask[c].learns = "source" /\ audited -> ConfirmActionFor(source)
    [] ask[c].learns = "outcome" ->
         IF outcome = "allowed-once" THEN "increment" ELSE "reset"
    [] OTHER -> "ignore"

Learned(count, action) ==
  CASE action = "increment" -> count + 1
    [] action = "reset"     -> 0
    [] OTHER                -> count

\* The race is won by `by` with the outcome `raced`.  verdict, status and fb
\* are reviewVerdicts[c], reviewStates[c] and decisionFeedback as the winner
\* left them.
Settle(c, raced, by, verdict, status, fb) ==
  LET s == SessionOf[c]
      timedOut == by = "timer"
      source == ApprovalSource(raced, timedOut, by = "reviewer",
                               c \in autoAnsweredCallIds, verdict)
      counts == ApplyBreaker([consecutive |-> denials[s], total |-> totalDenials[s]],
                             source, ask[c].handled)
  IN
  /\ held' = held \ {c}
  /\ IF ask[c].kind = "countdown"
     THEN /\ reviewStates' = [reviewStates EXCEPT ![c] =
                                FollowResolution(status, raced, timedOut, FALSE)]
          /\ followExpiry' = followExpiry \cup {c}
     ELSE UNCHANGED <<reviewStates, followExpiry>>
  /\ resolvedCallIds' = resolvedCallIds \cup {c}
  /\ autoAnsweredCallIds' = autoAnsweredCallIds \ {c}
  /\ denials' = [denials EXCEPT ![s] = counts.consecutive]
  /\ totalDenials' = [totalDenials EXCEPT ![s] = counts.total]
  /\ reviewVerdicts' = [reviewVerdicts EXCEPT ![c] = NoVerdict]
  /\ \E audited \in BOOLEAN :
       LET outcome == IF audited THEN raced ELSE "rejected" IN
       /\ audit' = IF audited THEN Audited(c, Line(raced, source)) ELSE audit
       /\ decisionFeedback' = IF audited THEN fb ELSE Noting(fb, c, "audit")
       /\ learning' = [learning EXCEPT ![KeyOf[c]] =
                         Learned(@, LearnAction(c, source, outcome, audited))]
       /\ Return(c, outcome, raced, source, by)

\* The panel reached the user, so next() can still be answered.
PanelShown(c) == pc[c] = "asking" /\ c \notin held

\* createPanelGate's delay elapses, or the user asks to see the panel.
PanelOpens(c) ==
  /\ c \in held
  /\ held' = held \ {c}
  /\ UNCHANGED <<pc, ask, reviewing, statusMaps, marks, feedback, reviewModes,
                 counters, records, browser, history>>

HumanAnswers(c, outcome) ==
  /\ PanelShown(c)
  /\ Settle(c, outcome, "human", reviewVerdicts[c], reviewStates[c], decisionFeedback)
  /\ UNCHANGED <<ask, reviewing, reviewSessions, timeoutFeedback, reviewModes,
                 sessionLearnedAllows, browser, said, wiped, posted, told>>

\* Faulty variant: the countdown waits for the reviewer.
TimerDueAfterReview(c) ==
  pc[c] = "asking" /\ ask[c].kind = "countdown" /\ c \notin reviewing

TimerDue(c) == pc[c] = "asking" /\ ask[c].kind = "countdown"

\* The host countdown expires: the canonical notice, then the timeout action.
TimerFires(c) ==
  /\ TimerDue(c)
  /\ timeoutFeedback' = timeoutFeedback \cup {c}
  /\ Settle(c, OutcomeOf(ask[c].action), "timer", reviewVerdicts[c],
            reviewStates[c], decisionFeedback)
  /\ UNCHANGED <<ask, reviewing, reviewSessions, reviewModes,
                 sessionLearnedAllows, browser, said, wiped, posted, told>>

-----------------------------------------------------------------------------
(* The parallel reviewer *)

\* Faulty variant: anything but a terminal status counts as live.
LiveUnlessFollow(c) == reviewStates[c].phase # "follow"

Live(c) == reviewStates[c].phase = "countdown"

\* Faulty variant: the HIGH advisory takes over like a MEDIUM review.
ClaimsAtAnyRisk(c, v) ==
  CASE v = "ALLOW" /\ ask[c].takeover -> "allowed-once"
    [] v = "DENY" /\ ask[c].takeover  -> "rejected"
    [] OTHER                          -> "none"

\* The outcome a verdict claims the race with, if it claims it at all.
Claims(c, v) ==
  LET failClosed == ask[c].unattended /\ UnattendedMustFailClosed(v)
      decisive   == v \in {"ALLOW", "DENY"}
      mediumTake == decisive /\ (ask[c].takeover \/ ask[c].unattended)
      low        == LowRiskReviewOutcome(v)
  IN CASE ask[c].risk = "LOW" ->
            IF low = "allow" THEN "allowed-once"
            ELSE IF low = "deny" \/ failClosed THEN "rejected" ELSE "none"
       [] ask[c].risk = "MEDIUM" ->
            IF failClosed THEN "rejected"
            ELSE IF mediumTake THEN (IF v = "ALLOW" THEN "allowed-once" ELSE "rejected")
            ELSE "none"
       [] OTHER -> "none"

\* What a claim tells the agent about a rejection.
ClaimNotice(v) == IF v = "DENY" THEN "llm" ELSE "unreviewed"
ClaimFeedback(c, v) ==
  IF Claims(c, v) = "rejected" THEN Noting(decisionFeedback, c, ClaimNotice(v))
  ELSE decisionFeedback

\* The reviewer of an ask answers; only an ask still published as a live
\* countdown hears it.
ReviewerAnswers(c, v) ==
  /\ c \in reviewing
  /\ reviewing' = reviewing \ {c}
  /\ said' = IF pc[c] = "asking" THEN [said EXCEPT ![c] = v] ELSE said

ReviewDiscarded(c, v) ==
  /\ ReviewerAnswers(c, v) /\ ~Live(c)
  /\ UNCHANGED <<pc, ask, held, statusMaps, marks, feedback, reviewModes,
                 counters, records, browser, result, wiped, posted, told>>

\* A decisive verdict takes the race over.  Its own writes come first, the
\* continuation of askHuman runs after them and keeps the published follow.
\* A race already settled ignores the claim.
ReviewTakesOver(c, v) ==
  /\ ReviewerAnswers(c, v) /\ Live(c) /\ Claims(c, v) # "none"
  /\ IF pc[c] = "asking"
     THEN Settle(c, Claims(c, v), "reviewer", v,
                 LlmFollow(ActionOf(Claims(c, v))), ClaimFeedback(c, v))
     ELSE /\ reviewStates' = [reviewStates EXCEPT ![c] =
                                LlmFollow(ActionOf(Claims(c, v)))]
          /\ reviewVerdicts' = [reviewVerdicts EXCEPT ![c] = v]
          /\ followExpiry' = followExpiry \cup {c}
          /\ decisionFeedback' = ClaimFeedback(c, v)
          /\ UNCHANGED <<pc, held, marks, denials, totalDenials, records, result>>
  /\ UNCHANGED <<ask, reviewSessions, timeoutFeedback, reviewModes,
                 sessionLearnedAllows, browser, wiped, posted, told>>

\* Advice: MEDIUM and HIGH remember the verdict, a LOW escalation leaves
\* nothing behind.  The countdown goes on.
ReviewAdvises(c, v) ==
  /\ ReviewerAnswers(c, v) /\ Live(c) /\ Claims(c, v) = "none"
  /\ reviewVerdicts' = IF ask[c].risk = "LOW" THEN reviewVerdicts
                       ELSE [reviewVerdicts EXCEPT ![c] = v]
  /\ UNCHANGED <<pc, ask, held, reviewStates, reviewSessions, followExpiry,
                 marks, feedback, reviewModes, counters, records, browser,
                 result, wiped, posted, told>>

\* The reviewer call rejects instead of answering; only telemetry hears it.
ReviewErrors(c) ==
  /\ c \in reviewing
  /\ reviewing' = reviewing \ {c}
  /\ UNCHANGED <<pc, ask, held, statusMaps, marks, feedback, reviewModes,
                 counters, records, browser, history>>

-----------------------------------------------------------------------------
(* The request is cancelled: next() rejects *)

AbortWith(c, status, fb) ==
  /\ pc' = [pc EXCEPT ![c] = "done"]
  /\ IF ask[c].kind = "countdown"
     THEN /\ reviewStates' = [reviewStates EXCEPT ![c] =
                                FollowResolution(status, "rejected", FALSE, TRUE)]
          /\ followExpiry' = followExpiry \cup {c}
     ELSE UNCHANGED <<reviewStates, followExpiry>>
  /\ resolvedCallIds' = resolvedCallIds \cup {c}
  /\ reviewVerdicts' = [reviewVerdicts EXCEPT ![c] = NoVerdict]
  /\ decisionFeedback' = fb
  /\ result' = [result EXCEPT ![c] = Aborted]
  /\ UNCHANGED <<ask, held, reviewSessions, autoAnsweredCallIds, timeoutFeedback,
                 reviewModes, counters, records, browser, wiped, posted, told>>

\* The rejection reaches the race before the reviewer's aborted call does.
Abort(c) ==
  /\ "abort" \in Outside /\ PanelShown(c)
  /\ AbortWith(c, reviewStates[c], decisionFeedback)
  /\ UNCHANGED <<reviewing, said>>

\* The aborted call is read as a reviewer failure first and claims, but the
\* rejection is the arm the race settles with.
AbortAfterClaim(c) ==
  /\ "abort" \in Outside /\ PanelShown(c)
  /\ ReviewerAnswers(c, "FAILURE") /\ Live(c) /\ Claims(c, "FAILURE") # "none"
  /\ AbortWith(c, LlmFollow("reject"), ClaimFeedback(c, "FAILURE"))

-----------------------------------------------------------------------------
(* The browser's watcher and the feedback route it posts to *)

\* The watcher answers by itself once: on a follow some machine settled, or
\* when a countdown it saw stayed unpublished through the grace window.
ClientDecides(c) ==
  /\ "client" \in Outside /\ c \notin answering
  /\ ask[c].kind = "countdown"
  /\ \/ reviewStates[c].phase = "none"
     \/ reviewStates[c].phase = "follow" /\ reviewStates[c].source \in {"llm", "timeout"}
  /\ answering' = answering \cup {c}
  /\ posts' = posts \cup {c}
  /\ UNCHANGED <<pc, ask, held, reviewing, statusMaps, marks, feedback,
                 reviewModes, counters, records, history>>

\* Its answer does not wait for the post beyond half a second, and is refused
\* once the approval is settled.  The only action it knows is the countdown's.
ClientResponds(c) ==
  /\ c \in answering /\ PanelShown(c)
  /\ Settle(c, OutcomeOf(ask[c].action), "client", reviewVerdicts[c],
            reviewStates[c], decisionFeedback)
  /\ UNCHANGED <<ask, reviewing, reviewSessions, timeoutFeedback, reviewModes,
                 sessionLearnedAllows, browser, said, wiped, posted, told>>

\* The route takes a post from any same-origin page, at any time.
StrayPost(c) ==
  /\ "page" \in Outside /\ pc[c] # "idle" /\ c \notin posts
  /\ posts' = posts \cup {c}
  /\ UNCHANGED <<pc, ask, held, reviewing, statusMaps, marks, feedback,
                 reviewModes, counters, records, answering, history>>

KnownCallId(c) ==
  \/ c \in timeoutFeedback \cup resolvedCallIds \cup followExpiry
  \/ decisionFeedback[c] # "none" \/ reviewStates[c].phase # "none"
  \/ reviewVerdicts[c] # NoVerdict

\* Faulty variant: the route relies on the published status alone.
RelabelsUnlessFollow(c) ==
  /\ KnownCallId(c) /\ decisionFeedback[c] = "none"
  /\ reviewStates[c].phase # "follow"

\* Whether a post may still relabel the ask as answered automatically.
Relabels(c) ==
  /\ KnownCallId(c) /\ decisionFeedback[c] = "none"
  /\ c \notin resolvedCallIds /\ reviewStates[c].phase # "follow"

FeedbackPost(c) ==
  /\ c \in posts
  /\ posts' = posts \ {c}
  /\ IF Relabels(c)
     THEN /\ autoAnsweredCallIds' = autoAnsweredCallIds \cup {c}
          /\ timeoutFeedback' = timeoutFeedback \cup {c}
          /\ posted' = IF pc[c] = "asking" THEN posted \cup {c} ELSE posted
     ELSE UNCHANGED <<autoAnsweredCallIds, timeoutFeedback, posted>>
  /\ IF reviewStates[c].phase = "follow"
     THEN /\ reviewStates' = [reviewStates EXCEPT ![c] = NoStatus]
          /\ followExpiry' = followExpiry \ {c}
     ELSE UNCHANGED <<reviewStates, followExpiry>>
  /\ UNCHANGED <<pc, ask, held, reviewing, reviewSessions, reviewVerdicts,
                 resolvedCallIds, decisionFeedback, reviewModes, counters,
                 records, answering, result, said, wiped, told>>

\* The post never arrives; the route is best-effort.
PostLost(c) ==
  /\ c \in posts
  /\ posts' = posts \ {c}
  /\ UNCHANGED <<pc, ask, held, reviewing, statusMaps, marks, feedback,
                 reviewModes, counters, records, answering, history>>

-----------------------------------------------------------------------------
(* The one-second sweep and the age limits of the feedback maps *)

SweepFollow(c) ==
  /\ "sweep" \in Outside /\ c \in followExpiry
  /\ followExpiry' = followExpiry \ {c}
  /\ reviewStates' = [reviewStates EXCEPT ![c] = NoStatus]
  /\ reviewSessions' = reviewSessions \ {c}
  /\ UNCHANGED <<pc, ask, held, reviewing, reviewVerdicts, marks, feedback,
                 reviewModes, counters, records, browser, history>>

SweepResolved(c) ==
  /\ "sweep" \in Outside /\ c \in resolvedCallIds
  /\ resolvedCallIds' = resolvedCallIds \ {c}
  /\ UNCHANGED <<pc, ask, held, reviewing, statusMaps, autoAnsweredCallIds,
                 feedback, reviewModes, counters, records, browser, history>>

SweepAuto(c) ==
  /\ "sweep" \in Outside /\ c \in autoAnsweredCallIds
  /\ autoAnsweredCallIds' = autoAnsweredCallIds \ {c}
  /\ UNCHANGED <<pc, ask, held, reviewing, statusMaps, resolvedCallIds,
                 feedback, reviewModes, counters, records, browser, history>>

\* sweepFeedbackMaps drops what is older than a minute (and, beyond 256
\* entries, the oldest).
FeedbackExpires(c) ==
  /\ "sweep" \in Outside
  /\ \/ /\ c \in timeoutFeedback
        /\ timeoutFeedback' = timeoutFeedback \ {c}
        /\ UNCHANGED decisionFeedback
     \/ /\ decisionFeedback[c] # "none"
        /\ decisionFeedback' = Noting(decisionFeedback, c, "none")
        /\ UNCHANGED timeoutFeedback
  /\ UNCHANGED <<pc, ask, held, reviewing, statusMaps, marks, reviewModes,
                 counters, records, browser, history>>

\* tools/post-execute: a denied call always carries an error, an allowed one
\* may.  Feedback is consumed either way and shown only on an error.
PostExecute(c, isError) ==
  /\ "notice" \in Outside
  /\ pc[c] = "done" /\ told[c] = "pending"
  /\ result[c].outcome # "allowed-once" => isError
  /\ told' = [told EXCEPT ![c] =
       CASE isError /\ decisionFeedback[c] # "none" -> decisionFeedback[c]
         [] isError /\ decisionFeedback[c] = "none" /\ c \in timeoutFeedback -> "timeout"
         [] OTHER -> "none"]
  /\ timeoutFeedback' = timeoutFeedback \ {c}
  /\ decisionFeedback' = Noting(decisionFeedback, c, "none")
  /\ UNCHANGED <<pc, ask, held, reviewing, statusMaps, marks, reviewModes,
                 counters, records, browser, result, said, wiped, posted>>

-----------------------------------------------------------------------------
(* Slash commands, the learning route and session disposal *)

\* /approval-reset-all
ResetAll ==
  /\ "reset" \in Outside
  /\ denials' = [s \in Sessions |-> 0]
  /\ totalDenials' = [s \in Sessions |-> 0]
  /\ reviewStates' = [c \in Calls |-> NoStatus]
  /\ reviewSessions' = {} /\ followExpiry' = {}
  /\ reviewVerdicts' = [c \in Calls |-> NoVerdict]
  /\ resolvedCallIds' = {} /\ autoAnsweredCallIds' = {}
  /\ timeoutFeedback' = {}
  /\ decisionFeedback' = [c \in Calls |-> "none"]
  /\ wiped' = wiped \cup {c \in Calls : pc[c] = "asking"}
  /\ UNCHANGED <<pc, ask, held, reviewing, reviewModes, sessionLearnedAllows,
                 records, browser, result, said, posted, told>>

\* /approval-reset
ResetSession(s) ==
  /\ "reset" \in Outside
  /\ denials' = [denials EXCEPT ![s] = 0]
  /\ totalDenials' = [totalDenials EXCEPT ![s] = 0]
  /\ UNCHANGED <<pc, ask, held, reviewing, statusMaps, marks, feedback,
                 reviewModes, sessionLearnedAllows, records, browser, history>>

\* /approval-mode.  The entry of a session set to smart is deleted.
SetReviewMode(s, m) ==
  /\ "mode" \in Outside
  /\ reviewModes' = [reviewModes EXCEPT ![s] = IF m = "smart" THEN "unset" ELSE m]
  /\ UNCHANGED <<pc, ask, held, reviewing, statusMaps, marks, feedback,
                 counters, records, browser, history>>

\* The revoke route, the age limit and the eviction of the learning store.
LearningForgets(k) ==
  /\ "mode" \in Outside /\ learning[k] > 0
  /\ learning' = [learning EXCEPT ![k] = 0]
  /\ UNCHANGED <<pc, ask, held, reviewing, statusMaps, marks, feedback,
                 reviewModes, counters, audit, browser, history>>

SessionDisposed(s) ==
  /\ "dispose" \in Outside
  /\ denials' = [denials EXCEPT ![s] = 0]
  /\ totalDenials' = [totalDenials EXCEPT ![s] = 0]
  /\ sessionLearnedAllows' = [sessionLearnedAllows EXCEPT ![s] = 0]
  /\ reviewModes' = [reviewModes EXCEPT ![s] = "unset"]
  /\ UNCHANGED <<pc, ask, held, reviewing, statusMaps, marks, feedback,
                 records, browser, history>>

-----------------------------------------------------------------------------
Reviewer(c) ==
  \/ \E v \in VerdictInputs : \/ ReviewDiscarded(c, v)
                              \/ ReviewTakesOver(c, v)
                              \/ ReviewAdvises(c, v)
  \/ ReviewErrors(c)

Browser(c) == \/ ClientDecides(c) \/ ClientResponds(c) \/ StrayPost(c)
              \/ FeedbackPost(c) \/ PostLost(c)

Sweep(c) == SweepFollow(c) \/ SweepResolved(c) \/ SweepAuto(c)

Next ==
  \/ \E c \in Calls :
       \/ Request(c)
       \/ \E v \in VerdictInputs : LearnReturns(c, v)
       \/ PanelOpens(c)
       \/ \E o \in Outcomes : HumanAnswers(c, o)
       \/ TimerFires(c)
       \/ Reviewer(c)
       \/ Abort(c) \/ AbortAfterClaim(c)
       \/ Browser(c)
       \/ Sweep(c) \/ FeedbackExpires(c)
       \/ \E e \in BOOLEAN : PostExecute(c, e)
  \/ ResetAll
  \/ \E s \in Sessions : \/ ResetSession(s) \/ SessionDisposed(s)
                         \/ \E m \in ModeInputs : SetReviewMode(s, m)
  \/ \E k \in Keys : LearningForgets(k)

Spec == Init /\ [][Next]_vars

\* setTimeout and setInterval fire; nothing else is owed: a human, a reviewer
\* or a browser may stay silent for ever.
AnswererFairness ==
  /\ \A c \in Calls : WF_vars(TimerFires(c))
  /\ \A c \in Calls : WF_vars(SweepFollow(c)) /\ WF_vars(SweepResolved(c))
                                              /\ WF_vars(SweepAuto(c))
=============================================================================

--------------------------- MODULE AnswererProofs ---------------------------
(***************************************************************************)
(* Theorems about the answerer for every set of calls, sessions and keys,  *)
(* every limit and every choice of what the environment may present.       *)
(***************************************************************************)
EXTENDS AnswererProperties, TLAPS

USE DEF Outcomes, Risks, Actions, TimeoutActions, Modes, Verdicts, NoVerdict,
        HumanSources, LlmSources, AskSources, Actors, Sources, Notices

-----------------------------------------------------------------------------
(* The pure rules *)

LEMMA ActionTypes ==
  /\ \A a \in Actions : OutcomeOf(a) \in Outcomes
  /\ \A o \in Outcomes : ActionOf(o) \in Actions
BY DEF OutcomeOf, ActionOf

LEMMA TimedOutActionType ==
  ASSUME NEW r, NEW t, NEW u PROVE RiskTimedOutAction(r, t, u) \in Actions
BY DEF RiskTimedOutAction

LEMMA SourceType ==
  ASSUME NEW o, NEW t, NEW m, NEW a, NEW v
  PROVE  ApprovalSource(o, t, m, a, v) \in Sources
BY DEF ApprovalSource, ByOutcome, ReviewerAutoAllowBlocked

\* Both counters move together.
LEMMA BreakerType ==
  ASSUME NEW n \in Nat, NEW m \in Nat, NEW source, NEW decided
  PROVE  LET after == ApplyBreaker([consecutive |-> n, total |-> m], source, decided) IN
         /\ after.consecutive \in Nat /\ after.total \in Nat
         /\ n = m => after.consecutive = after.total
BY DEF ApplyBreaker, BreakerReset, BreakerIncrement

LEMMA FollowType ==
  ASSUME NEW s \in Statuses, NEW o \in Outcomes, NEW t \in BOOLEAN, NEW a \in BOOLEAN
  PROVE  /\ FollowResolution(s, o, t, a) \in Statuses
         /\ FollowResolution(s, o, t, a).phase = "follow"
BY ActionTypes DEF FollowResolution, Statuses

LEMMA LearnedType ==
  ASSUME NEW n \in Nat, NEW a PROVE Learned(n, a) \in Nat
BY DEF Learned

LEMMA StatusTypes ==
  /\ NoStatus \in Statuses
  /\ \A a \in Actions : Countdown(a) \in Statuses /\ LlmFollow(a) \in Statuses
BY DEF NoStatus, Countdown, LlmFollow, Statuses

LEMMA ShapeTypes ==
  /\ PlainAsk \in Shapes /\ NoAsk \in Shapes /\ BreakerAsk \in Shapes
  /\ LoopAsk \in Shapes /\ LockedAsk \in Shapes
  /\ \A l \in BOOLEAN : DirectAsk(l) \in Shapes
  /\ \A r \in Risks, u \in BOOLEAN : LearningAsk(r, u) \in Shapes
BY DEF PlainAsk, NoAsk, BreakerAsk, LoopAsk, LockedAsk, DirectAsk, LearningAsk, Shapes

LEMMA CountdownAskType ==
  ASSUME NEW risk \in Risks, NEW t, NEW reviews \in BOOLEAN, NEW takeover \in BOOLEAN,
         NEW unattended \in BOOLEAN, NEW learns \in BOOLEAN
  PROVE  CountdownAsk(risk, t, reviews, takeover, unattended, learns) \in Shapes
<1>1. RiskTimedOutAction(risk, t, unattended) \in Actions
  BY TimedOutActionType
<1>2. (reviews /\ risk # "HIGH") \in BOOLEAN
      /\ (IF learns THEN "source" ELSE "no") \in {"no", "source"}
  OBVIOUS
<1>3. ASSUME NEW a \in Actions, NEW h \in BOOLEAN, NEW l \in {"no", "source"}
      PROVE  [LoopAsk EXCEPT !.risk = risk, !.action = a, !.handled = h,
                             !.takeover = takeover, !.unattended = unattended,
                             !.learns = l] \in Shapes
  BY DEF LoopAsk, PlainAsk, Shapes
<1>. QED BY <1>1, <1>2, <1>3 DEF CountdownAsk

LEMMA ShapeFields ==
  ASSUME NEW s \in Shapes
  PROVE  /\ s.kind \in {"none", "plain", "countdown"} /\ s.risk \in Risks
         /\ s.action \in Actions /\ s.handled \in BOOLEAN
         /\ s.takeover \in BOOLEAN /\ s.unattended \in BOOLEAN
BY DEF Shapes

LEMMA ResultType ==
  ASSUME NEW o \in Outcomes, NEW r \in Outcomes, NEW s \in Sources, NEW by \in Actors
  PROVE  [outcome |-> o, raced |-> r, source |-> s, by |-> by] \in Results
BY DEF Results

LEMMA StatusUpdate ==
  ASSUME NEW c \in Calls, NEW status \in Statuses, reviewStates \in [Calls -> Statuses]
  PROVE  [reviewStates EXCEPT ![c] = status] \in [Calls -> Statuses]
OBVIOUS

LEMMA NotingType ==
  ASSUME NEW c \in Calls, NEW fb \in [Calls -> Notices], NEW n \in Notices
  PROVE  Noting(fb, c, n) \in [Calls -> Notices]
BY DEF Noting

LEMMA LineType ==
  ASSUME NEW c \in Calls, audit \in [Calls -> Seq([outcome : Outcomes, source : Sources])],
         NEW o \in Outcomes, NEW s \in Sources
  PROVE  Audited(c, Line(o, s)) \in [Calls -> Seq([outcome : Outcomes, source : Sources])]
BY DEF Audited, Line

-----------------------------------------------------------------------------
(* Type correctness *)

\* What the admission of a request may change.
AdmissionTypes ==
  /\ pc \in [Calls -> {"idle", "learning", "asking", "done"}]
  /\ ask \in [Calls -> Shapes]
  /\ held \subseteq Calls /\ reviewing \subseteq Calls
  /\ reviewStates \in [Calls -> Statuses]
  /\ reviewSessions \subseteq Calls
  /\ decisionFeedback \in [Calls -> Notices]
  /\ audit \in [Calls -> Seq([outcome : Outcomes, source : Sources])]
  /\ result \in [Calls -> Results]

LEMMA AutoAllowTypes ==
  ASSUME NEW c \in Calls, AdmissionTypes, NEW source \in Sources,
         NEW fb \in [Calls -> Notices], AutoAllow(c, source, fb)
  PROVE  AdmissionTypes'
<1>. DEFINE line == Audited(c, Line("allowed-once", source))
<1>1. /\ line \in [Calls -> Seq([outcome : Outcomes, source : Sources])]
      /\ Noting(fb, c, "audit") \in [Calls -> Notices]
  BY LineType, NotingType DEF AdmissionTypes
<1>2. ASSUME NEW o \in Outcomes, Return(c, o, "allowed-once", source, "static")
      PROVE  /\ pc' \in [Calls -> {"idle", "learning", "asking", "done"}]
             /\ result' \in [Calls -> Results]
  BY <1>2, ResultType DEF AdmissionTypes, Return
<1>3. /\ audit' \in {audit, line} /\ decisionFeedback' \in {fb, Noting(fb, c, "audit")}
      /\ \E o \in Outcomes : Return(c, o, "allowed-once", source, "static")
      /\ UNCHANGED <<ask, held, reviewing, reviewStates, reviewSessions>>
  BY DEF AutoAllow
<1>. HIDE DEF line
<1>. QED BY <1>1, <1>2, <1>3 DEF AdmissionTypes

LEMMA OpenAskTypes ==
  ASSUME NEW c \in Calls, AdmissionTypes, NEW shape \in Shapes, OpenAsk(c, shape)
  PROVE  /\ pc' \in [Calls -> {"idle", "learning", "asking", "done"}]
         /\ ask' \in [Calls -> Shapes] /\ held' \subseteq Calls
         /\ reviewStates' \in [Calls -> Statuses] /\ reviewSessions' \subseteq Calls
<1>1. CASE shape.kind = "countdown"
  <2>1. Countdown(shape.action) \in Statuses
    BY StatusTypes, ShapeFields
  <2>. QED BY <1>1, <2>1 DEF AdmissionTypes, OpenAsk
<1>2. CASE shape.kind # "countdown"
  BY <1>2 DEF AdmissionTypes, OpenAsk
<1>. QED BY <1>1, <1>2

LEMMA AskOnlyTypes ==
  ASSUME NEW c \in Calls, AdmissionTypes, NEW shape \in Shapes,
         NEW fb \in [Calls -> Notices], AskOnly(c, shape, fb)
  PROVE  AdmissionTypes'
BY OpenAskTypes DEF AdmissionTypes, AskOnly

LEMMA LoopLaneTypes ==
  ASSUME NEW c \in Calls, AdmissionTypes, NEW fb \in [Calls -> Notices], LoopLane(c, fb)
  PROVE  AdmissionTypes'
BY ShapeTypes, AskOnlyTypes DEF LoopLane

LEMMA RiskBranchTypes ==
  ASSUME NEW c \in Calls, AdmissionTypes, NEW risk \in Risks, NEW learns \in BOOLEAN,
         NEW unattended \in BOOLEAN, NEW fb \in [Calls -> Notices],
         RiskBranch(c, risk, learns, unattended, fb)
  PROVE  AdmissionTypes'
<1>1. ASSUME NEW shape \in Shapes, OpenAsk(c, shape), NEW reviews \in BOOLEAN,
             reviewing' = IF reviews THEN reviewing \cup {c} ELSE reviewing,
             decisionFeedback' = fb, UNCHANGED <<audit, result>>
      PROVE  AdmissionTypes'
  <2>1. reviewing' \subseteq Calls
    BY <1>1 DEF AdmissionTypes
  <2>. QED BY <1>1, <2>1, OpenAskTypes DEF AdmissionTypes
<1>2. CASE AutoAllow(c, "auto-allow", fb)
  BY <1>2, AutoAllowTypes
<1>3. CASE LoopLane(c, fb)
  BY <1>3, LoopLaneTypes
<1>. QED BY <1>1, <1>2, <1>3, CountdownAskType DEF RiskBranch

LEMMA OrdinaryLaneTypes ==
  ASSUME NEW c \in Calls, AdmissionTypes, OrdinaryLane(c)
  PROVE  AdmissionTypes'
<1>1. decisionFeedback \in [Calls -> Notices]
  BY DEF AdmissionTypes
<1>2. CASE AskOnly(c, PlainAsk, decisionFeedback) \/ AskOnly(c, BreakerAsk, decisionFeedback)
  BY <1>1, <1>2, ShapeTypes, AskOnlyTypes
<1>3. ASSUME NEW risk \in RiskInputs, NEW learns \in BOOLEAN, NEW unattended \in BOOLEAN,
             RiskBranch(c, risk, learns, unattended, decisionFeedback)
      PROVE  AdmissionTypes'
  BY <1>1, <1>3, RiskBranchTypes, AnswererAssumption
<1>4. ASSUME NEW risk \in RiskInputs, NEW unattended \in BOOLEAN,
             pc' = [pc EXCEPT ![c] = "learning"],
             ask' = [ask EXCEPT ![c] = LearningAsk(risk, unattended)],
             UNCHANGED <<held, reviewing, reviewStates, reviewSessions,
                         decisionFeedback, audit, result>>
      PROVE  AdmissionTypes'
  BY <1>4, ShapeTypes, AnswererAssumption DEF AdmissionTypes
<1>. QED BY <1>2, <1>3, <1>4 DEF OrdinaryLane

LEMMA RequestTypes == ASSUME NEW c \in Calls, TypeOK, Request(c) PROVE TypeOK'
<1>1. AdmissionTypes
  BY DEF TypeOK, AdmissionTypes
<1>2. decisionFeedback \in [Calls -> Notices]
  BY DEF TypeOK
<1>3. AdmissionTypes'
  <2>1. CASE DenyLane(c)
    <3>1. Audited(c, Line("rejected", "static-deny"))
            \in [Calls -> Seq([outcome : Outcomes, source : Sources])]
      BY <1>1, LineType DEF AdmissionTypes
    <3>. QED BY <1>1, <1>2, <2>1, <3>1, NotingType, ResultType
             DEF AdmissionTypes, DenyLane, Return
  <2>2. CASE AutoAllow(c, "static-allow", decisionFeedback)
    BY <1>1, <1>2, <2>2, AutoAllowTypes
  <2>3. ASSUME NEW shape \in Shapes, AskOnly(c, shape, decisionFeedback)
        PROVE  AdmissionTypes'
    BY <1>1, <1>2, <2>3, AskOnlyTypes
  <2>4. CASE LoopLane(c, decisionFeedback)
    BY <1>1, <1>2, <2>4, LoopLaneTypes
  <2>5. CASE OrdinaryLane(c)
    BY <1>1, <2>5, OrdinaryLaneTypes
  <2>. QED BY <2>1, <2>2, <2>3, <2>4, <2>5, ShapeTypes DEF Request
<1>. QED BY <1>3 DEF AdmissionTypes, TypeOK, Request, marks, counters, browser

LEMMA LearnReturnsTypes ==
  ASSUME NEW c \in Calls, NEW v, TypeOK, LearnReturns(c, v) PROVE TypeOK'
<1>1. AdmissionTypes /\ ask[c].risk \in Risks /\ ask[c].unattended \in BOOLEAN
  BY DEF TypeOK, AdmissionTypes, Shapes
<1>2. decisionFeedback \in [Calls -> Notices]
      /\ Noting(decisionFeedback, c, "audit") \in [Calls -> Notices]
  BY NotingType DEF TypeOK
<1>3. AdmissionTypes'
  <2>1. ASSUME NEW fb \in [Calls -> Notices],
               RiskBranch(c, ask[c].risk, TRUE, ask[c].unattended, fb)
        PROVE  AdmissionTypes'
    BY <1>1, <2>1, RiskBranchTypes
  <2>2. ASSUME audit' = Audited(c, Line("allowed-once", "learned-allow")),
               Return(c, "allowed-once", "allowed-once", "learned-allow", "learned"),
               UNCHANGED <<ask, held, reviewing, reviewStates, reviewSessions,
                           decisionFeedback>>
        PROVE  AdmissionTypes'
    BY <1>1, <2>2, LineType, ResultType DEF AdmissionTypes, Return
  <2>. QED BY <1>2, <2>1, <2>2 DEF LearnReturns
<1>4. sessionLearnedAllows' \in [Sessions -> Nat]
  <2>1. SessionOf[c] \in Sessions /\ sessionLearnedAllows \in [Sessions -> Nat]
    BY AnswererAssumption DEF TypeOK
  <2>2. \/ sessionLearnedAllows' = sessionLearnedAllows
        \/ sessionLearnedAllows' = [sessionLearnedAllows EXCEPT ![SessionOf[c]] = @ + 1]
    BY DEF LearnReturns
  <2>. QED BY <2>1, <2>2
<1>. QED BY <1>3, <1>4 DEF AdmissionTypes, TypeOK, LearnReturns, marks, browser

\* What a settlement may change.
SettleTypes ==
  /\ pc \in [Calls -> {"idle", "learning", "asking", "done"}]
  /\ held \subseteq Calls
  /\ reviewStates \in [Calls -> Statuses] /\ followExpiry \subseteq Calls
  /\ reviewVerdicts \in [Calls -> Verdicts \cup {NoVerdict}]
  /\ resolvedCallIds \subseteq Calls /\ autoAnsweredCallIds \subseteq Calls
  /\ decisionFeedback \in [Calls -> Notices]
  /\ denials \in [Sessions -> Nat] /\ totalDenials \in [Sessions -> Nat]
  /\ learning \in [Keys -> Nat]
  /\ audit \in [Calls -> Seq([outcome : Outcomes, source : Sources])]
  /\ result \in [Calls -> Results]

LEMMA SettleTyped ==
  ASSUME NEW c \in Calls, TypeOK, NEW raced \in Outcomes, NEW by \in Actors,
         NEW verdict, NEW status \in Statuses, NEW fb \in [Calls -> Notices],
         Settle(c, raced, by, verdict, status, fb)
  PROVE  SettleTypes' /\ (RailsCoincide => RailsCoincide')
<1>. DEFINE s == SessionOf[c]
            source == ApprovalSource(raced, by = "timer", by = "reviewer",
                                     c \in autoAnsweredCallIds, verdict)
            counts == ApplyBreaker([consecutive |-> denials[s], total |-> totalDenials[s]],
                                   source, ask[c].handled)
            follow == FollowResolution(status, raced, by = "timer", FALSE)
<1>1. source \in Sources
  BY SourceType
<1>2. s \in Sessions /\ KeyOf[c] \in Keys
  BY AnswererAssumption
<1>3. /\ counts.consecutive \in Nat /\ counts.total \in Nat
      /\ denials[s] = totalDenials[s] => counts.consecutive = counts.total
  BY <1>2, BreakerType DEF TypeOK
<1>4. follow \in Statuses
  BY FollowType
<1>5. /\ held' = held \ {c}
      /\ reviewStates' \in {reviewStates, [reviewStates EXCEPT ![c] = follow]}
      /\ followExpiry' \in {followExpiry, followExpiry \cup {c}}
      /\ resolvedCallIds' = resolvedCallIds \cup {c}
      /\ autoAnsweredCallIds' = autoAnsweredCallIds \ {c}
      /\ reviewVerdicts' = [reviewVerdicts EXCEPT ![c] = NoVerdict]
  BY DEF Settle
<1>6. /\ denials' = [denials EXCEPT ![s] = counts.consecutive]
      /\ totalDenials' = [totalDenials EXCEPT ![s] = counts.total]
  BY DEF Settle
<1>7. PICK audited \in BOOLEAN :
        LET outcome == IF audited THEN raced ELSE "rejected" IN
        /\ audit' = IF audited THEN Audited(c, Line(raced, source)) ELSE audit
        /\ decisionFeedback' = IF audited THEN fb ELSE Noting(fb, c, "audit")
        /\ learning' = [learning EXCEPT ![KeyOf[c]] =
                          Learned(@, LearnAction(c, source, outcome, audited))]
        /\ Return(c, outcome, raced, source, by)
  BY DEF Settle
<1>. HIDE DEF source, counts, follow, s
<1>8. audit' \in [Calls -> Seq([outcome : Outcomes, source : Sources])]
  BY <1>1, <1>7, LineType DEF TypeOK
<1>9. decisionFeedback' \in [Calls -> Notices]
  BY <1>7, NotingType
<1>10. learning' \in [Keys -> Nat]
  BY <1>2, <1>7, LearnedType DEF TypeOK
<1>11. pc' \in [Calls -> {"idle", "learning", "asking", "done"}]
       /\ result' \in [Calls -> Results]
  BY <1>1, <1>7, ResultType DEF TypeOK, Return
<1>12. denials' \in [Sessions -> Nat] /\ totalDenials' \in [Sessions -> Nat]
       /\ (RailsCoincide => RailsCoincide')
  BY <1>2, <1>3, <1>6 DEF TypeOK, RailsCoincide
<1>13. reviewStates' \in [Calls -> Statuses]
  <2>1. reviewStates \in [Calls -> Statuses]
    BY DEF TypeOK
  <2>. QED BY <1>4, <1>5, <2>1, StatusUpdate
<1>14. /\ held' \subseteq Calls /\ followExpiry' \subseteq Calls
       /\ resolvedCallIds' \subseteq Calls /\ autoAnsweredCallIds' \subseteq Calls
  BY <1>5 DEF TypeOK
<1>15. reviewVerdicts' \in [Calls -> Verdicts \cup {NoVerdict}]
  BY <1>5 DEF TypeOK
<1>. QED BY <1>8, <1>9, <1>10, <1>11, <1>12, <1>13, <1>14, <1>15 DEF SettleTypes

LEMMA ClaimsType ==
  ASSUME NEW c \in Calls, NEW v, Claims(c, v) # "none" PROVE Claims(c, v) \in Outcomes
BY DEF Claims

LEMMA ClaimFeedbackType ==
  ASSUME NEW c \in Calls, NEW v, decisionFeedback \in [Calls -> Notices]
  PROVE  ClaimFeedback(c, v) \in [Calls -> Notices]
BY NotingType DEF ClaimFeedback, ClaimNotice

\* A step that types what it changes and leaves the rest alone.
Typed == TypeOK' /\ (RailsCoincide => RailsCoincide')

USE DEF statusMaps, marks, feedback, counters, records, browser, history

LEMMA HumanAnswersTyped ==
  ASSUME NEW c \in Calls, TypeOK, NEW o \in Outcomes, HumanAnswers(c, o) PROVE Typed
<1>1. SettleTypes' /\ (RailsCoincide => RailsCoincide')
  BY SettleTyped DEF HumanAnswers, TypeOK
<1>. QED BY <1>1 DEF HumanAnswers, TypeOK, SettleTypes, Typed

LEMMA ClientRespondsTyped ==
  ASSUME NEW c \in Calls, TypeOK, ClientResponds(c) PROVE Typed
<1>1. OutcomeOf(ask[c].action) \in Outcomes
  BY ActionTypes, ShapeFields DEF TypeOK
<1>2. SettleTypes' /\ (RailsCoincide => RailsCoincide')
  BY <1>1, SettleTyped DEF ClientResponds, TypeOK
<1>. QED BY <1>2 DEF ClientResponds, TypeOK, SettleTypes, Typed

LEMMA TimerFiresTyped ==
  ASSUME NEW c \in Calls, TypeOK, TimerFires(c) PROVE Typed
<1>1. OutcomeOf(ask[c].action) \in Outcomes
  BY ActionTypes, ShapeFields DEF TypeOK
<1>2. SettleTypes' /\ (RailsCoincide => RailsCoincide')
  BY <1>1, SettleTyped DEF TimerFires, TypeOK
<1>. QED BY <1>2 DEF TimerFires, TypeOK, SettleTypes, Typed

LEMMA ReviewTakesOverTyped ==
  ASSUME NEW c \in Calls, TypeOK, NEW v \in Verdicts, ReviewTakesOver(c, v) PROVE Typed
<1>1. /\ Claims(c, v) \in Outcomes
      /\ LlmFollow(ActionOf(Claims(c, v))) \in Statuses
      /\ ClaimFeedback(c, v) \in [Calls -> Notices]
  BY ClaimsType, ActionTypes, StatusTypes, ClaimFeedbackType DEF ReviewTakesOver, TypeOK
<1>2. /\ reviewing' \subseteq Calls
      /\ said' \in [Calls -> Verdicts \cup {NoVerdict}]
      /\ UNCHANGED <<ask, reviewSessions, timeoutFeedback, reviewModes,
                     sessionLearnedAllows, browser, wiped, posted, told>>
  BY DEF ReviewTakesOver, ReviewerAnswers, TypeOK
<1>3. SettleTypes' /\ (RailsCoincide => RailsCoincide')
  <2>1. CASE Settle(c, Claims(c, v), "reviewer", v,
                    LlmFollow(ActionOf(Claims(c, v))), ClaimFeedback(c, v))
    BY <1>1, <2>1, SettleTyped
  <2>2. CASE /\ reviewStates' = [reviewStates EXCEPT ![c] =
                                   LlmFollow(ActionOf(Claims(c, v)))]
             /\ reviewVerdicts' = [reviewVerdicts EXCEPT ![c] = v]
             /\ followExpiry' = followExpiry \cup {c}
             /\ decisionFeedback' = ClaimFeedback(c, v)
             /\ UNCHANGED <<pc, held, marks, denials, totalDenials, records, result>>
    BY <1>1, <2>2 DEF TypeOK, SettleTypes, RailsCoincide
  <2>. QED BY <2>1, <2>2 DEF ReviewTakesOver
<1>. QED BY <1>2, <1>3 DEF TypeOK, SettleTypes, Typed

LEMMA ReviewTyped ==
  ASSUME NEW c \in Calls, TypeOK, NEW v \in Verdicts,
         ReviewDiscarded(c, v) \/ ReviewAdvises(c, v) \/ ReviewErrors(c)
  PROVE  Typed
<1>1. reviewing' \subseteq Calls /\ said' \in [Calls -> Verdicts \cup {NoVerdict}]
  <2>1. reviewing \subseteq Calls /\ said \in [Calls -> Verdicts \cup {NoVerdict}]
    BY DEF TypeOK
  <2>2. reviewing' = reviewing \ {c}
    BY DEF ReviewDiscarded, ReviewAdvises, ReviewErrors, ReviewerAnswers
  <2>3. said' = said \/ said' = [said EXCEPT ![c] = v]
    BY DEF ReviewDiscarded, ReviewAdvises, ReviewErrors, ReviewerAnswers
  <2>. QED BY <2>1, <2>2, <2>3
<1>2. reviewVerdicts' \in [Calls -> Verdicts \cup {NoVerdict}]
  BY DEF ReviewDiscarded, ReviewAdvises, ReviewErrors, TypeOK
<1>3. UNCHANGED <<pc, ask, held, reviewStates, reviewSessions, followExpiry, marks,
                  feedback, reviewModes, counters, records, browser, result, wiped,
                  posted, told>>
  BY DEF ReviewDiscarded, ReviewAdvises, ReviewErrors
<1>. QED BY <1>1, <1>2, <1>3 DEF TypeOK, Typed, RailsCoincide

LEMMA AbortTyped ==
  ASSUME NEW c \in Calls, TypeOK, Abort(c) \/ AbortAfterClaim(c) PROVE Typed
<1>1. ASSUME NEW status \in Statuses, NEW fb \in [Calls -> Notices],
             AbortWith(c, status, fb), reviewing' \subseteq Calls,
             said' \in [Calls -> Verdicts \cup {NoVerdict}]
      PROVE  Typed
  <2>1. FollowResolution(status, "rejected", FALSE, TRUE) \in Statuses
    BY FollowType
  <2>2. reviewStates' \in [Calls -> Statuses] /\ followExpiry' \subseteq Calls
    <3>1. \/ UNCHANGED <<reviewStates, followExpiry>>
          \/ /\ reviewStates' = [reviewStates EXCEPT ![c] =
                                   FollowResolution(status, "rejected", FALSE, TRUE)]
             /\ followExpiry' = followExpiry \cup {c}
      BY <1>1 DEF AbortWith
    <3>2. reviewStates \in [Calls -> Statuses] /\ followExpiry \subseteq Calls
      BY DEF TypeOK
    <3>. QED BY <2>1, <3>1, <3>2, StatusUpdate
  <2>3. Aborted \in Results
    BY DEF Aborted, Results
  <2>. QED BY <1>1, <2>2, <2>3 DEF AbortWith, TypeOK, Typed, RailsCoincide
<1>2. CASE Abort(c)
  BY <1>1, <1>2 DEF Abort, TypeOK
<1>3. CASE AbortAfterClaim(c)
  <2>1. LlmFollow("reject") \in Statuses
        /\ ClaimFeedback(c, "FAILURE") \in [Calls -> Notices]
    BY StatusTypes, ClaimFeedbackType DEF TypeOK
  <2>2. reviewing' \subseteq Calls /\ said' \in [Calls -> Verdicts \cup {NoVerdict}]
    BY <1>3 DEF AbortAfterClaim, ReviewerAnswers, TypeOK
  <2>. QED BY <1>1, <1>3, <2>1, <2>2 DEF AbortAfterClaim
<1>. QED BY <1>2, <1>3

LEMMA BrowserTyped ==
  ASSUME NEW c \in Calls, TypeOK,
         ClientDecides(c) \/ StrayPost(c) \/ FeedbackPost(c) \/ PostLost(c)
  PROVE  Typed
<1>1. CASE FeedbackPost(c)
  <2>1. reviewStates' \in [Calls -> Statuses] /\ followExpiry' \subseteq Calls
    <3>1. reviewStates \in [Calls -> Statuses] /\ followExpiry \subseteq Calls
      BY DEF TypeOK
    <3>2. \/ UNCHANGED <<reviewStates, followExpiry>>
          \/ /\ reviewStates' = [reviewStates EXCEPT ![c] = NoStatus]
             /\ followExpiry' = followExpiry \ {c}
      BY <1>1 DEF FeedbackPost
    <3>. QED BY <3>1, <3>2, StatusTypes, StatusUpdate
  <2>2. /\ autoAnsweredCallIds' \subseteq Calls /\ timeoutFeedback' \subseteq Calls
        /\ posted' \subseteq Calls /\ posts' \subseteq Calls
    BY <1>1 DEF FeedbackPost, TypeOK
  <2>. QED BY <1>1, <2>1, <2>2 DEF FeedbackPost, TypeOK, Typed, RailsCoincide
<1>2. CASE ClientDecides(c) \/ StrayPost(c) \/ PostLost(c)
  BY <1>2 DEF ClientDecides, StrayPost, PostLost, TypeOK, Typed, RailsCoincide
<1>. QED BY <1>1, <1>2

LEMMA SweepTyped ==
  ASSUME NEW c \in Calls, TypeOK, PanelOpens(c) \/ Sweep(c) \/ FeedbackExpires(c)
  PROVE  Typed
<1>1. CASE FeedbackExpires(c)
  <2>1. timeoutFeedback' \subseteq Calls /\ decisionFeedback' \in [Calls -> Notices]
    <3>1. Noting(decisionFeedback, c, "none") \in [Calls -> Notices]
      BY NotingType DEF TypeOK
    <3>2. \/ decisionFeedback' = Noting(decisionFeedback, c, "none")
             /\ timeoutFeedback' = timeoutFeedback
          \/ timeoutFeedback' = timeoutFeedback \ {c}
             /\ decisionFeedback' = decisionFeedback
      BY <1>1 DEF FeedbackExpires
    <3>. QED BY <3>1, <3>2 DEF TypeOK
  <2>. QED BY <1>1, <2>1 DEF FeedbackExpires, TypeOK, Typed, RailsCoincide
<1>2. CASE SweepFollow(c)
  <2>1. reviewStates' \in [Calls -> Statuses]
    <3>1. reviewStates \in [Calls -> Statuses]
      BY DEF TypeOK
    <3>. QED BY <1>2, <3>1, StatusTypes, StatusUpdate DEF SweepFollow
  <2>. QED BY <1>2, <2>1 DEF SweepFollow, TypeOK, Typed, RailsCoincide
<1>3. CASE PanelOpens(c)
  BY <1>3 DEF PanelOpens, TypeOK, Typed, RailsCoincide
<1>4. CASE SweepResolved(c)
  BY <1>4 DEF SweepResolved, TypeOK, Typed, RailsCoincide
<1>5. CASE SweepAuto(c)
  BY <1>5 DEF SweepAuto, TypeOK, Typed, RailsCoincide
<1>. QED BY <1>1, <1>2, <1>3, <1>4, <1>5 DEF Sweep

LEMMA PostExecuteTyped ==
  ASSUME NEW c \in Calls, TypeOK, NEW e \in BOOLEAN, PostExecute(c, e) PROVE Typed
<1>1. told' \in [Calls -> Notices \cup {"pending", "timeout"}]
  BY DEF PostExecute, TypeOK
<1>. QED BY <1>1, NotingType DEF PostExecute, TypeOK, Typed, RailsCoincide

LEMMA CommandTyped ==
  ASSUME TypeOK,
         \/ ResetAll
         \/ \E s \in Sessions : \/ ResetSession(s) \/ SessionDisposed(s)
                                \/ \E m \in ModeInputs : SetReviewMode(s, m)
         \/ \E k \in Keys : LearningForgets(k)
  PROVE  Typed
<1>1. CASE ResetAll
  <2>1. /\ reviewStates' \in [Calls -> Statuses]
        /\ reviewVerdicts' \in [Calls -> Verdicts \cup {NoVerdict}]
        /\ decisionFeedback' \in [Calls -> Notices]
        /\ denials' \in [Sessions -> Nat] /\ totalDenials' \in [Sessions -> Nat]
        /\ denials' = totalDenials' /\ wiped' \subseteq Calls
    BY <1>1, StatusTypes DEF ResetAll, TypeOK
  <2>. QED BY <1>1, <2>1 DEF ResetAll, TypeOK, Typed, RailsCoincide
<1>2. ASSUME NEW s \in Sessions, ResetSession(s) \/ SessionDisposed(s) PROVE Typed
  <2>1. /\ denials' = [denials EXCEPT ![s] = 0]
        /\ totalDenials' = [totalDenials EXCEPT ![s] = 0]
        /\ \/ UNCHANGED <<sessionLearnedAllows, reviewModes>>
           \/ /\ sessionLearnedAllows' = [sessionLearnedAllows EXCEPT ![s] = 0]
              /\ reviewModes' = [reviewModes EXCEPT ![s] = "unset"]
        /\ UNCHANGED <<pc, ask, held, reviewing, statusMaps, marks, feedback,
                       records, browser, history>>
    BY <1>2 DEF ResetSession, SessionDisposed
  <2>2. /\ sessionLearnedAllows' \in [Sessions -> Nat]
        /\ reviewModes' \in [Sessions -> Modes \cup {"unset"}]
    <3>1. /\ sessionLearnedAllows \in [Sessions -> Nat]
          /\ reviewModes \in [Sessions -> Modes \cup {"unset"}]
      BY DEF TypeOK
    <3>2. CASE UNCHANGED <<sessionLearnedAllows, reviewModes>>
      BY <3>1, <3>2
    <3>3. CASE /\ sessionLearnedAllows' = [sessionLearnedAllows EXCEPT ![s] = 0]
               /\ reviewModes' = [reviewModes EXCEPT ![s] = "unset"]
      BY <3>1, <3>3
    <3>. QED BY <2>1, <3>2, <3>3
  <2>. QED BY <2>1, <2>2 DEF TypeOK, Typed, RailsCoincide
<1>3. ASSUME NEW s \in Sessions, NEW m \in ModeInputs, SetReviewMode(s, m) PROVE Typed
  BY <1>3, AnswererAssumption DEF SetReviewMode, TypeOK, Typed, RailsCoincide
<1>4. ASSUME NEW k \in Keys, LearningForgets(k) PROVE Typed
  BY <1>4 DEF LearningForgets, TypeOK, Typed, RailsCoincide
<1>. QED BY <1>1, <1>2, <1>3, <1>4

LEMMA NextTyped == ASSUME TypeOK, [Next]_vars PROVE Typed
<1>1. CASE UNCHANGED vars
  BY <1>1 DEF vars, TypeOK, Typed, RailsCoincide
<1>2. ASSUME NEW c \in Calls, Request(c) PROVE Typed
  BY <1>2, RequestTypes DEF Request, Typed, RailsCoincide
<1>3. ASSUME NEW c \in Calls, NEW v \in VerdictInputs, LearnReturns(c, v) PROVE Typed
  BY <1>3, LearnReturnsTypes DEF LearnReturns, Typed, RailsCoincide
<1>4. ASSUME NEW c \in Calls, Reviewer(c) PROVE Typed
  BY <1>4, ReviewTyped, ReviewTakesOverTyped, AnswererAssumption DEF Reviewer
<1>5. ASSUME NEW c \in Calls, Browser(c) PROVE Typed
  BY <1>5, BrowserTyped, ClientRespondsTyped DEF Browser
<1>6. ASSUME NEW c \in Calls,
             \/ PanelOpens(c) \/ \E o \in Outcomes : HumanAnswers(c, o)
             \/ TimerFires(c) \/ Abort(c) \/ AbortAfterClaim(c)
             \/ Sweep(c) \/ FeedbackExpires(c)
             \/ \E e \in BOOLEAN : PostExecute(c, e)
      PROVE  Typed
  BY <1>6, HumanAnswersTyped, TimerFiresTyped, AbortTyped, SweepTyped, PostExecuteTyped
<1>. QED BY <1>1, <1>2, <1>3, <1>4, <1>5, <1>6, CommandTyped DEF Next

LEMMA InitTyped == Init => TypeOK /\ RailsCoincide
<1>. SUFFICES ASSUME Init PROVE TypeOK /\ RailsCoincide
  OBVIOUS
<1>1. \A c \in Calls : <<>> \in Seq([outcome : Outcomes, source : Sources])
  OBVIOUS
<1>2. NoResult \in Results
  BY DEF NoResult, Results
<1>. QED BY <1>1, <1>2, StatusTypes, ShapeTypes DEF Init, TypeOK, RailsCoincide

\* The state of the answerer keeps its type.
THEOREM TypesHold == Spec => []TypeOK
<1>1. TypeOK /\ [Next]_vars => TypeOK'
  BY NextTyped DEF Typed
<1>. QED BY <1>1, InitTyped, PTL DEF Spec

\* The two breaker counters of every session are equal for ever, whatever the
\* limits: of the two limits the smaller one decides alone.
THEOREM RailsAlwaysCoincide == Spec => []RailsCoincide
<1>1. TypeOK /\ RailsCoincide /\ [Next]_vars => (TypeOK /\ RailsCoincide)'
  BY NextTyped DEF Typed
<1>. QED BY <1>1, InitTyped, PTL DEF Spec

-----------------------------------------------------------------------------
(***************************************************************************)
(* The safety of a single ask: its audit trail, the maps it leaves behind  *)
(* and the two fail-closed rules.                                          *)
(*                                                                         *)
(* The four properties are not inductive.  Safe(c) adds what ties an ask   *)
(* to its life: nothing exists before the ask opens, a reviewer runs only  *)
(* for a countdown it is wired to or a HIGH one, an unattended HIGH ask    *)
(* rejects on timeout, and an open countdown stays published unless a      *)
(* global reset dropped it.  A step of one call leaves Safe of every other *)
(* call alone, because all it reads of a call is Local to it.              *)
(***************************************************************************)
USE DEF statusMaps, marks, feedback, counters, records, browser, history, NoVerdict

Unreviewed == {"FAILURE", "ALLOW-CRITICAL"}

\* The life of an ask.
Lifecycle(c) ==
  /\ pc[c] # "done" => result[c] = NoResult /\ audit[c] = <<>>
  /\ pc[c] \in {"idle", "learning"} =>
       /\ ask[c].kind = "none"
       /\ said[c] = NoVerdict /\ reviewVerdicts[c] = NoVerdict
       /\ reviewStates[c].phase = "none"
       /\ c \notin reviewing \cup held \cup followExpiry \cup wiped
  /\ pc[c] = "idle" => ask[c] = NoAsk
  /\ pc[c] = "asking" => ask[c].kind # "none"
  /\ c \in reviewing => /\ ask[c].kind = "countdown"
                        /\ ask[c].handled \/ ask[c].risk = "HIGH"
  /\ ask[c].unattended /\ ask[c].risk = "HIGH" => ask[c].action = "reject"

\* Its audit trail.
Trail(c) ==
  /\ audit[c] # <<>> =>
       /\ pc[c] = "done"
       /\ audit[c] = <<Line(result[c].outcome, result[c].source)>>
  /\ result[c].outcome = "allowed-once" => audit[c] # <<>>

\* What it publishes.
Published(c) ==
  /\ reviewStates[c].phase = "countdown" =>
       /\ pc[c] = "asking" /\ ask[c].kind = "countdown"
       /\ c \in reviewSessions
  /\ pc[c] = "asking" /\ ask[c].kind = "countdown" /\ c \notin wiped =>
       reviewStates[c].phase = "countdown"
  /\ reviewVerdicts[c] # NoVerdict => pc[c] = "asking"
  /\ c \in held => pc[c] = "asking" /\ ask[c].kind = "countdown"
  /\ reviewStates[c].phase = "follow" <=> c \in followExpiry
  /\ c \in followExpiry => pc[c] = "done"

\* Who may release it.
ClosedAt(c) ==
  /\ ask[c].kind # "none" /\ ask[c].action = "reject" /\ ~ask[c].handled
     /\ result[c].outcome = "allowed-once" => result[c].by = "human"
  /\ c \notin wiped /\ ask[c].unattended /\ said[c] \in Unreviewed =>
       /\ result[c].outcome = "allowed-once" => result[c].by = "human"
       /\ pc[c] = "done" \/ ask[c].action = "reject"

Safe(c) == Lifecycle(c) /\ Trail(c) /\ Published(c) /\ ClosedAt(c)

SafeInv == TypeOK /\ \A c \in Calls : Safe(c)

-----------------------------------------------------------------------------
(* What an ask's safety reads, and when another call's step leaves it alone *)

SameAsk(d) ==
  /\ pc'[d] = pc[d] /\ ask'[d] = ask[d] /\ audit'[d] = audit[d]
  /\ result'[d] = result[d] /\ said'[d] = said[d]
  /\ d \in wiped' <=> d \in wiped
SameMaps(d) ==
  /\ d \in held' <=> d \in held
  /\ d \in reviewing' <=> d \in reviewing
  /\ d \in reviewSessions' <=> d \in reviewSessions
  /\ d \in followExpiry' <=> d \in followExpiry
  /\ reviewStates'[d] = reviewStates[d] /\ reviewVerdicts'[d] = reviewVerdicts[d]

LEMMA Frame ==
  ASSUME NEW d \in Calls, Safe(d), SameAsk(d), SameMaps(d) PROVE Safe(d)'
BY DEF Safe, Lifecycle, Trail, Published, ClosedAt, SameAsk, SameMaps

\* Safe(c) is all a step of c has to restore.
Local(c) == \A d \in Calls \ {c} : SameAsk(d) /\ SameMaps(d)

LEMMA OneCall ==
  ASSUME NEW c \in Calls, \A d \in Calls : Safe(d), Local(c), Safe(c)'
  PROVE  \A d \in Calls : Safe(d)'
BY Frame DEF Local

LEMMA InitSafe == Init => \A c \in Calls : Safe(c)
BY DEF Init, Safe, Lifecycle, Trail, Published, ClosedAt, NoStatus, NoAsk, PlainAsk,
       NoResult, Unreviewed

-----------------------------------------------------------------------------
(* Admission *)

LEMMA StaticReturn ==
  ASSUME NEW c \in Calls, TypeOK, Safe(c), pc[c] \in {"idle", "learning"},
         NEW outcome \in Outcomes, NEW raced, NEW source, NEW by,
         Return(c, outcome, raced, source, by),
         \/ audit' = audit /\ outcome # "allowed-once"
         \/ audit' = Audited(c, Line(outcome, source)),
         UNCHANGED <<ask, held, reviewing, statusMaps, said, wiped>>
  PROVE  Safe(c)' /\ Local(c)
<1>1. /\ pc' = [pc EXCEPT ![c] = "done"]
      /\ result' = [result EXCEPT ![c] = [outcome |-> outcome, raced |-> raced,
                                          source |-> source, by |-> by]]
  BY DEF Return
<1>2. pc'[c] = "done" /\ result'[c].outcome = outcome /\ result'[c].source = source
  BY <1>1 DEF TypeOK
<1>3. audit[c] = <<>>
  BY DEF Safe, Lifecycle
<1>4. \/ audit'[c] = <<>> /\ outcome # "allowed-once"
      \/ audit'[c] = <<Line(outcome, source)>>
  BY <1>3 DEF TypeOK, Audited
<1>5. Local(c)
  BY <1>1 DEF TypeOK, Local, SameAsk, SameMaps, Audited
<1>6. Lifecycle(c)' /\ Published(c)'
  BY <1>2 DEF Safe, Lifecycle, Published
<1>7. Trail(c)'
  <2>1. CASE audit'[c] = <<>> /\ outcome # "allowed-once"
    BY <1>2, <2>1 DEF Trail
  <2>2. CASE audit'[c] = <<Line(outcome, source)>>
    <3>1. <<Line(outcome, source)>> # <<>>
      OBVIOUS
    <3>. QED BY <1>2, <2>2, <3>1 DEF Trail
  <2>. QED BY <1>4, <2>1, <2>2
<1>8. ClosedAt(c)'
  BY <1>2 DEF Safe, Lifecycle, ClosedAt, Unreviewed
<1>. QED BY <1>5, <1>6, <1>7, <1>8 DEF Safe

LEMMA AutoAllowSafe ==
  ASSUME NEW c \in Calls, TypeOK, Safe(c), pc[c] \in {"idle", "learning"},
         NEW source, NEW fb, AutoAllow(c, source, fb),
         UNCHANGED <<followExpiry, reviewVerdicts, said, wiped>>
  PROVE  Safe(c)' /\ Local(c)
BY StaticReturn DEF AutoAllow, Outcomes

LEMMA OpenAskSafe ==
  ASSUME NEW c \in Calls, TypeOK, Safe(c), pc[c] \in {"idle", "learning"},
         NEW shape \in Shapes, OpenAsk(c, shape), shape.kind # "none",
         shape.unattended /\ shape.risk = "HIGH" => shape.action = "reject",
         \/ reviewing' = reviewing
         \/ /\ reviewing' = reviewing \cup {c} /\ shape.kind = "countdown"
            /\ shape.handled \/ shape.risk = "HIGH",
         UNCHANGED <<followExpiry, reviewVerdicts, audit, result, said, wiped>>
  PROVE  Safe(c)' /\ Local(c)
<1>1. pc' = [pc EXCEPT ![c] = "asking"] /\ ask' = [ask EXCEPT ![c] = shape]
  BY DEF OpenAsk
<1>2. pc'[c] = "asking" /\ ask'[c] = shape
  BY <1>1 DEF TypeOK
<1>3. /\ result[c] = NoResult /\ audit[c] = <<>> /\ said[c] = NoVerdict
      /\ reviewVerdicts[c] = NoVerdict /\ reviewStates[c].phase = "none"
      /\ c \notin reviewing \cup held \cup followExpiry \cup wiped
  BY DEF Safe, Lifecycle
<1>4. /\ shape.kind = "countdown" => /\ reviewStates'[c].phase = "countdown"
                                     /\ c \in reviewSessions'
      /\ shape.kind # "countdown" => /\ reviewStates'[c].phase = "none"
                                     /\ c \notin held'
  BY <1>3 DEF TypeOK, OpenAsk, Countdown
<1>5. Local(c)
  BY <1>1 DEF TypeOK, OpenAsk, Local, SameAsk, SameMaps
<1>6. Lifecycle(c)'
  BY <1>2, <1>3 DEF Lifecycle
<1>7. Trail(c)' /\ Published(c)'
  BY <1>2, <1>3, <1>4 DEF Trail, Published, NoResult
<1>8. ClosedAt(c)'
  BY <1>2, <1>3 DEF ClosedAt, Unreviewed, NoResult
<1>. QED BY <1>5, <1>6, <1>7, <1>8 DEF Safe

LEMMA PinnedShapes ==
  /\ PlainAsk.kind # "none" /\ BreakerAsk.kind # "none"
  /\ LoopAsk.kind # "none" /\ LockedAsk.kind # "none"
  /\ ~PlainAsk.unattended /\ ~BreakerAsk.unattended
  /\ ~LoopAsk.unattended /\ ~LockedAsk.unattended
  /\ \A l \in BOOLEAN : DirectAsk(l).kind # "none" /\ ~DirectAsk(l).unattended
BY DEF PlainAsk, BreakerAsk, LoopAsk, LockedAsk, DirectAsk

LEMMA CountdownAskFields ==
  ASSUME NEW risk \in Risks, NEW t, NEW reviews \in BOOLEAN, NEW takeover \in BOOLEAN,
         NEW unattended \in BOOLEAN, NEW learns \in BOOLEAN
  PROVE  LET s == CountdownAsk(risk, t, reviews, takeover, unattended, learns) IN
         /\ s.kind = "countdown" /\ s.risk = risk
         /\ s.handled = (reviews /\ risk # "HIGH")
         /\ s.unattended = unattended
         /\ unattended /\ risk = "HIGH" => s.action = "reject"
BY DEF CountdownAsk, LoopAsk, PlainAsk, RiskTimedOutAction

LEMMA AskOnlySafe ==
  ASSUME NEW c \in Calls, TypeOK, Safe(c), pc[c] \in {"idle", "learning"},
         NEW shape \in Shapes, shape.kind # "none", ~shape.unattended,
         NEW fb, AskOnly(c, shape, fb),
         UNCHANGED <<followExpiry, reviewVerdicts, said, wiped>>
  PROVE  Safe(c)' /\ Local(c)
BY OpenAskSafe DEF AskOnly

LEMMA LoopLaneSafe ==
  ASSUME NEW c \in Calls, TypeOK, Safe(c), pc[c] \in {"idle", "learning"},
         NEW fb, LoopLane(c, fb), UNCHANGED <<followExpiry, reviewVerdicts, said, wiped>>
  PROVE  Safe(c)' /\ Local(c)
BY AskOnlySafe, ShapeTypes, PinnedShapes DEF LoopLane

LEMMA RiskBranchSafe ==
  ASSUME NEW c \in Calls, TypeOK, Safe(c), pc[c] \in {"idle", "learning"},
         NEW risk \in Risks, NEW learns \in BOOLEAN, NEW unattended \in BOOLEAN, NEW fb,
         RiskBranch(c, risk, learns, unattended, fb),
         UNCHANGED <<followExpiry, reviewVerdicts, said, wiped>>
  PROVE  Safe(c)' /\ Local(c)
<1>1. ASSUME NEW reviews \in BOOLEAN, NEW takeover \in BOOLEAN, NEW t,
             OpenAsk(c, CountdownAsk(risk, t, reviews, takeover, unattended, learns)),
             reviewing' = IF reviews THEN reviewing \cup {c} ELSE reviewing,
             UNCHANGED <<audit, result>>
      PROVE  Safe(c)' /\ Local(c)
  <2>. DEFINE s == CountdownAsk(risk, t, reviews, takeover, unattended, learns)
  <2>1. s \in Shapes
    BY CountdownAskType
  <2>2. /\ s.kind = "countdown" /\ s.risk = risk
        /\ s.handled = (reviews /\ risk # "HIGH") /\ s.unattended = unattended
        /\ unattended /\ risk = "HIGH" => s.action = "reject"
    BY CountdownAskFields
  <2>3. OpenAsk(c, s)
    BY <1>1
  <2>. HIDE DEF s
  <2>. QED BY <1>1, <2>1, <2>2, <2>3, OpenAskSafe
<1>2. CASE AutoAllow(c, "auto-allow", fb)
  BY <1>2, AutoAllowSafe
<1>3. CASE LoopLane(c, fb)
  BY <1>3, LoopLaneSafe
<1>. QED BY <1>1, <1>2, <1>3 DEF RiskBranch

LEMMA OrdinaryLaneSafe ==
  ASSUME NEW c \in Calls, TypeOK, Safe(c), pc[c] = "idle", OrdinaryLane(c),
         UNCHANGED <<followExpiry, reviewVerdicts, said, wiped>>
  PROVE  Safe(c)' /\ Local(c)
<1>1. CASE \/ AskOnly(c, PlainAsk, decisionFeedback)
           \/ AskOnly(c, BreakerAsk, decisionFeedback)
  BY <1>1, AskOnlySafe, ShapeTypes, PinnedShapes
<1>2. ASSUME NEW risk \in RiskInputs, NEW learns \in BOOLEAN, NEW unattended \in BOOLEAN,
             RiskBranch(c, risk, learns, unattended, decisionFeedback)
      PROVE  Safe(c)' /\ Local(c)
  BY <1>2, RiskBranchSafe, AnswererAssumption
<1>3. ASSUME NEW risk \in RiskInputs, NEW unattended \in BOOLEAN,
             pc' = [pc EXCEPT ![c] = "learning"],
             ask' = [ask EXCEPT ![c] = LearningAsk(risk, unattended)],
             UNCHANGED <<held, reviewing, reviewStates, reviewSessions,
                         decisionFeedback, audit, result>>
      PROVE  Safe(c)' /\ Local(c)
  <2>1. pc'[c] = "learning" /\ ask'[c] = LearningAsk(risk, unattended)
    BY <1>3 DEF TypeOK
  <2>2. /\ LearningAsk(risk, unattended).kind = "none"
        /\ LearningAsk(risk, unattended).action = "reject"
    BY DEF LearningAsk, NoAsk, PlainAsk
  <2>3. Local(c)
    BY <1>3 DEF TypeOK, Local, SameAsk, SameMaps
  <2>. QED BY <1>3, <2>1, <2>2, <2>3
           DEF Safe, Lifecycle, Trail, Published, ClosedAt, Unreviewed
<1>. QED BY <1>1, <1>2, <1>3 DEF OrdinaryLane

LEMMA RequestSafe ==
  ASSUME NEW c \in Calls, TypeOK, Safe(c), Request(c) PROVE Safe(c)' /\ Local(c)
<1>. /\ pc[c] = "idle"
     /\ UNCHANGED <<followExpiry, reviewVerdicts, said, wiped>>
  BY DEF Request
<1>1. CASE DenyLane(c)
  BY <1>1, StaticReturn DEF DenyLane, Outcomes
<1>2. CASE AutoAllow(c, "static-allow", decisionFeedback)
  BY <1>2, AutoAllowSafe
<1>3. CASE \/ AskOnly(c, PlainAsk, decisionFeedback)
           \/ AskOnly(c, LockedAsk, decisionFeedback)
           \/ \E l \in BOOLEAN : AskOnly(c, DirectAsk(l), decisionFeedback)
  BY <1>3, AskOnlySafe, ShapeTypes, PinnedShapes
<1>4. CASE LoopLane(c, decisionFeedback)
  BY <1>4, LoopLaneSafe
<1>5. CASE OrdinaryLane(c)
  BY <1>5, OrdinaryLaneSafe
<1>. QED BY <1>1, <1>2, <1>3, <1>4, <1>5 DEF Request

LEMMA LearnReturnsSafe ==
  ASSUME NEW c \in Calls, NEW v, TypeOK, Safe(c), LearnReturns(c, v)
  PROVE  Safe(c)' /\ Local(c)
<1>. /\ pc[c] = "learning"
     /\ UNCHANGED <<followExpiry, reviewVerdicts, said, wiped>>
  BY DEF LearnReturns
<1>1. ASSUME NEW fb, RiskBranch(c, ask[c].risk, TRUE, ask[c].unattended, fb)
      PROVE  Safe(c)' /\ Local(c)
  <2>1. ask[c].risk \in Risks /\ ask[c].unattended \in BOOLEAN
    BY ShapeFields DEF TypeOK
  <2>. QED BY <1>1, <2>1, RiskBranchSafe
<1>2. ASSUME audit' = Audited(c, Line("allowed-once", "learned-allow")),
             Return(c, "allowed-once", "allowed-once", "learned-allow", "learned"),
             UNCHANGED <<ask, held, reviewing, reviewStates, reviewSessions,
                         decisionFeedback>>
      PROVE  Safe(c)' /\ Local(c)
  BY <1>2, StaticReturn DEF Outcomes
<1>. QED BY <1>1, <1>2 DEF LearnReturns

-----------------------------------------------------------------------------
(* Settlement *)

LEMMA SettleSafe ==
  ASSUME NEW c \in Calls, TypeOK, Safe(c), pc[c] = "asking",
         NEW raced \in Outcomes, NEW by, NEW verdict, NEW status \in Statuses, NEW fb,
         Settle(c, raced, by, verdict, status, fb),
         reviewing' = reviewing \/ reviewing' = reviewing \ {c},
         said' = said \/ \E v : said' = [said EXCEPT ![c] = v],
         UNCHANGED <<ask, reviewSessions, wiped>>,
         raced = "allowed-once" /\ by # "human" =>
           /\ ask[c].action = "reject" => ask[c].handled
           /\ c \notin wiped /\ ask[c].unattended => said'[c] \notin Unreviewed
  PROVE  Safe(c)' /\ Local(c)
<1>. DEFINE source == ApprovalSource(raced, by = "timer", by = "reviewer",
                                     c \in autoAnsweredCallIds, verdict)
            follow == FollowResolution(status, raced, by = "timer", FALSE)
<1>1. PICK audited \in BOOLEAN :
        LET outcome == IF audited THEN raced ELSE "rejected" IN
        /\ audit' = IF audited THEN Audited(c, Line(raced, source)) ELSE audit
        /\ Return(c, outcome, raced, source, by)
  BY DEF Settle
<1>2. PICK outcome \in Outcomes :
        /\ outcome = IF audited THEN raced ELSE "rejected"
        /\ pc' = [pc EXCEPT ![c] = "done"]
        /\ result' = [result EXCEPT ![c] = [outcome |-> outcome, raced |-> raced,
                                            source |-> source, by |-> by]]
  BY <1>1 DEF Return, Outcomes
<1>3. follow.phase = "follow"
  BY FollowType
<1>4. /\ held' = held \ {c}
      /\ reviewVerdicts' = [reviewVerdicts EXCEPT ![c] = NoVerdict]
      /\ IF ask[c].kind = "countdown"
         THEN /\ reviewStates' = [reviewStates EXCEPT ![c] = follow]
              /\ followExpiry' = followExpiry \cup {c}
         ELSE UNCHANGED <<reviewStates, followExpiry>>
  BY DEF Settle
<1>. HIDE DEF source, follow
<1>5. /\ pc'[c] = "done" /\ result'[c].outcome = outcome
      /\ result'[c].source = source /\ result'[c].by = by
  BY <1>2 DEF TypeOK
<1>6. audit[c] = <<>> /\ result[c] = NoResult /\ ask[c].kind # "none"
  BY DEF Safe, Lifecycle
<1>7. \/ audit'[c] = <<>> /\ outcome # "allowed-once"
      \/ audit'[c] = <<Line(outcome, source)>>
  BY <1>1, <1>2, <1>6 DEF TypeOK, Audited
<1>8. Local(c)
  BY <1>1, <1>2, <1>4 DEF TypeOK, Local, SameAsk, SameMaps, Audited
<1>9. Lifecycle(c)'
  BY <1>5 DEF Safe, Lifecycle
<1>10. Trail(c)'
  <2>1. CASE audit'[c] = <<>> /\ outcome # "allowed-once"
    BY <1>5, <2>1 DEF Trail
  <2>2. CASE audit'[c] = <<Line(outcome, source)>>
    <3>1. <<Line(outcome, source)>> # <<>>
      OBVIOUS
    <3>. QED BY <1>5, <2>2, <3>1 DEF Trail
  <2>. QED BY <1>7, <2>1, <2>2
<1>11. Published(c)'
  BY <1>3, <1>4, <1>5 DEF TypeOK, Safe, Published
<1>12. ClosedAt(c)'
  BY <1>2, <1>5 DEF ClosedAt
<1>. QED BY <1>8, <1>9, <1>10, <1>11, <1>12 DEF Safe

LEMMA HumanAnswersSafe ==
  ASSUME NEW c \in Calls, TypeOK, Safe(c), NEW o \in Outcomes, HumanAnswers(c, o)
  PROVE  Safe(c)' /\ Local(c)
BY SettleSafe DEF HumanAnswers, PanelShown, TypeOK

\* What the countdown's own action can release.
LEMMA ActionSettles ==
  ASSUME NEW c \in Calls, TypeOK, Safe(c), pc[c] = "asking", said' = said
  PROVE  /\ OutcomeOf(ask[c].action) \in Outcomes
         /\ OutcomeOf(ask[c].action) = "allowed-once" =>
              /\ ask[c].action # "reject"
              /\ c \notin wiped /\ ask[c].unattended => said'[c] \notin Unreviewed
<1>1. ask[c].action \in Actions
  BY ShapeFields DEF TypeOK
<1>. QED BY <1>1 DEF OutcomeOf, Actions, Outcomes, Safe, ClosedAt

LEMMA TimerFiresSafe ==
  ASSUME NEW c \in Calls, TypeOK, Safe(c), TimerFires(c) PROVE Safe(c)' /\ Local(c)
<1>1. /\ pc[c] = "asking" /\ said' = said /\ reviewing' = reviewing
      /\ UNCHANGED <<ask, reviewSessions, wiped>>
      /\ Settle(c, OutcomeOf(ask[c].action), "timer", reviewVerdicts[c],
                reviewStates[c], decisionFeedback)
      /\ reviewStates[c] \in Statuses
  BY DEF TimerFires, TimerDue, TypeOK
<1>. QED BY <1>1, ActionSettles, SettleSafe

LEMMA ClientRespondsSafe ==
  ASSUME NEW c \in Calls, TypeOK, Safe(c), ClientResponds(c) PROVE Safe(c)' /\ Local(c)
<1>1. /\ pc[c] = "asking" /\ said' = said /\ reviewing' = reviewing
      /\ UNCHANGED <<ask, reviewSessions, wiped>>
      /\ Settle(c, OutcomeOf(ask[c].action), "client", reviewVerdicts[c],
                reviewStates[c], decisionFeedback)
      /\ reviewStates[c] \in Statuses
  BY DEF ClientResponds, PanelShown, TypeOK
<1>. QED BY <1>1, ActionSettles, SettleSafe

-----------------------------------------------------------------------------
(* The reviewer *)

\* A claim releases only for a plain ALLOW, and never claims a HIGH ask; an
\* unattended ask whose reviewer failed or was refused is claimed and rejected.
LEMMA ClaimsFacts ==
  ASSUME NEW c \in Calls, ask[c].risk \in Risks, NEW v \in Verdicts
  PROVE  /\ Claims(c, v) = "allowed-once" => v = "ALLOW"
         /\ Claims(c, v) # "none" => ask[c].risk # "HIGH"
         /\ Claims(c, v) # "none" => Claims(c, v) \in Outcomes
         /\ ask[c].unattended /\ v \in Unreviewed /\ ask[c].risk # "HIGH" =>
              Claims(c, v) # "none"
BY DEF Claims, LowRiskReviewOutcome, UnattendedMustFailClosed, ReviewerAutoAllowBlocked,
       Verdicts, Risks, Unreviewed, Outcomes

LEMMA ReviewTakesOverSafe ==
  ASSUME NEW c \in Calls, TypeOK, Safe(c), NEW v \in Verdicts, ReviewTakesOver(c, v)
  PROVE  Safe(c)' /\ Local(c)
<1>1. /\ pc[c] = "asking" /\ c \in reviewing /\ ask[c].kind = "countdown"
      /\ ask[c].handled \/ ask[c].risk = "HIGH"
  BY DEF ReviewTakesOver, ReviewerAnswers, Live, Safe, Published, Lifecycle
<1>2. /\ said' = [said EXCEPT ![c] = v] /\ reviewing' = reviewing \ {c}
      /\ UNCHANGED <<ask, reviewSessions, wiped>>
      /\ Settle(c, Claims(c, v), "reviewer", v,
                LlmFollow(ActionOf(Claims(c, v))), ClaimFeedback(c, v))
      /\ Claims(c, v) # "none"
  BY <1>1 DEF ReviewTakesOver, ReviewerAnswers
<1>3. /\ Claims(c, v) \in Outcomes /\ ask[c].risk # "HIGH"
      /\ Claims(c, v) = "allowed-once" => v \notin Unreviewed
  BY <1>2, ClaimsFacts, ShapeFields DEF TypeOK, Unreviewed
<1>4. LlmFollow(ActionOf(Claims(c, v))) \in Statuses
  BY <1>3, ActionTypes, StatusTypes
<1>5. said'[c] = v
  BY <1>2 DEF TypeOK
<1>. QED BY <1>1, <1>2, <1>3, <1>4, <1>5, SettleSafe

\* Advice, and answers nobody waits for.
LEMMA ReviewSafe ==
  ASSUME NEW c \in Calls, TypeOK, Safe(c), NEW v \in Verdicts,
         ReviewDiscarded(c, v) \/ ReviewAdvises(c, v) \/ ReviewErrors(c)
  PROVE  Safe(c)' /\ Local(c)
<1>. /\ c \in reviewing /\ reviewing' = reviewing \ {c}
     /\ UNCHANGED <<pc, ask, held, reviewStates, reviewSessions, followExpiry, audit,
                    result, wiped>>
  BY DEF ReviewDiscarded, ReviewAdvises, ReviewErrors, ReviewerAnswers
<1>0. /\ ask[c].kind = "countdown"
      /\ ask[c].handled \/ ask[c].risk = "HIGH"
      /\ pc[c] \in {"asking", "done"}
  BY DEF Safe, Lifecycle, TypeOK
<1>1. CASE ReviewErrors(c)
  BY <1>1 DEF ReviewErrors, Local, SameAsk, SameMaps, Safe, Lifecycle, Trail, Published,
              ClosedAt
<1>2. CASE ReviewDiscarded(c, v)
  <2>1. /\ said' = IF pc[c] = "asking" THEN [said EXCEPT ![c] = v] ELSE said
        /\ reviewVerdicts' = reviewVerdicts /\ ~Live(c)
    BY <1>2 DEF ReviewDiscarded, ReviewerAnswers
  <2>2. pc[c] = "asking" => c \in wiped
    BY <1>0, <2>1 DEF Live, Safe, Published
  <2>3. Local(c)
    BY <2>1 DEF TypeOK, Local, SameAsk, SameMaps
  <2>. QED BY <1>0, <2>1, <2>2, <2>3 DEF Safe, Lifecycle, Trail, Published, ClosedAt
<1>3. CASE ReviewAdvises(c, v)
  <2>1. pc[c] = "asking" /\ said' = [said EXCEPT ![c] = v] /\ Claims(c, v) = "none"
    BY <1>3 DEF ReviewAdvises, ReviewerAnswers, Live, Safe, Published
  <2>2. reviewVerdicts' = reviewVerdicts \/ reviewVerdicts' = [reviewVerdicts EXCEPT ![c] = v]
    BY <1>3 DEF ReviewAdvises
  <2>3. ask[c].unattended /\ v \in Unreviewed => ask[c].action = "reject"
    BY <2>1, ClaimsFacts, ShapeFields DEF TypeOK, Safe, Lifecycle
  <2>4. said'[c] = v /\ result[c] = NoResult
    BY <2>1 DEF TypeOK, Safe, Lifecycle
  <2>5. Local(c)
    BY <2>1, <2>2 DEF TypeOK, Local, SameAsk, SameMaps
  <2>. QED BY <1>0, <2>1, <2>2, <2>3, <2>4, <2>5
           DEF Safe, Lifecycle, Trail, Published, ClosedAt, NoResult
<1>. QED BY <1>1, <1>2, <1>3

-----------------------------------------------------------------------------
(* Cancellation *)

LEMMA AbortSafe ==
  ASSUME NEW c \in Calls, TypeOK, Safe(c), Abort(c) \/ AbortAfterClaim(c)
  PROVE  Safe(c)' /\ Local(c)
<1>1. ASSUME NEW status \in Statuses, NEW fb, AbortWith(c, status, fb),
             pc[c] = "asking", c \notin held,
             reviewing' = reviewing \/ reviewing' = reviewing \ {c},
             said' = said \/ \E v : said' = [said EXCEPT ![c] = v]
      PROVE  Safe(c)' /\ Local(c)
  <2>. DEFINE follow == FollowResolution(status, "rejected", FALSE, TRUE)
  <2>1. follow.phase = "follow"
    BY FollowType DEF Outcomes
  <2>2. /\ pc' = [pc EXCEPT ![c] = "done"]
        /\ reviewVerdicts' = [reviewVerdicts EXCEPT ![c] = NoVerdict]
        /\ result' = [result EXCEPT ![c] = Aborted]
        /\ IF ask[c].kind = "countdown"
           THEN /\ reviewStates' = [reviewStates EXCEPT ![c] = follow]
                /\ followExpiry' = followExpiry \cup {c}
           ELSE UNCHANGED <<reviewStates, followExpiry>>
        /\ UNCHANGED <<ask, held, reviewSessions, audit, wiped>>
    BY <1>1 DEF AbortWith
  <2>. HIDE DEF follow
  <2>3. pc'[c] = "done" /\ result'[c] = Aborted /\ audit[c] = <<>>
    BY <1>1, <2>2 DEF TypeOK, Safe, Lifecycle
  <2>4. Local(c)
    BY <1>1, <2>2 DEF TypeOK, Local, SameAsk, SameMaps
  <2>5. Lifecycle(c)'
    BY <1>1, <2>2, <2>3 DEF Safe, Lifecycle
  <2>6. Published(c)'
    BY <1>1, <2>1, <2>2, <2>3 DEF TypeOK, Safe, Published
  <2>7. Trail(c)' /\ ClosedAt(c)'
    BY <2>2, <2>3 DEF Trail, ClosedAt, Aborted
  <2>. QED BY <2>4, <2>5, <2>6, <2>7 DEF Safe
<1>2. CASE Abort(c)
  BY <1>1, <1>2 DEF Abort, PanelShown, TypeOK
<1>3. CASE AbortAfterClaim(c)
  <2>1. LlmFollow("reject") \in Statuses
    BY StatusTypes DEF Actions
  <2>. QED BY <1>1, <1>3, <2>1 DEF AbortAfterClaim, PanelShown, ReviewerAnswers
<1>. QED BY <1>2, <1>3

-----------------------------------------------------------------------------
(* Everything else that touches the maps *)

LEMMA MapsStepSafe ==
  ASSUME NEW c \in Calls, TypeOK, Safe(c),
         UNCHANGED <<pc, ask, reviewing, audit, result, said, wiped, reviewVerdicts>>,
         \/ held' = held \/ held' = held \ {c},
         \/ UNCHANGED <<reviewStates, followExpiry, reviewSessions>>
         \/ /\ reviewStates[c].phase = "follow"
            /\ reviewStates' = [reviewStates EXCEPT ![c] = NoStatus]
            /\ followExpiry' = followExpiry \ {c}
            /\ reviewSessions' = reviewSessions \/ reviewSessions' = reviewSessions \ {c}
  PROVE  Safe(c)' /\ Local(c)
<1>1. Local(c)
  BY DEF TypeOK, Local, SameAsk, SameMaps
<1>2. Lifecycle(c)' /\ Trail(c)' /\ ClosedAt(c)'
  BY DEF TypeOK, Safe, Lifecycle, Trail, ClosedAt, NoStatus
<1>3. Published(c)'
  BY DEF TypeOK, Safe, Published, NoStatus
<1>. QED BY <1>1, <1>2, <1>3 DEF Safe

LEMMA BrowserSafe ==
  ASSUME NEW c \in Calls, TypeOK, Safe(c),
         \/ ClientDecides(c) \/ StrayPost(c) \/ FeedbackPost(c) \/ PostLost(c)
         \/ PanelOpens(c) \/ Sweep(c) \/ FeedbackExpires(c)
         \/ \E e \in BOOLEAN : PostExecute(c, e)
  PROVE  Safe(c)' /\ Local(c)
<1>1. CASE ClientDecides(c) \/ StrayPost(c) \/ FeedbackPost(c) \/ PostLost(c)
  BY <1>1, MapsStepSafe DEF ClientDecides, StrayPost, FeedbackPost, PostLost
<1>2. CASE PanelOpens(c) \/ FeedbackExpires(c) \/ \E e \in BOOLEAN : PostExecute(c, e)
  BY <1>2, MapsStepSafe DEF PanelOpens, FeedbackExpires, PostExecute
<1>3. CASE Sweep(c)
  <2>1. c \in followExpiry => reviewStates[c].phase = "follow"
    BY DEF Safe, Published
  <2>. QED BY <1>3, <2>1, MapsStepSafe DEF Sweep, SweepFollow, SweepResolved, SweepAuto
<1>. QED BY <1>1, <1>2, <1>3

LEMMA CommandSafe ==
  ASSUME TypeOK, \A c \in Calls : Safe(c),
         \/ ResetAll
         \/ \E s \in Sessions : \/ ResetSession(s) \/ SessionDisposed(s)
                                \/ \E m \in ModeInputs : SetReviewMode(s, m)
         \/ \E k \in Keys : LearningForgets(k)
  PROVE  \A c \in Calls : Safe(c)'
<1>1. ASSUME ResetAll, NEW c \in Calls PROVE Safe(c)'
  <2>1. /\ UNCHANGED <<pc, ask, held, reviewing, audit, result, said>>
        /\ reviewStates'[c] = NoStatus /\ reviewVerdicts'[c] = NoVerdict
        /\ c \notin followExpiry'
        /\ c \in wiped' <=> (c \in wiped \/ pc[c] = "asking")
    BY <1>1 DEF ResetAll
  <2>2. Lifecycle(c)'
    BY <2>1 DEF TypeOK, Safe, Lifecycle, NoStatus
  <2>3. Trail(c)'
    BY <2>1 DEF Safe, Trail
  <2>4. Published(c)'
    BY <2>1 DEF TypeOK, Safe, Published, NoStatus
  <2>5. ClosedAt(c)'
    BY <2>1 DEF Safe, ClosedAt
  <2>. QED BY <2>2, <2>3, <2>4, <2>5 DEF Safe
<1>2. ASSUME UNCHANGED <<pc, ask, held, reviewing, statusMaps, audit, result, said, wiped>>,
             NEW c \in Calls
      PROVE  Safe(c)'
  BY <1>2, Frame DEF SameAsk, SameMaps
<1>. QED BY <1>1, <1>2 DEF ResetSession, SessionDisposed, SetReviewMode, LearningForgets

-----------------------------------------------------------------------------
(* The theorem and its reading *)

LEMMA NextSafe == ASSUME SafeInv, [Next]_vars PROVE SafeInv'
<1>. /\ TypeOK /\ TypeOK' /\ \A c \in Calls : Safe(c)
  BY NextTyped DEF SafeInv, Typed
<1>1. ASSUME NEW c \in Calls, Safe(c)' /\ Local(c) PROVE SafeInv'
  BY <1>1, OneCall DEF SafeInv
<1>2. CASE UNCHANGED vars
  BY <1>2, Frame DEF vars, SafeInv, SameAsk, SameMaps
<1>3. ASSUME NEW c \in Calls, Request(c) PROVE SafeInv'
  BY <1>1, <1>3, RequestSafe
<1>4. ASSUME NEW c \in Calls, NEW v \in VerdictInputs, LearnReturns(c, v) PROVE SafeInv'
  BY <1>1, <1>4, LearnReturnsSafe
<1>5. ASSUME NEW c \in Calls, Reviewer(c) PROVE SafeInv'
  <2>1. ASSUME NEW v \in Verdicts, ReviewTakesOver(c, v) PROVE SafeInv'
    BY <1>1, <2>1, ReviewTakesOverSafe
  <2>2. ASSUME NEW v \in Verdicts,
               ReviewDiscarded(c, v) \/ ReviewAdvises(c, v) \/ ReviewErrors(c)
        PROVE  SafeInv'
    BY <1>1, <2>2, ReviewSafe
  <2>3. "DENY" \in Verdicts /\ VerdictInputs \subseteq Verdicts
    BY AnswererAssumption DEF Verdicts
  <2>. QED BY <1>5, <2>1, <2>2, <2>3 DEF Reviewer
<1>6. ASSUME NEW c \in Calls, Browser(c) PROVE SafeInv'
  BY <1>1, <1>6, BrowserSafe, ClientRespondsSafe DEF Browser
<1>7. ASSUME NEW c \in Calls,
             \/ PanelOpens(c) \/ Sweep(c) \/ FeedbackExpires(c)
             \/ \E e \in BOOLEAN : PostExecute(c, e)
      PROVE  SafeInv'
  BY <1>1, <1>7, BrowserSafe
<1>8. ASSUME NEW c \in Calls,
             \/ \E o \in Outcomes : HumanAnswers(c, o)
             \/ TimerFires(c) \/ Abort(c) \/ AbortAfterClaim(c)
      PROVE  SafeInv'
  BY <1>1, <1>8, HumanAnswersSafe, TimerFiresSafe, AbortSafe
<1>9. CASE \/ ResetAll
           \/ \E s \in Sessions : \/ ResetSession(s) \/ SessionDisposed(s)
                                  \/ \E m \in ModeInputs : SetReviewMode(s, m)
           \/ \E k \in Keys : LearningForgets(k)
  BY <1>9, CommandSafe DEF SafeInv
<1>. QED BY <1>2, <1>3, <1>4, <1>5, <1>6, <1>7, <1>8, <1>9 DEF Next

LEMMA SafeReads ==
  SafeInv => /\ AuditMatchesResult /\ MapsFollowTheAsk
             /\ PinnedAsksNeedAHuman /\ UnattendedFailsClosed
<1>. SUFFICES ASSUME SafeInv
              PROVE  /\ AuditMatchesResult /\ MapsFollowTheAsk
                     /\ PinnedAsksNeedAHuman /\ UnattendedFailsClosed
  OBVIOUS
<1>1. AuditMatchesResult
  <2>. SUFFICES ASSUME NEW c \in Calls
                PROVE  /\ Len(audit[c]) <= 1
                       /\ Len(audit[c]) = 1 =>
                            /\ pc[c] = "done"
                            /\ audit[c][1] = Line(result[c].outcome, result[c].source)
                       /\ result[c].outcome = "allowed-once" => Len(audit[c]) = 1
    BY DEF AuditMatchesResult
  <2>. DEFINE line == Line(result[c].outcome, result[c].source)
  <2>1. Trail(c)
    BY DEF SafeInv, Safe
  <2>. HIDE DEF line
  <2>2. CASE audit[c] = <<>>
    BY <2>1, <2>2 DEF Trail
  <2>3. CASE audit[c] # <<>>
    <3>1. pc[c] = "done" /\ audit[c] = <<line>>
      BY <2>1, <2>3 DEF Trail, line
    <3>2. Len(<<line>>) = 1 /\ <<line>>[1] = line
      OBVIOUS
    <3>. QED BY <3>1, <3>2 DEF line
  <2>. QED BY <2>2, <2>3
<1>2. MapsFollowTheAsk
  BY DEF SafeInv, Safe, Published, MapsFollowTheAsk
<1>3. PinnedAsksNeedAHuman
  BY DEF SafeInv, Safe, ClosedAt, PinnedAsksNeedAHuman
<1>4. UnattendedFailsClosed
  BY DEF SafeInv, Safe, ClosedAt, Unreviewed, UnattendedFailsClosed
<1>. QED BY <1>1, <1>2, <1>3, <1>4

\* Every ask is safe for ever.
THEOREM AsksAreSafe == Spec => []SafeInv
<1>1. Init => SafeInv
  BY InitTyped, InitSafe DEF SafeInv
<1>2. SafeInv /\ [Next]_vars => SafeInv'
  BY NextSafe
<1>. QED BY <1>1, <1>2, PTL DEF Spec

\* No unaudited allow takes effect, and no request is recorded twice or with
\* another verdict than its own (src/src/index.ts, APPROVAL-07).
THEOREM AuditAlwaysMatches == Spec => []AuditMatchesResult
BY AsksAreSafe, SafeReads, PTL

\* An ask pinned to reject is released by a human click or not at all.
THEOREM PinnedAlwaysNeedsAHuman == Spec => []PinnedAsksNeedAHuman
BY AsksAreSafe, SafeReads, PTL

\* A reviewer that failed, or was refused, over an unattended ask is never
\* followed by a machine's allow unless a global reset came in between.
THEOREM UnattendedAlwaysFailsClosed == Spec => []UnattendedFailsClosed
BY AsksAreSafe, SafeReads, PTL

\* An ask the countdown may not release is released by a human or not at all.
THEOREM AlwaysFailsClosed == Spec => []FailsClosed
BY PinnedAlwaysNeedsAHuman, UnattendedAlwaysFailsClosed, PTL DEF FailsClosed

\* The per-call maps follow the life of their ask.
THEOREM MapsAlwaysFollow == Spec => []MapsFollowTheAsk
BY AsksAreSafe, SafeReads, PTL

-----------------------------------------------------------------------------
(***************************************************************************)
(* Who decided, and what is said of it: ProvenanceHonest,                  *)
(* FollowTellsTheTruth and NoticeIsTrue, and the steps of the breaker and  *)
(* of the confirmations.                                                   *)
(*                                                                         *)
(* Honest(c) adds to Safe what the marks of an ask stand for: before it    *)
(* opens there are none; an automatic-answer mark on an open ask was       *)
(* posted while it was open; a browser that answers an open ask by itself  *)
(* saw its state wiped; a timeout notice comes from the timer or from such *)
(* a post, a model's notice from what the model said.                      *)
(***************************************************************************)

\* What the marks of an ask stand for.
Marked(c) ==
  /\ pc[c] \in {"idle", "learning"} =>
       /\ c \notin autoAnsweredCallIds \cup timeoutFeedback \cup resolvedCallIds \cup answering
       /\ decisionFeedback[c] = "none"
  /\ pc[c] = "asking" /\ c \in autoAnsweredCallIds => c \in posted
  /\ pc[c] = "asking" /\ c \in answering => c \in wiped
  /\ c \in timeoutFeedback => result[c].by = "timer" \/ c \in posted
  /\ decisionFeedback[c] = "llm" => said[c] = "DENY" /\ result[c].outcome = "rejected"
  /\ decisionFeedback[c] = "unreviewed" =>
       pc[c] = "done" /\ said[c] \in Unreviewed /\ result[c].outcome # "allowed-once"
  /\ told[c] # "pending" => pc[c] = "done"

\* Which asks may teach the confirmation layer.
Taught(c) ==
  /\ ask[c].learns = "source" => ask[c].risk # "HIGH"
  /\ ask[c].learns = "outcome" => ask[c].kind # "countdown"
  /\ pc[c] = "learning" => ask[c].learns = "source"

\* ProvenanceHonest, FollowTellsTheTruth and NoticeIsTrue of one call.
Named(c) ==
  LET r == result[c]
      auto == r.source = ByOutcome(r.raced, "auto-allow", "auto-deny")
      human == r.source = ByOutcome(r.raced, "human-allow", "human-deny")
  IN
  /\ r.by = "timer"    => r.source = ByOutcome(r.raced, "timeout-allow", "timeout-deny")
  /\ r.by = "human"    => human \/ (auto /\ c \in posted)
  /\ r.by = "client"   => auto \/ (human /\ c \in wiped)
  /\ r.by = "reviewer" =>
       CASE said[c] = "ALLOW" -> r.source = "llm-allow" /\ r.raced = "allowed-once"
         [] said[c] = "DENY"  -> r.source = "llm-deny"  /\ r.raced = "rejected"
         [] said[c] = "FAILURE" -> r.source = "llm-failed" /\ r.raced = "rejected"
         [] said[c] = "ALLOW-CRITICAL" -> r.source = "llm-blocked" /\ r.raced = "rejected"
         [] OTHER -> FALSE
Shown(c) ==
  LET status == reviewStates[c]
      r == result[c]
  IN status.phase = "follow" =>
       /\ status.action = ActionOf(r.raced)
       /\ r.by = "timer"    => status.source = "timeout"
       /\ r.by = "reviewer" => status.source = "llm"
       /\ r.by \in {"human", "client"} => status.source = "human"
       /\ r.by = "abort"    => status.source \in {"abort", "llm"}
       /\ r.by # "none"
Noticed(c) ==
  /\ told[c] = "timeout" => result[c].by = "timer" \/ c \in posted
  /\ told[c] = "llm" => said[c] = "DENY" /\ result[c].outcome = "rejected"
  /\ told[c] = "unreviewed" =>
       /\ said[c] \in Unreviewed
       /\ result[c].outcome # "allowed-once"

Honest(c) == Marked(c) /\ Taught(c) /\ Named(c) /\ Shown(c) /\ Noticed(c)

HonestInv == SafeInv /\ \A c \in Calls : Honest(c)

-----------------------------------------------------------------------------
(* What the honesty of an ask reads *)

SameMarks(d) ==
  /\ d \in autoAnsweredCallIds' <=> d \in autoAnsweredCallIds
  /\ d \in timeoutFeedback' <=> d \in timeoutFeedback
  /\ d \in resolvedCallIds' <=> d \in resolvedCallIds
  /\ d \in answering' <=> d \in answering
  /\ d \in posted' <=> d \in posted
  /\ decisionFeedback'[d] = decisionFeedback[d] /\ told'[d] = told[d]

LEMMA HonestFrame ==
  ASSUME NEW d \in Calls, Honest(d), SameAsk(d), SameMaps(d), SameMarks(d)
  PROVE  Honest(d)'
<1>1. Marked(d)' /\ Taught(d)'
  BY DEF Honest, Marked, Taught, SameAsk, SameMarks
<1>2. Named(d)'
  BY DEF Honest, Named, SameAsk, SameMarks
<1>3. Shown(d)'
  BY DEF Honest, Shown, SameAsk, SameMaps
<1>4. Noticed(d)'
  BY DEF Honest, Noticed, SameAsk, SameMarks
<1>. QED BY <1>1, <1>2, <1>3, <1>4 DEF Honest

\* Only the marks of c change.
Apart(c) == \A d \in Calls \ {c} : SameMarks(d)

LEMMA OneHonest ==
  ASSUME NEW c \in Calls, \A d \in Calls : Honest(d), Local(c), Apart(c), Honest(c)'
  PROVE  \A d \in Calls : Honest(d)'
<1>. SUFFICES ASSUME NEW d \in Calls PROVE Honest(d)'
  OBVIOUS
<1>1. CASE d = c
  BY <1>1
<1>2. CASE d # c
  BY <1>2, HonestFrame DEF Local, Apart
<1>. QED BY <1>1, <1>2

LEMMA InitHonest == Init => \A c \in Calls : Honest(c)
<1>. SUFFICES ASSUME Init, NEW c \in Calls PROVE Honest(c)
  OBVIOUS
<1>1. /\ pc[c] = "idle" /\ ask[c] = NoAsk /\ result[c] = NoResult
      /\ reviewStates[c] = NoStatus /\ said[c] = NoVerdict /\ told[c] = "pending"
      /\ decisionFeedback[c] = "none"
      /\ c \notin autoAnsweredCallIds \cup timeoutFeedback \cup resolvedCallIds \cup answering
  BY DEF Init
<1>2. Marked(c) /\ Taught(c) /\ Noticed(c)
  BY <1>1 DEF Marked, Taught, Noticed, NoAsk, PlainAsk
<1>3. Named(c) /\ Shown(c)
  BY <1>1 DEF Named, Shown, NoResult, NoStatus
<1>. QED BY <1>2, <1>3 DEF Honest

-----------------------------------------------------------------------------
(* Admission: an ask opens without a mark *)

\* What an ask is asked with teaches from its source below HIGH only.
LEMMA TaughtShapes ==
  /\ \A s \in {PlainAsk, BreakerAsk, LoopAsk, LockedAsk, NoAsk} : s.learns = "no"
  /\ \A l \in BOOLEAN : /\ DirectAsk(l).learns # "source"
                        /\ DirectAsk(l).kind # "countdown"
  /\ \A risk \in Risks, u \in BOOLEAN :
       LearningAsk(risk, u).learns = "source" /\ LearningAsk(risk, u).risk = risk
BY DEF PlainAsk, BreakerAsk, LoopAsk, LockedAsk, NoAsk, DirectAsk, LearningAsk

\* A request that leaves the marks alone, its own notice of a deny apart.
LEMMA AdmittedHonest ==
  ASSUME NEW c \in Calls, TypeOK, Safe(c), Honest(c), Safe(c)',
         pc[c] \in {"idle", "learning"}, pc'[c] \in {"learning", "asking", "done"},
         \/ result'[c] = result[c]
         \/ pc'[c] = "done" /\ result'[c].by \in {"static", "learned"},
         reviewStates'[c].phase # "follow",
         \/ UNCHANGED decisionFeedback
         \/ /\ pc'[c] # "learning"
            /\ \E n \in {"policy", "audit"} : decisionFeedback' = Noting(decisionFeedback, c, n),
         UNCHANGED <<marks, timeoutFeedback, answering, posted, told>>,
         ask'[c].learns = "source" => ask'[c].risk # "HIGH",
         ask'[c].learns = "outcome" => ask'[c].kind # "countdown",
         pc'[c] = "learning" => ask'[c].learns = "source"
  PROVE  Honest(c)' /\ Apart(c)
<1>1. /\ c \notin autoAnsweredCallIds \cup timeoutFeedback \cup resolvedCallIds \cup answering
      /\ decisionFeedback[c] = "none" /\ result[c] = NoResult
      /\ told[c] = "pending"
  BY DEF Honest, Marked, Safe, Lifecycle
<1>2. /\ decisionFeedback'[c] \in {"none", "policy", "audit"}
      /\ pc'[c] = "learning" => decisionFeedback'[c] = "none"
      /\ \A d \in Calls \ {c} : decisionFeedback'[d] = decisionFeedback[d]
  BY <1>1 DEF TypeOK, Noting
<1>3. Apart(c)
  BY <1>2 DEF Apart, SameMarks
<1>4. Marked(c)'
  BY <1>1, <1>2 DEF Marked
<1>5. Taught(c)' /\ Noticed(c)' /\ Shown(c)'
  BY <1>1 DEF Taught, Noticed, Shown
<1>6. Named(c)'
  BY <1>1 DEF Named, NoResult
<1>. QED BY <1>3, <1>4, <1>5, <1>6 DEF Honest

LEMMA AutoAllowHonest ==
  ASSUME NEW c \in Calls, TypeOK, Safe(c), Honest(c), Safe(c)',
         pc[c] \in {"idle", "learning"}, NEW source, NEW fb, AutoAllow(c, source, fb),
         fb = decisionFeedback \/ fb = Noting(decisionFeedback, c, "audit"),
         UNCHANGED <<marks, timeoutFeedback, answering, posted, told>>
  PROVE  Honest(c)' /\ Apart(c)
<1>1. /\ pc'[c] = "done" /\ result'[c].by = "static"
      /\ ask' = ask /\ reviewStates' = reviewStates
  BY DEF AutoAllow, Return, TypeOK
<1>2. decisionFeedback' \in {decisionFeedback, Noting(decisionFeedback, c, "audit")}
  BY DEF AutoAllow, Noting, TypeOK
<1>3. reviewStates[c].phase # "follow"
  BY DEF Safe, Lifecycle
<1>. QED BY <1>1, <1>2, <1>3, AdmittedHonest DEF Honest, Taught

LEMMA OpenAskHonest ==
  ASSUME NEW c \in Calls, TypeOK, Safe(c), Honest(c), Safe(c)',
         pc[c] \in {"idle", "learning"}, NEW shape \in Shapes, OpenAsk(c, shape),
         shape.learns = "source" => shape.risk # "HIGH",
         shape.learns = "outcome" => shape.kind # "countdown",
         decisionFeedback' \in {decisionFeedback, Noting(decisionFeedback, c, "audit")},
         result' = result,
         UNCHANGED <<marks, timeoutFeedback, answering, posted, told>>
  PROVE  Honest(c)' /\ Apart(c)
<1>1. pc'[c] = "asking" /\ ask'[c] = shape
  BY DEF OpenAsk, TypeOK
<1>2. reviewStates'[c].phase # "follow"
  BY DEF OpenAsk, Countdown, TypeOK, Safe, Lifecycle
<1>. QED BY <1>1, <1>2, AdmittedHonest

LEMMA LoopLaneHonest ==
  ASSUME NEW c \in Calls, TypeOK, Safe(c), Honest(c), Safe(c)',
         pc[c] \in {"idle", "learning"}, NEW fb, LoopLane(c, fb),
         fb \in {decisionFeedback, Noting(decisionFeedback, c, "audit")},
         UNCHANGED <<marks, timeoutFeedback, answering, posted, told>>
  PROVE  Honest(c)' /\ Apart(c)
<1>1. PICK shape \in {PlainAsk, LoopAsk} : AskOnly(c, shape, fb)
  BY DEF LoopLane
<1>2. shape \in Shapes /\ shape.learns = "no"
  BY ShapeTypes, TaughtShapes
<1>. QED BY <1>1, <1>2, OpenAskHonest DEF AskOnly

LEMMA CountdownLearns ==
  ASSUME NEW risk, NEW t, NEW reviews, NEW takeover, NEW unattended, NEW learns \in BOOLEAN,
         learns = TRUE => risk # "HIGH"
  PROVE  LET s == CountdownAsk(risk, t, reviews, takeover, unattended, learns) IN
         s.learns # "outcome" /\ (s.learns = "source" => s.risk # "HIGH")
BY DEF CountdownAsk, LoopAsk, PlainAsk

LEMMA RiskBranchHonest ==
  ASSUME NEW c \in Calls, TypeOK, Safe(c), Honest(c), Safe(c)',
         pc[c] \in {"idle", "learning"}, NEW risk \in Risks, NEW learns \in BOOLEAN,
         NEW unattended \in BOOLEAN, NEW fb,
         RiskBranch(c, risk, learns, unattended, fb),
         learns = TRUE => risk # "HIGH",
         fb \in {decisionFeedback, Noting(decisionFeedback, c, "audit")},
         UNCHANGED <<marks, timeoutFeedback, answering, posted, told>>
  PROVE  Honest(c)' /\ Apart(c)
<1>1. ASSUME NEW reviews \in BOOLEAN, NEW takeover \in BOOLEAN, NEW t,
             OpenAsk(c, CountdownAsk(risk, t, reviews, takeover, unattended, learns)),
             decisionFeedback' = fb, UNCHANGED <<audit, result>>
      PROVE  Honest(c)' /\ Apart(c)
  <2>. DEFINE s == CountdownAsk(risk, t, reviews, takeover, unattended, learns)
  <2>1. s \in Shapes
    BY CountdownAskType
  <2>2. s.learns # "outcome" /\ (s.learns = "source" => s.risk # "HIGH")
    BY CountdownLearns
  <2>3. OpenAsk(c, s)
    BY <1>1
  <2>. HIDE DEF s
  <2>. QED BY <1>1, <2>1, <2>2, <2>3, OpenAskHonest
<1>2. CASE AutoAllow(c, "auto-allow", fb)
  BY <1>2, AutoAllowHonest
<1>3. CASE LoopLane(c, fb)
  BY <1>3, LoopLaneHonest
<1>. QED BY <1>1, <1>2, <1>3 DEF RiskBranch

LEMMA OrdinaryLaneHonest ==
  ASSUME NEW c \in Calls, TypeOK, Safe(c), Honest(c), Safe(c)', pc[c] = "idle",
         OrdinaryLane(c), UNCHANGED <<marks, timeoutFeedback, answering, posted, told>>
  PROVE  Honest(c)' /\ Apart(c)
<1>1. ASSUME NEW shape \in {PlainAsk, BreakerAsk}, AskOnly(c, shape, decisionFeedback)
      PROVE  Honest(c)' /\ Apart(c)
  <2>1. shape \in Shapes /\ shape.learns = "no"
    BY <1>1, ShapeTypes, TaughtShapes
  <2>. QED BY <1>1, <2>1, OpenAskHonest DEF AskOnly
<1>2. ASSUME NEW risk \in RiskInputs, NEW learnable \in BOOLEAN, NEW unattended \in BOOLEAN,
             RiskBranch(c, risk, learnable /\ risk # "HIGH", unattended, decisionFeedback)
      PROVE  Honest(c)' /\ Apart(c)
  <2>1. PICK learns \in BOOLEAN : learns = (learnable /\ risk # "HIGH")
    OBVIOUS
  <2>2. risk \in Risks /\ (learns = TRUE => risk # "HIGH")
    BY <2>1, AnswererAssumption
  <2>3. RiskBranch(c, risk, learns, unattended, decisionFeedback)
    BY <1>2, <2>1
  <2>. QED BY <2>2, <2>3, RiskBranchHonest
<1>3. ASSUME NEW risk \in RiskInputs, NEW unattended \in BOOLEAN, risk # "HIGH",
             pc' = [pc EXCEPT ![c] = "learning"],
             ask' = [ask EXCEPT ![c] = LearningAsk(risk, unattended)],
             UNCHANGED <<held, reviewing, reviewStates, reviewSessions,
                         decisionFeedback, audit, result>>
      PROVE  Honest(c)' /\ Apart(c)
  <2>1. pc'[c] = "learning" /\ ask'[c] = LearningAsk(risk, unattended)
    BY <1>3 DEF TypeOK
  <2>2. ask'[c].learns = "source" /\ ask'[c].risk = risk
    BY <2>1, TaughtShapes, AnswererAssumption
  <2>3. reviewStates'[c].phase # "follow"
    BY <1>3 DEF Safe, Lifecycle
  <2>. QED BY <1>3, <2>1, <2>2, <2>3, AdmittedHonest
<1>. QED BY <1>1, <1>2, <1>3 DEF OrdinaryLane

LEMMA RequestHonest ==
  ASSUME NEW c \in Calls, TypeOK, Safe(c), Honest(c), Safe(c)', Request(c)
  PROVE  Honest(c)' /\ Apart(c)
<1>. /\ pc[c] = "idle"
     /\ UNCHANGED <<marks, timeoutFeedback, answering, posted, told>>
  BY DEF Request
<1>1. CASE DenyLane(c)
  <2>1. /\ pc'[c] = "done" /\ result'[c].by = "static"
        /\ ask' = ask /\ reviewStates' = reviewStates
        /\ decisionFeedback' = Noting(decisionFeedback, c, "policy")
    BY <1>1 DEF DenyLane, Return, TypeOK
  <2>2. reviewStates[c].phase # "follow"
    BY DEF Safe, Lifecycle
  <2>. QED BY <2>1, <2>2, AdmittedHonest DEF Honest, Taught
<1>2. CASE AutoAllow(c, "static-allow", decisionFeedback)
  BY <1>2, AutoAllowHonest
<1>3. ASSUME NEW shape \in Shapes, shape.learns # "source",
             shape.learns = "outcome" => shape.kind # "countdown",
             AskOnly(c, shape, decisionFeedback)
      PROVE  Honest(c)' /\ Apart(c)
  BY <1>3, OpenAskHonest DEF AskOnly
<1>4. CASE LoopLane(c, decisionFeedback)
  BY <1>4, LoopLaneHonest
<1>5. CASE OrdinaryLane(c)
  BY <1>5, OrdinaryLaneHonest
<1>6. CASE AskOnly(c, PlainAsk, decisionFeedback) \/ AskOnly(c, LockedAsk, decisionFeedback)
  BY <1>3, <1>6, ShapeTypes, TaughtShapes
<1>7. ASSUME NEW l \in BOOLEAN, AskOnly(c, DirectAsk(l), decisionFeedback)
      PROVE  Honest(c)' /\ Apart(c)
  BY <1>3, <1>7, ShapeTypes, TaughtShapes
<1>. QED BY <1>1, <1>2, <1>4, <1>5, <1>6, <1>7 DEF Request

LEMMA LearnReturnsHonest ==
  ASSUME NEW c \in Calls, NEW v, TypeOK, Safe(c), Honest(c), Safe(c)', LearnReturns(c, v)
  PROVE  Honest(c)' /\ Apart(c)
<1>. /\ pc[c] = "learning"
     /\ UNCHANGED <<marks, timeoutFeedback, answering, posted, told>>
  BY DEF LearnReturns
<1>1. ASSUME NEW fb \in {decisionFeedback, Noting(decisionFeedback, c, "audit")},
             RiskBranch(c, ask[c].risk, TRUE, ask[c].unattended, fb)
      PROVE  Honest(c)' /\ Apart(c)
  <2>1. /\ ask[c].risk \in Risks /\ ask[c].unattended \in BOOLEAN
        /\ ask[c].risk # "HIGH"
    BY ShapeFields DEF TypeOK, Honest, Taught
  <2>. QED BY <1>1, <2>1, RiskBranchHonest
<1>2. ASSUME Return(c, "allowed-once", "allowed-once", "learned-allow", "learned"),
             UNCHANGED <<ask, held, reviewing, reviewStates, reviewSessions,
                         decisionFeedback>>
      PROVE  Honest(c)' /\ Apart(c)
  <2>1. pc'[c] = "done" /\ result'[c].by = "learned"
    BY <1>2 DEF Return, TypeOK
  <2>2. reviewStates[c].phase # "follow"
    BY DEF Safe, Lifecycle
  <2>. QED BY <1>2, <2>1, <2>2, AdmittedHonest DEF Honest, Taught
<1>. QED BY <1>1, <1>2 DEF LearnReturns

-----------------------------------------------------------------------------
(* Settlement: the recorded source names the arm that won *)

\* What a settlement writes of the ask, and how it counts.
LEMMA SettleWrites ==
  ASSUME NEW c \in Calls, TypeOK, NEW raced \in Outcomes, NEW by, NEW verdict, NEW status,
         NEW fb \in [Calls -> Notices], Settle(c, raced, by, verdict, status, fb),
         NEW source,
         source = ApprovalSource(raced, by = "timer", by = "reviewer",
                                 c \in autoAnsweredCallIds, verdict)
  PROVE  \E audited \in BOOLEAN, outcome \in Outcomes :
           /\ outcome = IF audited THEN raced ELSE "rejected"
           /\ audit'[c] = IF audited THEN Append(audit[c], Line(raced, source)) ELSE audit[c]
           /\ pc'[c] = "done"
           /\ result'[c] = [outcome |-> outcome, raced |-> raced, source |-> source,
                            by |-> by]
           /\ decisionFeedback'[c] \in {fb[c], "audit"}
           /\ \A d \in Calls \ {c} : decisionFeedback'[d] = fb[d]
           /\ learning' = [learning EXCEPT ![KeyOf[c]] =
                             Learned(@, LearnAction(c, source, outcome, audited))]
<1>1. PICK audited \in BOOLEAN :
        LET outcome == IF audited THEN raced ELSE "rejected" IN
        /\ audit' = IF audited THEN Audited(c, Line(raced, source)) ELSE audit
        /\ decisionFeedback' = IF audited THEN fb ELSE Noting(fb, c, "audit")
        /\ learning' = [learning EXCEPT ![KeyOf[c]] =
                          Learned(@, LearnAction(c, source, outcome, audited))]
        /\ Return(c, outcome, raced, source, by)
  BY DEF Settle
<1>2. PICK outcome \in Outcomes : outcome = IF audited THEN raced ELSE "rejected"
  OBVIOUS
<1>3. /\ pc'[c] = "done"
      /\ result'[c] = [outcome |-> outcome, raced |-> raced, source |-> source, by |-> by]
  BY <1>1, <1>2 DEF Return, TypeOK
<1>4. audit'[c] = IF audited THEN Append(audit[c], Line(raced, source)) ELSE audit[c]
  BY <1>1 DEF Audited, TypeOK
<1>5. /\ decisionFeedback'[c] \in {fb[c], "audit"}
      /\ \A d \in Calls \ {c} : decisionFeedback'[d] = fb[d]
  BY <1>1 DEF Noting
<1>6. learning' = [learning EXCEPT ![KeyOf[c]] =
                     Learned(@, LearnAction(c, source, outcome, audited))]
  BY <1>1, <1>2
<1>. QED BY <1>2, <1>3, <1>4, <1>5, <1>6

\* What the winner of the race brings.  The reviewer's claim is a verdict that
\* claims, published and noted before the race is settled.
Winner(c, raced, by, verdict, status, fb) ==
  \/ /\ by \in {"human", "client", "timer"}
     /\ by = "client" => c \in answering
     /\ by = "timer" => ask[c].kind = "countdown"
     /\ status = reviewStates[c] /\ fb = decisionFeedback /\ said' = said
     /\ \/ timeoutFeedback' = timeoutFeedback
        \/ by = "timer" /\ timeoutFeedback' = timeoutFeedback \cup {c}
  \/ /\ by = "reviewer" /\ ask[c].kind = "countdown"
     /\ verdict \in Verdicts /\ raced = Claims(c, verdict)
     /\ status = LlmFollow(ActionOf(raced)) /\ fb = ClaimFeedback(c, verdict)
     /\ said'[c] = verdict /\ timeoutFeedback' = timeoutFeedback

\* A claim rejects what the model denied and what nobody reviewed, and allows
\* only what the model allowed.
LEMMA ClaimsDecide ==
  ASSUME NEW c \in Calls, NEW v \in Verdicts, Claims(c, v) \in Outcomes
  PROVE  /\ v \in {"ALLOW", "DENY"} \cup Unreviewed
         /\ Claims(c, v) = "allowed-once" <=> v = "ALLOW"
BY DEF Claims, LowRiskReviewOutcome, UnattendedMustFailClosed, ReviewerAutoAllowBlocked,
       Unreviewed

LEMMA ClaimNotes ==
  ASSUME NEW c \in Calls, NEW v \in Verdicts, Claims(c, v) \in Outcomes,
         decisionFeedback \in [Calls -> Notices],
         decisionFeedback[c] \notin {"llm", "unreviewed"}
  PROVE  /\ ClaimFeedback(c, v) \in [Calls -> Notices]
         /\ ClaimFeedback(c, v)[c] = "llm" => v = "DENY"
         /\ ClaimFeedback(c, v)[c] = "unreviewed" => v \in Unreviewed
         /\ \A d \in Calls \ {c} : ClaimFeedback(c, v)[d] = decisionFeedback[d]
<1>1. v \in {"ALLOW", "DENY"} \cup Unreviewed /\ (Claims(c, v) = "allowed-once" <=> v = "ALLOW")
  BY ClaimsDecide
<1>2. CASE v = "ALLOW"
  <2>1. ClaimFeedback(c, v) = decisionFeedback
    BY <1>1, <1>2 DEF ClaimFeedback
  <2>. QED BY <2>1
<1>3. CASE v # "ALLOW"
  <2>1. ClaimFeedback(c, v) = Noting(decisionFeedback, c, ClaimNotice(v))
    BY <1>1, <1>3 DEF ClaimFeedback
  <2>2. ClaimNotice(v) \in {"llm", "unreviewed"} /\ (ClaimNotice(v) = "llm" <=> v = "DENY")
    BY DEF ClaimNotice
  <2>. QED BY <1>1, <1>3, <2>1, <2>2 DEF Noting
<1>. QED BY <1>2, <1>3

LEMMA SettleHonest ==
  ASSUME NEW c \in Calls, TypeOK, Safe(c), Honest(c), pc[c] = "asking",
         NEW raced \in Outcomes, NEW by, NEW verdict, NEW status \in Statuses,
         NEW fb \in [Calls -> Notices], Settle(c, raced, by, verdict, status, fb),
         Winner(c, raced, by, verdict, status, fb),
         UNCHANGED <<ask, answering, posted, wiped, told>>
  PROVE  Honest(c)' /\ Apart(c)
<1>1. PICK auto \in BOOLEAN : /\ auto = (c \in autoAnsweredCallIds)
                              /\ auto = TRUE => c \in autoAnsweredCallIds
  <2>1. (c \in autoAnsweredCallIds) \in BOOLEAN
    OBVIOUS
  <2>2. (c \in autoAnsweredCallIds) = TRUE => c \in autoAnsweredCallIds
    OBVIOUS
  <2>. QED BY <2>1, <2>2, Zenon
<1>2. PICK source : source = ApprovalSource(raced, by = "timer", by = "reviewer", auto, verdict)
  OBVIOUS
<1>3. PICK audited \in BOOLEAN, outcome \in Outcomes :
           /\ outcome = IF audited THEN raced ELSE "rejected"
           /\ pc'[c] = "done"
           /\ result'[c] = [outcome |-> outcome, raced |-> raced, source |-> source,
                            by |-> by]
           /\ decisionFeedback'[c] \in {fb[c], "audit"}
           /\ \A d \in Calls \ {c} : decisionFeedback'[d] = fb[d]
  <2>1. source = ApprovalSource(raced, by = "timer", by = "reviewer",
                                c \in autoAnsweredCallIds, verdict)
    BY <1>1, <1>2, Zenon
  <2>2. \E audited \in BOOLEAN, outcome \in Outcomes :
           /\ outcome = IF audited THEN raced ELSE "rejected"
           /\ audit'[c] = IF audited THEN Append(audit[c], Line(raced, source)) ELSE audit[c]
           /\ pc'[c] = "done"
           /\ result'[c] = [outcome |-> outcome, raced |-> raced, source |-> source,
                            by |-> by]
           /\ decisionFeedback'[c] \in {fb[c], "audit"}
           /\ \A d \in Calls \ {c} : decisionFeedback'[d] = fb[d]
           /\ learning' = [learning EXCEPT ![KeyOf[c]] =
                             Learned(@, LearnAction(c, source, outcome, audited))]
    BY <2>1, SettleWrites
  <2>. QED BY <2>2, Zenon
<1>4. /\ result'[c].outcome = outcome /\ result'[c].raced = raced
      /\ result'[c].source = source /\ result'[c].by = by
  BY <1>3
<1>5. /\ result[c] = NoResult /\ reviewStates[c].phase # "follow"
      /\ decisionFeedback[c] \notin {"llm", "unreviewed"}
      /\ told[c] = "pending"
      /\ c \in autoAnsweredCallIds => c \in posted
      /\ c \in answering => c \in wiped
      /\ c \in timeoutFeedback => c \in posted
  <2>1. result[c] = NoResult /\ reviewStates[c].phase # "follow"
    BY DEF Safe, Lifecycle, Published
  <2>. QED BY <2>1 DEF Honest, Marked, NoResult
<1>6. /\ resolvedCallIds' = resolvedCallIds \cup {c}
      /\ autoAnsweredCallIds' = autoAnsweredCallIds \ {c}
  BY DEF Settle
<1>7. \/ timeoutFeedback' = timeoutFeedback
      \/ by = "timer" /\ timeoutFeedback' = timeoutFeedback \cup {c}
  BY DEF Winner
\* Only a claim adds a notice, about its own verdict.
<1>8. /\ by = "reviewer" => /\ said'[c] = verdict /\ verdict \in {"ALLOW", "DENY"} \cup Unreviewed
                            /\ raced = "allowed-once" <=> verdict = "ALLOW"
                            /\ status = LlmFollow(ActionOf(raced))
                            /\ fb[c] = "llm" => verdict = "DENY"
                            /\ fb[c] = "unreviewed" => verdict \in Unreviewed
      /\ by # "reviewer" => /\ said' = said /\ status = reviewStates[c]
                            /\ fb = decisionFeedback
                            /\ by \in {"human", "client", "timer"}
                            /\ by = "client" => c \in answering
      /\ \A d \in Calls \ {c} : fb[d] = decisionFeedback[d]
  <2>1. CASE by = "reviewer"
    <3>1. /\ verdict \in Verdicts /\ raced = Claims(c, verdict)
          /\ status = LlmFollow(ActionOf(raced)) /\ fb = ClaimFeedback(c, verdict)
          /\ said'[c] = verdict
      BY <2>1 DEF Winner
    <3>2. /\ verdict \in {"ALLOW", "DENY"} \cup Unreviewed
          /\ raced = "allowed-once" <=> verdict = "ALLOW"
      BY <3>1, ClaimsDecide
    <3>3. decisionFeedback \in [Calls -> Notices]
      BY DEF TypeOK
    <3>4. /\ fb[c] = "llm" => verdict = "DENY"
          /\ fb[c] = "unreviewed" => verdict \in Unreviewed
          /\ \A d \in Calls \ {c} : fb[d] = decisionFeedback[d]
      BY <1>5, <3>1, <3>3, ClaimNotes
    <3>. QED BY <2>1, <3>1, <3>2, <3>4
  <2>2. CASE by # "reviewer"
    BY <2>2 DEF Winner
  <2>. QED BY <2>1, <2>2
<1>9. Apart(c)
  BY <1>3, <1>6, <1>7, <1>8 DEF Apart, SameMarks
<1>10. /\ decisionFeedback'[c] = "llm" =>
            by = "reviewer" /\ verdict = "DENY" /\ raced = "rejected"
       /\ decisionFeedback'[c] = "unreviewed" =>
            by = "reviewer" /\ verdict \in Unreviewed /\ raced = "rejected"
  BY <1>3, <1>5, <1>8 DEF Unreviewed
<1>11. raced = "rejected" => outcome = "rejected"
  BY <1>3
<1>12. Marked(c)'
  BY <1>3, <1>4, <1>5, <1>7, <1>8, <1>10, <1>11 DEF Marked
<1>13. Taught(c)'
  BY <1>3 DEF Honest, Taught
<1>14. Noticed(c)'
  BY <1>5 DEF Noticed
<1>15. Named(c)'
  <2>1. /\ by = "timer" => source = ByOutcome(raced, "timeout-allow", "timeout-deny")
        /\ by = "reviewer" =>
              /\ verdict = "FAILURE" => source = "llm-failed"
              /\ verdict = "ALLOW-CRITICAL" => source = "llm-blocked"
              /\ verdict = "ALLOW" => source = "llm-allow"
              /\ verdict = "DENY" => source = "llm-deny"
        /\ by \notin {"timer", "reviewer"} =>
              /\ auto = TRUE => source = ByOutcome(raced, "auto-allow", "auto-deny")
              /\ auto = FALSE => source = ByOutcome(raced, "human-allow", "human-deny")
    BY <1>2 DEF ApprovalSource, ReviewerAutoAllowBlocked
  <2>2. auto = TRUE => c \in posted
    BY <1>1, <1>5
  <2>3. by = "client" => c \in wiped
    BY <1>5, <1>8
  <2>4. CASE by = "reviewer"
    <3>1. /\ said'[c] = "ALLOW" => source = "llm-allow" /\ raced = "allowed-once"
          /\ said'[c] = "DENY" => source = "llm-deny" /\ raced = "rejected"
          /\ said'[c] = "FAILURE" => source = "llm-failed" /\ raced = "rejected"
          /\ said'[c] = "ALLOW-CRITICAL" => source = "llm-blocked" /\ raced = "rejected"
          /\ said'[c] \in {"ALLOW", "DENY", "FAILURE", "ALLOW-CRITICAL"}
      BY <1>8, <2>1, <2>4 DEF Unreviewed
    <3>. QED BY <1>4, <2>4, <3>1 DEF Named
  <2>5. CASE by # "reviewer"
    <3>1. auto = TRUE \/ auto = FALSE
      OBVIOUS
    <3>. QED BY <1>4, <1>8, <2>1, <2>2, <2>3, <2>5, <3>1 DEF Named
  <2>. QED BY <2>4, <2>5
<1>16. Shown(c)'
  <2>1. PICK follow : follow = FollowResolution(status, raced, by = "timer", FALSE)
    OBVIOUS
  <2>2. /\ status.phase = "follow" => follow = status
        /\ status.phase # "follow" =>
             /\ follow.action = ActionOf(raced)
             /\ by = "timer" => follow.source = "timeout"
             /\ by # "timer" => follow.source = "human"
    BY <2>1 DEF FollowResolution
  <2>3. /\ follow.action = ActionOf(raced)
        /\ by = "timer" => follow.source = "timeout"
        /\ by = "reviewer" => follow.source = "llm"
        /\ by \in {"human", "client"} => follow.source = "human"
    BY <1>5, <1>8, <2>2 DEF LlmFollow
  <2>4. by # "none" /\ by # "abort"
    BY <1>8
  <2>5. \/ reviewStates'[c] = follow
        \/ reviewStates'[c] = reviewStates[c]
    <3>1. \/ reviewStates' = [reviewStates EXCEPT ![c] = follow]
          \/ reviewStates' = reviewStates
      BY <2>1 DEF Settle
    <3>. QED BY <3>1 DEF TypeOK
  <2>. QED BY <1>4, <1>5, <2>3, <2>4, <2>5 DEF Shown
<1>. QED BY <1>9, <1>12, <1>13, <1>14, <1>15, <1>16 DEF Honest

LEMMA HumanAnswersHonest ==
  ASSUME NEW c \in Calls, TypeOK, Safe(c), Honest(c), NEW o \in Outcomes, HumanAnswers(c, o)
  PROVE  Honest(c)' /\ Apart(c)
<1>1. /\ pc[c] = "asking" /\ reviewStates[c] \in Statuses
      /\ decisionFeedback \in [Calls -> Notices]
      /\ Settle(c, o, "human", reviewVerdicts[c], reviewStates[c], decisionFeedback)
      /\ UNCHANGED <<ask, answering, posted, wiped, told>>
  BY DEF HumanAnswers, PanelShown, TypeOK
<1>2. Winner(c, o, "human", reviewVerdicts[c], reviewStates[c], decisionFeedback)
  BY DEF HumanAnswers, Winner
<1>. QED BY <1>1, <1>2, SettleHonest

LEMMA TimerFiresHonest ==
  ASSUME NEW c \in Calls, TypeOK, Safe(c), Honest(c), TimerFires(c)
  PROVE  Honest(c)' /\ Apart(c)
<1>1. /\ pc[c] = "asking" /\ reviewStates[c] \in Statuses
      /\ decisionFeedback \in [Calls -> Notices]
      /\ Settle(c, OutcomeOf(ask[c].action), "timer", reviewVerdicts[c], reviewStates[c],
                decisionFeedback)
      /\ UNCHANGED <<ask, answering, posted, wiped, told>>
  BY DEF TimerFires, TimerDue, TypeOK
<1>2. OutcomeOf(ask[c].action) \in Outcomes
  BY ActionTypes, ShapeFields DEF TypeOK
<1>3. Winner(c, OutcomeOf(ask[c].action), "timer", reviewVerdicts[c], reviewStates[c],
             decisionFeedback)
  BY DEF TimerFires, TimerDue, Winner
<1>. QED BY <1>1, <1>2, <1>3, SettleHonest

LEMMA ClientRespondsHonest ==
  ASSUME NEW c \in Calls, TypeOK, Safe(c), Honest(c), ClientResponds(c)
  PROVE  Honest(c)' /\ Apart(c)
<1>1. /\ pc[c] = "asking" /\ reviewStates[c] \in Statuses
      /\ decisionFeedback \in [Calls -> Notices]
      /\ Settle(c, OutcomeOf(ask[c].action), "client", reviewVerdicts[c], reviewStates[c],
                decisionFeedback)
      /\ UNCHANGED <<ask, answering, posted, wiped, told>>
  BY DEF ClientResponds, PanelShown, TypeOK
<1>2. OutcomeOf(ask[c].action) \in Outcomes
  BY ActionTypes, ShapeFields DEF TypeOK
<1>3. Winner(c, OutcomeOf(ask[c].action), "client", reviewVerdicts[c], reviewStates[c],
             decisionFeedback)
  BY DEF ClientResponds, Winner
<1>. QED BY <1>1, <1>2, <1>3, SettleHonest

LEMMA TakesOver ==
  ASSUME NEW c \in Calls, TypeOK, Safe(c), NEW v \in Verdicts, ReviewTakesOver(c, v)
  PROVE  /\ pc[c] = "asking" /\ Claims(c, v) \in Outcomes
         /\ LlmFollow(ActionOf(Claims(c, v))) \in Statuses
         /\ ClaimFeedback(c, v) \in [Calls -> Notices]
         /\ Settle(c, Claims(c, v), "reviewer", v, LlmFollow(ActionOf(Claims(c, v))),
                   ClaimFeedback(c, v))
         /\ Winner(c, Claims(c, v), "reviewer", v, LlmFollow(ActionOf(Claims(c, v))),
                   ClaimFeedback(c, v))
         /\ UNCHANGED <<ask, answering, posted, wiped, told>>
<1>1. pc[c] = "asking" /\ ask[c].kind = "countdown"
  BY DEF ReviewTakesOver, Live, Safe, Published
<1>2. Claims(c, v) \in Outcomes
  BY ClaimsType DEF ReviewTakesOver
<1>3. /\ LlmFollow(ActionOf(Claims(c, v))) \in Statuses
      /\ ClaimFeedback(c, v) \in [Calls -> Notices]
  BY <1>2, ActionTypes, StatusTypes, ClaimFeedbackType DEF TypeOK
<1>4. /\ said' = [said EXCEPT ![c] = v]
      /\ Settle(c, Claims(c, v), "reviewer", v, LlmFollow(ActionOf(Claims(c, v))),
                ClaimFeedback(c, v))
      /\ UNCHANGED <<ask, timeoutFeedback, answering, posted, wiped, told>>
  BY <1>1 DEF ReviewTakesOver, ReviewerAnswers
<1>5. said'[c] = v
  BY <1>4 DEF TypeOK
<1>6. Winner(c, Claims(c, v), "reviewer", v, LlmFollow(ActionOf(Claims(c, v))),
             ClaimFeedback(c, v))
  BY <1>1, <1>4, <1>5 DEF Winner
<1>. QED BY <1>1, <1>2, <1>3, <1>4, <1>6

LEMMA ReviewTakesOverHonest ==
  ASSUME NEW c \in Calls, TypeOK, Safe(c), Honest(c), NEW v \in Verdicts,
         ReviewTakesOver(c, v)
  PROVE  Honest(c)' /\ Apart(c)
BY TakesOver, SettleHonest

\* A late or advising reviewer changes nothing the record stands on.
LEMMA ReviewHonest ==
  ASSUME NEW c \in Calls, TypeOK, Safe(c), Honest(c), NEW v,
         ReviewDiscarded(c, v) \/ ReviewAdvises(c, v) \/ ReviewErrors(c)
  PROVE  Honest(c)' /\ Apart(c)
<1>1. /\ UNCHANGED <<pc, ask, reviewStates, marks, feedback, answering, result, wiped,
                     posted, told>>
      /\ pc[c] # "asking" => said' = said
  BY DEF ReviewDiscarded, ReviewAdvises, ReviewErrors, ReviewerAnswers
<1>2. Apart(c) /\ Taught(c)' /\ Shown(c)'
  BY <1>1 DEF Apart, SameMarks, Honest, Taught, Shown
<1>3. CASE pc[c] = "asking"
  <2>1. /\ result[c].by = "none" /\ told[c] = "pending"
        /\ decisionFeedback[c] \notin {"llm", "unreviewed"}
    BY <1>3 DEF Safe, Lifecycle, Honest, Marked, NoResult
  <2>2. Marked(c)'
    BY <1>1, <1>3, <2>1 DEF Honest, Marked
  <2>3. Named(c)' /\ Noticed(c)'
    BY <1>1, <2>1 DEF Named, Noticed
  <2>. QED BY <1>2, <2>2, <2>3 DEF Honest
<1>4. CASE pc[c] # "asking"
  BY <1>1, <1>2, <1>4 DEF Honest, Marked, Named, Noticed
<1>. QED BY <1>3, <1>4

LEMMA AbortHonest ==
  ASSUME NEW c \in Calls, TypeOK, Safe(c), Honest(c), Abort(c) \/ AbortAfterClaim(c)
  PROVE  Honest(c)' /\ Apart(c)
<1>1. PICK status \in Statuses, fb \in [Calls -> Notices] :
        /\ AbortWith(c, status, fb) /\ pc[c] = "asking"
        /\ \/ status = reviewStates[c] /\ fb = decisionFeedback /\ said' = said
           \/ /\ status = LlmFollow("reject") /\ fb = ClaimFeedback(c, "FAILURE")
              /\ said' = [said EXCEPT ![c] = "FAILURE"]
              /\ Claims(c, "FAILURE") # "none"
  <2>1. CASE Abort(c)
    <3>1. reviewStates[c] \in Statuses /\ decisionFeedback \in [Calls -> Notices]
      BY DEF TypeOK
    <3>2. AbortWith(c, reviewStates[c], decisionFeedback) /\ pc[c] = "asking" /\ said' = said
      BY <2>1 DEF Abort, PanelShown
    <3>. QED BY <3>1, <3>2
  <2>2. CASE AbortAfterClaim(c)
    <3>1. /\ LlmFollow("reject") \in Statuses
          /\ ClaimFeedback(c, "FAILURE") \in [Calls -> Notices]
      BY StatusTypes, ClaimFeedbackType DEF TypeOK
    <3>2. /\ AbortWith(c, LlmFollow("reject"), ClaimFeedback(c, "FAILURE"))
          /\ pc[c] = "asking" /\ said' = [said EXCEPT ![c] = "FAILURE"]
          /\ Claims(c, "FAILURE") # "none"
      BY <2>2 DEF AbortAfterClaim, PanelShown, ReviewerAnswers
    <3>. QED BY <3>1, <3>2
  <2>. QED BY <2>1, <2>2
<1>2. /\ result[c] = NoResult /\ reviewStates[c].phase # "follow"
      /\ decisionFeedback[c] \notin {"llm", "unreviewed"} /\ told[c] = "pending"
      /\ c \in timeoutFeedback => c \in posted
  BY <1>1 DEF Safe, Lifecycle, Published, Honest, Marked, NoResult
<1>3. /\ fb[c] # "llm"
      /\ fb[c] = "unreviewed" => said'[c] = "FAILURE"
      /\ \A d \in Calls \ {c} : fb[d] = decisionFeedback[d]
  <2>1. CASE fb = decisionFeedback
    BY <1>2, <2>1
  <2>2. CASE /\ fb = ClaimFeedback(c, "FAILURE") /\ Claims(c, "FAILURE") # "none"
             /\ said' = [said EXCEPT ![c] = "FAILURE"]
    <3>1. Claims(c, "FAILURE") \in Outcomes /\ decisionFeedback \in [Calls -> Notices]
      BY <2>2, ClaimsType DEF TypeOK
    <3>2. fb[c] # "llm" /\ \A d \in Calls \ {c} : fb[d] = decisionFeedback[d]
      BY <1>2, <2>2, <3>1, ClaimNotes
    <3>3. said'[c] = "FAILURE"
      BY <2>2 DEF TypeOK
    <3>. QED BY <3>2, <3>3
  <2>. QED BY <1>1, <2>1, <2>2
<1>4. /\ pc'[c] = "done" /\ result'[c] = Aborted /\ decisionFeedback' = fb
      /\ resolvedCallIds' = resolvedCallIds \cup {c}
      /\ UNCHANGED <<ask, autoAnsweredCallIds, timeoutFeedback, answering, wiped, posted, told>>
  BY <1>1 DEF AbortWith, TypeOK
<1>5. /\ result'[c].by = "abort" /\ result'[c].outcome = "aborted"
      /\ result'[c].raced = "aborted"
  BY <1>4 DEF Aborted
<1>6. Apart(c)
  BY <1>3, <1>4 DEF Apart, SameMarks
<1>7. Marked(c)' /\ Noticed(c)' /\ Taught(c)' /\ Named(c)'
  <2>1. Marked(c)'
    BY <1>2, <1>3, <1>4, <1>5 DEF Marked, Unreviewed
  <2>2. Noticed(c)' /\ Taught(c)'
    BY <1>2, <1>4 DEF Noticed, Honest, Taught
  <2>3. Named(c)'
    BY <1>5 DEF Named
  <2>. QED BY <2>1, <2>2, <2>3
<1>8. Shown(c)'
  <2>1. PICK follow : follow = FollowResolution(status, "rejected", FALSE, TRUE)
    OBVIOUS
  <2>2. reviewStates' = [reviewStates EXCEPT ![c] = follow] \/ reviewStates' = reviewStates
    BY <1>1, <2>1 DEF AbortWith
  <2>3. reviewStates'[c] = follow \/ reviewStates'[c] = reviewStates[c]
    BY <2>2 DEF TypeOK
  <2>4. follow.action = "reject" /\ follow.source \in {"abort", "llm"}
    BY <1>1, <1>2, <2>1 DEF FollowResolution, LlmFollow
  <2>5. ActionOf("aborted") = "reject"
    BY DEF ActionOf
  <2>. QED BY <1>2, <1>5, <2>3, <2>4, <2>5 DEF Shown
<1>. QED BY <1>6, <1>7, <1>8 DEF Honest

-----------------------------------------------------------------------------
(* The browser, the sweep and the notices *)

\* A post relabels an ask nobody knows the call of only while it is open: what
\* is over and still known was marked already.
LEMMA RelabelIsLive ==
  ASSUME NEW c \in Calls, TypeOK, Safe(c), Honest(c), Relabels(c)
  PROVE  pc[c] = "asking" \/ (pc[c] = "done" /\ c \in timeoutFeedback)
<1>1. /\ c \notin resolvedCallIds /\ reviewStates[c].phase # "follow"
      /\ decisionFeedback[c] = "none"
      /\ \/ c \in timeoutFeedback \cup followExpiry
         \/ reviewStates[c].phase # "none" \/ reviewVerdicts[c] # NoVerdict
  BY DEF Relabels, KnownCallId
<1>2. c \notin followExpiry
  BY <1>1 DEF Safe, Published
<1>3. reviewStates[c].phase # "none" => pc[c] = "asking"
  <2>1. reviewStates[c] \in Statuses
    BY DEF TypeOK
  <2>2. reviewStates[c].phase \in {"none", "countdown", "follow"}
    BY <2>1 DEF Statuses
  <2>. QED BY <1>1, <2>2 DEF Safe, Published
<1>4. reviewVerdicts[c] # NoVerdict => pc[c] = "asking"
  BY DEF Safe, Published
<1>5. c \in timeoutFeedback => pc[c] \notin {"idle", "learning"}
  BY DEF Honest, Marked
<1>. QED BY <1>1, <1>2, <1>3, <1>4, <1>5 DEF TypeOK

LEMMA FeedbackPostHonest ==
  ASSUME NEW c \in Calls, TypeOK, Safe(c), Honest(c), FeedbackPost(c)
  PROVE  Honest(c)' /\ Apart(c)
<1>1. UNCHANGED <<pc, ask, resolvedCallIds, decisionFeedback, answering, result, said,
                  wiped, told>>
  BY DEF FeedbackPost
<1>2. reviewStates'[c] = reviewStates[c] \/ reviewStates'[c] = NoStatus
  BY DEF FeedbackPost, TypeOK
<1>3. Shown(c)' /\ Taught(c)'
  BY <1>1, <1>2 DEF Honest, Shown, Taught, NoStatus
<1>4. CASE Relabels(c)
  <2>1. /\ autoAnsweredCallIds' = autoAnsweredCallIds \cup {c}
        /\ timeoutFeedback' = timeoutFeedback \cup {c}
        /\ posted' = IF pc[c] = "asking" THEN posted \cup {c} ELSE posted
    BY <1>4 DEF FeedbackPost
  <2>2. pc[c] = "asking" \/ (pc[c] = "done" /\ c \in timeoutFeedback)
    BY <1>4, RelabelIsLive
  <2>3. Apart(c)
    BY <1>1, <2>1 DEF Apart, SameMarks
  <2>4. Marked(c)'
    BY <1>1, <2>1, <2>2 DEF Honest, Marked
  <2>5. Named(c)' /\ Noticed(c)'
    BY <1>1, <2>1 DEF Honest, Named, Noticed
  <2>. QED BY <1>3, <2>3, <2>4, <2>5 DEF Honest
<1>5. CASE ~Relabels(c)
  <2>1. UNCHANGED <<autoAnsweredCallIds, timeoutFeedback, posted>>
    BY <1>5 DEF FeedbackPost
  <2>2. Apart(c) /\ Marked(c)' /\ Named(c)' /\ Noticed(c)'
    BY <1>1, <2>1 DEF Apart, SameMarks, Honest, Marked, Named, Noticed
  <2>. QED BY <1>3, <2>2 DEF Honest
<1>. QED BY <1>4, <1>5

\* A browser answers an open ask by itself only when its status is gone.
LEMMA ClientDecidesHonest ==
  ASSUME NEW c \in Calls, TypeOK, Safe(c), Honest(c), ClientDecides(c)
  PROVE  Honest(c)' /\ Apart(c)
<1>1. /\ UNCHANGED <<pc, ask, reviewStates, marks, feedback, result, said, wiped, posted, told>>
      /\ answering' = answering \cup {c}
  BY DEF ClientDecides
<1>2. pc[c] \notin {"idle", "learning"} /\ (pc[c] = "asking" => c \in wiped)
  <2>1. /\ ask[c].kind = "countdown"
        /\ reviewStates[c].phase = "none" \/ reviewStates[c].phase = "follow"
    BY DEF ClientDecides
  <2>. QED BY <2>1 DEF Safe, Lifecycle, Published
<1>3. Apart(c) /\ Marked(c)'
  BY <1>1, <1>2 DEF Apart, SameMarks, Honest, Marked
<1>4. Taught(c)' /\ Named(c)' /\ Shown(c)' /\ Noticed(c)'
  BY <1>1 DEF Honest, Taught, Named, Shown, Noticed
<1>. QED BY <1>3, <1>4 DEF Honest

\* Marks are only dropped, and a status only released.
LEMMA ReleaseHonest ==
  ASSUME NEW c \in Calls, TypeOK, Safe(c), Honest(c),
         UNCHANGED <<pc, ask, answering, result, said, wiped, posted, told>>,
         \A d \in Calls : \/ d = c
                          \/ SameMarks(d),
         /\ c \in autoAnsweredCallIds' => c \in autoAnsweredCallIds
         /\ c \in timeoutFeedback' => c \in timeoutFeedback
         /\ c \in resolvedCallIds' => c \in resolvedCallIds
         /\ decisionFeedback'[c] \in {decisionFeedback[c], "none"}
         /\ reviewStates'[c] = reviewStates[c] \/ reviewStates'[c] = NoStatus
  PROVE  Honest(c)' /\ Apart(c)
<1>1. Apart(c)
  BY DEF Apart
<1>2. Marked(c)'
  BY DEF Honest, Marked
<1>3. Taught(c)' /\ Named(c)' /\ Noticed(c)'
  BY DEF Honest, Taught, Named, Noticed
<1>4. Shown(c)'
  BY DEF Honest, Shown, NoStatus
<1>. QED BY <1>1, <1>2, <1>3, <1>4 DEF Honest

LEMMA SweepHonest ==
  ASSUME NEW c \in Calls, TypeOK, Safe(c), Honest(c),
         StrayPost(c) \/ PostLost(c) \/ PanelOpens(c) \/ Sweep(c) \/ FeedbackExpires(c)
  PROVE  Honest(c)' /\ Apart(c)
<1>1. /\ UNCHANGED <<pc, ask, answering, result, said, wiped, posted, told>>
      /\ reviewStates' = reviewStates \/ reviewStates' = [reviewStates EXCEPT ![c] = NoStatus]
      /\ autoAnsweredCallIds' \in {autoAnsweredCallIds, autoAnsweredCallIds \ {c}}
      /\ timeoutFeedback' \in {timeoutFeedback, timeoutFeedback \ {c}}
      /\ resolvedCallIds' \in {resolvedCallIds, resolvedCallIds \ {c}}
      /\ decisionFeedback' \in {decisionFeedback, Noting(decisionFeedback, c, "none")}
  BY DEF StrayPost, PostLost, PanelOpens, Sweep, SweepFollow, SweepResolved, SweepAuto,
         FeedbackExpires
<1>2. \A d \in Calls : d = c \/ SameMarks(d)
  BY <1>1 DEF SameMarks, Noting, TypeOK
<1>3. /\ decisionFeedback'[c] \in {decisionFeedback[c], "none"}
      /\ reviewStates'[c] = reviewStates[c] \/ reviewStates'[c] = NoStatus
  BY <1>1 DEF Noting, TypeOK
<1>. QED BY <1>1, <1>2, <1>3, ReleaseHonest

\* The notice post-execute shows is what the marks stood for.
LEMMA PostExecuteHonest ==
  ASSUME NEW c \in Calls, TypeOK, Safe(c), Honest(c), NEW e \in BOOLEAN, PostExecute(c, e)
  PROVE  Honest(c)' /\ Apart(c)
<1>1. /\ pc[c] = "done" /\ told[c] = "pending"
      /\ UNCHANGED <<pc, ask, reviewStates, marks, answering, result, said, wiped, posted>>
      /\ timeoutFeedback' = timeoutFeedback \ {c}
      /\ decisionFeedback' = Noting(decisionFeedback, c, "none")
  BY DEF PostExecute
<1>2. /\ told'[c] \in {decisionFeedback[c], "timeout", "none"}
      /\ told'[c] = "timeout" => decisionFeedback[c] = "timeout" \/ c \in timeoutFeedback
      /\ \A d \in Calls \ {c} : told'[d] = told[d]
  BY DEF PostExecute, TypeOK
<1>3. decisionFeedback[c] # "timeout"
  BY DEF TypeOK
<1>4. decisionFeedback'[c] = "none" /\ \A d \in Calls \ {c} : decisionFeedback'[d] = decisionFeedback[d]
  BY <1>1 DEF Noting, TypeOK
<1>5. Apart(c)
  BY <1>1, <1>2, <1>4 DEF Apart, SameMarks
<1>6. Marked(c)' /\ Taught(c)'
  BY <1>1, <1>4 DEF Honest, Marked, Taught
<1>7. Named(c)' /\ Shown(c)'
  BY <1>1 DEF Honest, Named, Shown
<1>8. Noticed(c)'
  BY <1>1, <1>2, <1>3 DEF Honest, Marked, Noticed
<1>. QED BY <1>5, <1>6, <1>7, <1>8 DEF Honest

LEMMA CommandHonest ==
  ASSUME TypeOK, \A c \in Calls : Safe(c) /\ Honest(c),
         \/ ResetAll
         \/ \E s \in Sessions : \/ ResetSession(s) \/ SessionDisposed(s)
                                \/ \E m \in ModeInputs : SetReviewMode(s, m)
         \/ \E k \in Keys : LearningForgets(k)
  PROVE  \A c \in Calls : Honest(c)'
<1>1. ASSUME ResetAll, NEW c \in Calls PROVE Honest(c)'
  <2>1. /\ UNCHANGED <<pc, ask, answering, result, said, posted, told>>
        /\ reviewStates'[c] = NoStatus /\ decisionFeedback'[c] = "none"
        /\ c \notin resolvedCallIds' /\ c \notin autoAnsweredCallIds'
        /\ c \notin timeoutFeedback'
        /\ c \in wiped => c \in wiped'
    BY <1>1 DEF ResetAll
  <2>2. Marked(c)' /\ Taught(c)'
    BY <2>1 DEF Honest, Marked, Taught
  <2>3. Named(c)' /\ Noticed(c)'
    BY <2>1 DEF Honest, Named, Noticed
  <2>4. Shown(c)'
    BY <2>1 DEF Shown, NoStatus
  <2>. QED BY <2>2, <2>3, <2>4 DEF Honest
<1>2. ASSUME UNCHANGED <<pc, ask, held, reviewing, statusMaps, marks, feedback, audit,
                         answering, history>>,
             NEW c \in Calls
      PROVE  Honest(c)'
  BY <1>2, HonestFrame DEF SameAsk, SameMaps, SameMarks
<1>. QED BY <1>1, <1>2 DEF ResetSession, SessionDisposed, SetReviewMode, LearningForgets

-----------------------------------------------------------------------------
(* The theorem and its reading *)

LEMMA NextHonest == ASSUME HonestInv, [Next]_vars PROVE HonestInv'
<1>. /\ TypeOK /\ SafeInv /\ SafeInv' /\ \A c \in Calls : Safe(c) /\ Honest(c)
     /\ \A c \in Calls : Safe(c)'
  BY NextSafe DEF HonestInv, SafeInv
<1>1. ASSUME NEW c \in Calls, Local(c), Honest(c)' /\ Apart(c) PROVE HonestInv'
  BY <1>1, OneHonest DEF HonestInv
<1>2. CASE UNCHANGED vars
  BY <1>2, HonestFrame DEF vars, HonestInv, SameAsk, SameMaps, SameMarks
<1>3. ASSUME NEW c \in Calls, Request(c) PROVE HonestInv'
  BY <1>1, <1>3, RequestSafe, RequestHonest
<1>4. ASSUME NEW c \in Calls, NEW v \in VerdictInputs, LearnReturns(c, v) PROVE HonestInv'
  BY <1>1, <1>4, LearnReturnsSafe, LearnReturnsHonest
<1>5. ASSUME NEW c \in Calls, Reviewer(c) PROVE HonestInv'
  <2>1. ASSUME NEW v \in Verdicts, ReviewTakesOver(c, v) PROVE HonestInv'
    BY <1>1, <2>1, ReviewTakesOverSafe, ReviewTakesOverHonest
  <2>2. ASSUME NEW v \in Verdicts,
               ReviewDiscarded(c, v) \/ ReviewAdvises(c, v) \/ ReviewErrors(c)
        PROVE  HonestInv'
    BY <1>1, <2>2, ReviewSafe, ReviewHonest
  <2>3. "DENY" \in Verdicts /\ VerdictInputs \subseteq Verdicts
    BY AnswererAssumption DEF Verdicts
  <2>. QED BY <1>5, <2>1, <2>2, <2>3 DEF Reviewer
<1>6. ASSUME NEW c \in Calls, Browser(c) PROVE HonestInv'
  <2>1. CASE ClientResponds(c)
    BY <1>1, <2>1, ClientRespondsSafe, ClientRespondsHonest
  <2>2. CASE ClientDecides(c) \/ StrayPost(c) \/ FeedbackPost(c) \/ PostLost(c)
    <3>1. Local(c)
      BY <2>2, BrowserSafe
    <3>2. Honest(c)' /\ Apart(c)
      BY <2>2, ClientDecidesHonest, FeedbackPostHonest, SweepHonest
    <3>. QED BY <1>1, <3>1, <3>2
  <2>. QED BY <1>6, <2>1, <2>2 DEF Browser
<1>7. ASSUME NEW c \in Calls, PanelOpens(c) \/ Sweep(c) \/ FeedbackExpires(c)
      PROVE  HonestInv'
  <2>1. Local(c)
    BY <1>7, BrowserSafe
  <2>. QED BY <1>1, <1>7, <2>1, SweepHonest
<1>8. ASSUME NEW c \in Calls, NEW e \in BOOLEAN, PostExecute(c, e) PROVE HonestInv'
  <2>1. Local(c)
    BY <1>8, BrowserSafe
  <2>. QED BY <1>1, <1>8, <2>1, PostExecuteHonest
<1>9. ASSUME NEW c \in Calls,
             \/ \E o \in Outcomes : HumanAnswers(c, o)
             \/ TimerFires(c) \/ Abort(c) \/ AbortAfterClaim(c)
      PROVE  HonestInv'
  BY <1>1, <1>9, HumanAnswersSafe, TimerFiresSafe, AbortSafe, HumanAnswersHonest,
     TimerFiresHonest, AbortHonest
<1>10. CASE \/ ResetAll
            \/ \E s \in Sessions : \/ ResetSession(s) \/ SessionDisposed(s)
                                   \/ \E m \in ModeInputs : SetReviewMode(s, m)
            \/ \E k \in Keys : LearningForgets(k)
  BY <1>10, CommandHonest DEF HonestInv
<1>. QED BY <1>2, <1>3, <1>4, <1>5, <1>6, <1>7, <1>8, <1>9, <1>10 DEF Next

LEMMA HonestReads == HonestInv => ProvenanceHonest /\ FollowTellsTheTruth /\ NoticeIsTrue
<1>. SUFFICES ASSUME HonestInv PROVE ProvenanceHonest /\ FollowTellsTheTruth /\ NoticeIsTrue
  OBVIOUS
<1>1. ProvenanceHonest
  BY DEF HonestInv, Honest, Named, ProvenanceHonest
<1>2. FollowTellsTheTruth
  BY DEF HonestInv, Honest, Shown, FollowTellsTheTruth
<1>3. NoticeIsTrue
  BY DEF HonestInv, Honest, Noticed, NoticeIsTrue, Unreviewed
<1>. QED BY <1>1, <1>2, <1>3

\* Every ask is safe, and what is recorded and said of it is true, for ever.
THEOREM AsksAreHonest == Spec => []HonestInv
<1>1. Init => HonestInv
  BY InitTyped, InitSafe, InitHonest DEF HonestInv, SafeInv
<1>2. HonestInv /\ [Next]_vars => HonestInv'
  BY NextHonest
<1>. QED BY <1>1, <1>2, PTL DEF Spec

\* The recorded source names the arm that won the race.
THEOREM ProvenanceAlwaysHonest == Spec => []ProvenanceHonest
BY AsksAreHonest, HonestReads, PTL

\* The status a settled ask leaves on the browser says what it settled with and
\* who settled it.
THEOREM FollowAlwaysTrue == Spec => []FollowTellsTheTruth
BY AsksAreHonest, HonestReads, PTL

\* The notice the agent reads is about this ask and true of it.
THEOREM NoticesAreTrue == Spec => []NoticeIsTrue
BY AsksAreHonest, HonestReads, PTL

-----------------------------------------------------------------------------
(* The breaker and the confirmations: a step counts for the ask it settles *)

LEMMA CountsFor ==
  ASSUME NEW n \in Nat, NEW m, NEW source, NEW decided \in BOOLEAN, NEW after,
         after = ApplyBreaker([consecutive |-> n, total |-> m], source, decided).consecutive
  PROVE  /\ after > n => after = n + 1 /\ source = "llm-deny"
         /\ after < n => source \in HumanSources
BY DEF ApplyBreaker, BreakerReset, BreakerIncrement

LEMMA LearnsFrom ==
  ASSUME NEW n \in Nat, NEW action
  PROVE  /\ Learned(n, action) > n => action = "increment"
         /\ Learned(n, action) < n => action = "reset"
BY DEF Learned

\* A settlement counts for its own session and signature, and only as its
\* source says.
LEMMA SettleCounts ==
  ASSUME NEW c \in Calls, TypeOK, Safe(c), Honest(c), Honest(c)', pc[c] = "asking",
         NEW raced \in Outcomes, NEW by, NEW verdict, NEW status \in Statuses,
         NEW fb \in [Calls -> Notices], Settle(c, raced, by, verdict, status, fb),
         Winner(c, raced, by, verdict, status, fb), wiped' = wiped
  PROVE  BreakerStep /\ LearningStep
<1>1. PICK source : source = ApprovalSource(raced, by = "timer", by = "reviewer",
                                            c \in autoAnsweredCallIds, verdict)
  OBVIOUS
<1>2. \E audited \in BOOLEAN, outcome \in Outcomes :
           /\ outcome = IF audited THEN raced ELSE "rejected"
           /\ audit'[c] = IF audited THEN Append(audit[c], Line(raced, source)) ELSE audit[c]
           /\ pc'[c] = "done"
           /\ result'[c] = [outcome |-> outcome, raced |-> raced, source |-> source,
                            by |-> by]
           /\ decisionFeedback'[c] \in {fb[c], "audit"}
           /\ \A d \in Calls \ {c} : decisionFeedback'[d] = fb[d]
           /\ learning' = [learning EXCEPT ![KeyOf[c]] =
                             Learned(@, LearnAction(c, source, outcome, audited))]
  BY <1>1, SettleWrites
<1>3. PICK audited \in BOOLEAN, outcome \in Outcomes :
           /\ outcome = IF audited THEN raced ELSE "rejected"
           /\ audit'[c] = IF audited THEN Append(audit[c], Line(raced, source)) ELSE audit[c]
           /\ result'[c] = [outcome |-> outcome, raced |-> raced, source |-> source,
                            by |-> by]
           /\ learning' = [learning EXCEPT ![KeyOf[c]] =
                             Learned(@, LearnAction(c, source, outcome, audited))]
  BY <1>2, Zenon
<1>4. /\ result'[c].outcome = outcome /\ result'[c].raced = raced
      /\ result'[c].source = source /\ result'[c].by = by
      /\ result[c] = NoResult
  BY <1>3 DEF Safe, Lifecycle
<1>5. SessionOf[c] \in Sessions /\ KeyOf[c] \in Keys
  BY AnswererAssumption
\* What the source says, the ask being honest afterwards.
<1>6. /\ source = "llm-deny" => by = "reviewer" /\ said'[c] = "DENY"
      /\ source \in HumanSources => by = "human" \/ (by = "client" /\ c \in wiped)
      /\ source = "human-allow" => raced = "allowed-once"
      /\ source = "human-deny" => raced = "rejected"
  <2>1. Named(c)'
    BY DEF Honest
  <2>2. by \in {"human", "client", "timer", "reviewer"}
    BY DEF Winner
  <2>3. CASE by = "reviewer"
    BY <1>4, <2>1, <2>3 DEF Named
  <2>4. CASE by \in {"human", "client", "timer"}
    BY <1>4, <2>1, <2>4 DEF Named, ByOutcome
  <2>. QED BY <2>2, <2>3, <2>4
<1>7. BreakerStep
  <2>1. PICK after : /\ after = ApplyBreaker([consecutive |-> denials[SessionOf[c]],
                                              total |-> totalDenials[SessionOf[c]]],
                                             source, ask[c].handled).consecutive
                     /\ denials' = [denials EXCEPT ![SessionOf[c]] = after]
    BY <1>1 DEF Settle
  <2>2. denials[SessionOf[c]] \in Nat /\ ask[c].handled \in BOOLEAN
    BY <1>5, ShapeFields DEF TypeOK
  <2>3. /\ after > denials[SessionOf[c]] =>
             after = denials[SessionOf[c]] + 1 /\ source = "llm-deny"
        /\ after < denials[SessionOf[c]] => source \in HumanSources
    BY <2>1, <2>2, CountsFor
  <2>. SUFFICES ASSUME NEW s \in Sessions
                PROVE  LET mine(w) == {d \in Calls : SessionOf[d] = s /\ Settles(d, w)} IN
                       /\ denials'[s] > denials[s] =>
                            /\ denials'[s] = denials[s] + 1
                            /\ \E d \in mine("reviewer") : said'[d] = "DENY"
                       /\ denials'[s] < denials[s] =>
                            result' = result \/ mine("human") # {} \/ mine("client") \cap wiped # {}
    BY DEF BreakerStep
  <2>4. CASE s = SessionOf[c]
    <3>1. denials'[s] = after
      BY <1>5, <2>1, <2>4 DEF TypeOK
    <3>2. Settles(c, by)
      BY <1>4 DEF Settles
    <3>. QED BY <1>6, <2>3, <2>4, <3>1, <3>2
  <2>5. CASE s # SessionOf[c]
    <3>1. denials'[s] = denials[s] /\ denials[s] \in Nat
      BY <1>5, <2>1, <2>5 DEF TypeOK
    <3>. QED BY <3>1
  <2>. QED BY <2>4, <2>5
<1>8. LearningStep
  <2>. SUFFICES ASSUME NEW k \in Keys
                PROVE  /\ learning'[k] > learning[k] =>
                            \E d \in Calls :
                              /\ KeyOf[d] = k
                              /\ Settles(d, "human") \/ (Settles(d, "client") /\ d \in wiped)
                              /\ result'[d].outcome = "allowed-once" /\ audit'[d] # <<>>
                              /\ ask[d].risk # "HIGH" \/ ask[d].learns = "outcome"
                       /\ learning'[k] < learning[k] =>
                            \/ result' = result
                            \/ \E d \in Calls : /\ KeyOf[d] = k /\ result[d] = NoResult
                                                /\ result'[d].outcome = "rejected"
    BY DEF LearningStep
  <2>1. learning \in [Keys -> Nat]
    BY DEF TypeOK
  <2>2. CASE k # KeyOf[c]
    <3>1. learning'[k] = learning[k] /\ learning[k] \in Nat
      BY <1>3, <1>5, <2>1, <2>2
    <3>. QED BY <3>1
  <2>3. CASE k = KeyOf[c]
    <3>1. PICK action : /\ action = LearnAction(c, source, outcome, audited)
                        /\ learning'[k] = Learned(learning[k], action)
      BY <1>3, <1>5, <2>1, <2>3
    <3>2. /\ learning'[k] > learning[k] => action = "increment"
          /\ learning'[k] < learning[k] => action = "reset"
      BY <2>1, <3>1, LearnsFrom
    <3>3. ASSUME action = "increment"
          PROVE  /\ by = "human" \/ (by = "client" /\ c \in wiped)
                 /\ outcome = "allowed-once" /\ audited = TRUE
                 /\ ask[c].risk # "HIGH" \/ ask[c].learns = "outcome"
      <4>1. CASE ask[c].learns = "source" /\ audited = TRUE
        <5>1. source = "human-allow"
          BY <3>1, <3>3, <4>1 DEF LearnAction, ConfirmActionFor
        <5>2. ask[c].risk # "HIGH"
          BY <4>1 DEF Honest, Taught
        <5>. QED BY <1>3, <1>6, <4>1, <5>1, <5>2
      <4>2. CASE ask[c].learns = "outcome"
        <5>1. outcome = "allowed-once"
          BY <3>1, <3>3, <4>2 DEF LearnAction
        <5>2. audited = TRUE
          BY <1>3, <5>1
        <5>3. ask[c].kind # "countdown"
          BY <4>2 DEF Honest, Taught
        <5>4. by = "human" \/ (by = "client" /\ c \in wiped)
          BY <5>3 DEF Winner, Honest, Marked
        <5>. QED BY <4>2, <5>1, <5>2, <5>4
      <4>3. ask[c].learns = "outcome" \/ (ask[c].learns = "source" /\ audited = TRUE)
        BY <3>1, <3>3 DEF LearnAction
      <4>. QED BY <4>1, <4>2, <4>3
    <3>4. ASSUME action = "reset" PROVE outcome = "rejected"
      <4>1. CASE ask[c].learns = "source" /\ audited = TRUE
        <5>1. source = "human-deny"
          BY <3>1, <3>4, <4>1 DEF LearnAction, ConfirmActionFor
        <5>. QED BY <1>3, <1>6, <4>1, <5>1
      <4>2. CASE ask[c].learns = "outcome"
        BY <3>1, <3>4, <4>2 DEF LearnAction
      <4>3. ask[c].learns = "outcome" \/ (ask[c].learns = "source" /\ audited = TRUE)
        BY <3>1, <3>4 DEF LearnAction
      <4>. QED BY <4>1, <4>2, <4>3
    <3>5. audited = TRUE => audit'[c] # <<>>
      <4>1. audit[c] = <<>>
        BY DEF Safe, Lifecycle
      <4>2. Append(<<>>, Line(raced, source)) # <<>>
        OBVIOUS
      <4>. QED BY <1>3, <4>1, <4>2
    <3>6. Settles(c, by)
      BY <1>4 DEF Settles
    <3>. QED BY <1>4, <2>3, <3>2, <3>3, <3>4, <3>5, <3>6
  <2>. QED BY <2>2, <2>3
<1>. QED BY <1>7, <1>8

\* A step that settles nothing clears counts and confirmations, or leaves them.
LEMMA QuietCounts ==
  ASSUME TypeOK,
         \/ denials' = denials
         \/ result' = result /\ \A s \in Sessions : denials'[s] \in {denials[s], 0},
         \/ learning' = learning
         \/ result' = result /\ \A k \in Keys : learning'[k] \in {learning[k], 0}
  PROVE  BreakerStep /\ LearningStep
<1>1. /\ \A s \in Sessions : denials[s] \in Nat
      /\ \A k \in Keys : learning[k] \in Nat
  BY DEF TypeOK
<1>2. BreakerStep
  <2>1. \A s \in Sessions : /\ ~(denials'[s] > denials[s])
                            /\ denials'[s] < denials[s] => result' = result
    BY <1>1
  <2>. QED BY <2>1 DEF BreakerStep
<1>3. LearningStep
  <2>1. \A k \in Keys : /\ ~(learning'[k] > learning[k])
                        /\ learning'[k] < learning[k] => result' = result
    BY <1>1
  <2>. QED BY <2>1 DEF LearningStep
<1>. QED BY <1>2, <1>3

LEMMA StepCounts == ASSUME HonestInv, [Next]_vars PROVE BreakerStep /\ LearningStep
<1>. /\ TypeOK /\ \A c \in Calls : Safe(c) /\ Honest(c) /\ Honest(c)'
  BY NextHonest DEF HonestInv, SafeInv
<1>1. CASE UNCHANGED <<denials, learning>>
  BY <1>1, QuietCounts
<1>2. CASE UNCHANGED vars
  BY <1>1, <1>2 DEF vars
<1>3. ASSUME NEW c \in Calls, Request(c) \/ \E v \in VerdictInputs : LearnReturns(c, v)
      PROVE  BreakerStep /\ LearningStep
  BY <1>1, <1>3 DEF Request, LearnReturns
<1>4. ASSUME NEW c \in Calls, NEW o \in Outcomes, HumanAnswers(c, o)
      PROVE  BreakerStep /\ LearningStep
  <2>1. /\ pc[c] = "asking" /\ reviewStates[c] \in Statuses
        /\ decisionFeedback \in [Calls -> Notices] /\ wiped' = wiped
        /\ Settle(c, o, "human", reviewVerdicts[c], reviewStates[c], decisionFeedback)
        /\ Winner(c, o, "human", reviewVerdicts[c], reviewStates[c], decisionFeedback)
    BY <1>4 DEF HumanAnswers, PanelShown, TypeOK, Winner
  <2>. QED BY <2>1, SettleCounts
<1>5. ASSUME NEW c \in Calls, NEW by \in {"timer", "client"},
             by = "timer" => TimerFires(c), by = "client" => ClientResponds(c)
      PROVE  BreakerStep /\ LearningStep
  <2>1. /\ pc[c] = "asking" /\ reviewStates[c] \in Statuses
        /\ decisionFeedback \in [Calls -> Notices] /\ wiped' = wiped
        /\ Settle(c, OutcomeOf(ask[c].action), by, reviewVerdicts[c], reviewStates[c],
                  decisionFeedback)
    BY <1>5 DEF TimerFires, TimerDue, ClientResponds, PanelShown, TypeOK
  <2>2. OutcomeOf(ask[c].action) \in Outcomes
    BY ActionTypes, ShapeFields DEF TypeOK
  <2>3. Winner(c, OutcomeOf(ask[c].action), by, reviewVerdicts[c], reviewStates[c],
               decisionFeedback)
    BY <1>5 DEF TimerFires, TimerDue, ClientResponds, Winner
  <2>. QED BY <2>1, <2>2, <2>3, SettleCounts
<1>6. ASSUME NEW c \in Calls, NEW v \in Verdicts, ReviewTakesOver(c, v)
      PROVE  BreakerStep /\ LearningStep
  BY <1>6, TakesOver, SettleCounts
<1>7. ASSUME NEW c \in Calls, Reviewer(c) PROVE BreakerStep /\ LearningStep
  BY <1>1, <1>6, <1>7, AnswererAssumption
     DEF Reviewer, ReviewDiscarded, ReviewAdvises, ReviewErrors
<1>8. ASSUME NEW c \in Calls,
             \/ PanelOpens(c) \/ Abort(c) \/ AbortAfterClaim(c) \/ ClientDecides(c)
             \/ StrayPost(c) \/ FeedbackPost(c) \/ PostLost(c) \/ Sweep(c)
             \/ FeedbackExpires(c) \/ \E e \in BOOLEAN : PostExecute(c, e)
      PROVE  BreakerStep /\ LearningStep
  BY <1>1, <1>8 DEF PanelOpens, Abort, AbortAfterClaim, AbortWith, ClientDecides, StrayPost,
     FeedbackPost, PostLost, Sweep, SweepFollow, SweepResolved, SweepAuto, FeedbackExpires,
     PostExecute
<1>9. CASE \/ ResetAll
           \/ \E s \in Sessions : \/ ResetSession(s) \/ SessionDisposed(s)
                                  \/ \E m \in ModeInputs : SetReviewMode(s, m)
           \/ \E k \in Keys : LearningForgets(k)
  <2>1. CASE ResetAll
    BY <2>1, QuietCounts DEF ResetAll
  <2>2. ASSUME NEW s \in Sessions, ResetSession(s) \/ SessionDisposed(s)
        PROVE  BreakerStep /\ LearningStep
    <3>1. /\ denials' = [denials EXCEPT ![s] = 0] /\ result' = result /\ learning' = learning
      BY <2>2 DEF ResetSession, SessionDisposed
    <3>2. \A t \in Sessions : denials'[t] \in {denials[t], 0}
      BY <3>1 DEF TypeOK
    <3>. QED BY <3>1, <3>2, QuietCounts
  <2>3. ASSUME NEW s \in Sessions, NEW m \in ModeInputs, SetReviewMode(s, m)
        PROVE  BreakerStep /\ LearningStep
    BY <1>1, <2>3 DEF SetReviewMode
  <2>4. ASSUME NEW k \in Keys, LearningForgets(k) PROVE BreakerStep /\ LearningStep
    <3>1. /\ learning' = [learning EXCEPT ![k] = 0] /\ result' = result /\ denials' = denials
      BY <2>4 DEF LearningForgets
    <3>2. \A l \in Keys : learning'[l] \in {learning[l], 0}
      BY <3>1 DEF TypeOK
    <3>. QED BY <3>1, <3>2, QuietCounts
  <2>. QED BY <1>9, <2>1, <2>2, <2>3, <2>4
<1>10. ASSUME NEW c \in Calls, Browser(c) PROVE BreakerStep /\ LearningStep
  BY <1>5, <1>8, <1>10 DEF Browser
<1>. QED BY <1>2, <1>3, <1>4, <1>5, <1>7, <1>8, <1>9, <1>10 DEF Next

\* The breaker counts the denials its reviewer really spoke, one by one, and a
\* settlement clears the count only for a human.
THEOREM BreakerAlwaysHonest == Spec => BreakerHonest
<1>1. HonestInv /\ [Next]_vars => [BreakerStep]_vars
  BY StepCounts
<1>. QED BY <1>1, AsksAreHonest, PTL DEF Spec, BreakerHonest

\* The learning layer learns from a human's audited allow only.
THEOREM LearningAlwaysHonest == Spec => LearningHonest
<1>1. HonestInv /\ [Next]_vars => [LearningStep]_vars
  BY StepCounts
<1>. QED BY <1>1, AsksAreHonest, PTL DEF Spec, LearningHonest
=============================================================================

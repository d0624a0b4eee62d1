--------------------------- MODULE ReviewChannel ---------------------------
(***************************************************************************)
(* One review of the deep-review lane (reviewWithLLM and retryReviewLoop)  *)
(* beside the countdown it races: a snapshot, then attempts with a timeout *)
(* of their own, back-off waits, and a deadline that the loop derives from *)
(* the seconds of the countdown.  Time is counted in ticks of half a       *)
(* second; no tick passes while a timer is due.                            *)
(*                                                                         *)
(* The ask is one that must not survive its reviewer's failure (LOW, or    *)
(* unattended MEDIUM): a failure settles it at once, a verdict may.        *)
(* What an attempt may come to is ReviewEndpoint's.  The trail keeps the    *)
(* nature of each failure instead of its code.  An attempt ends when its   *)
(* signal aborts.                                                          *)
(***************************************************************************)
EXTENDS ReviewEndpoint, Sequences

CONSTANTS
  Budgets,         \* seconds of the countdown, per risk
  RetryLimits,     \* config.reviewMaxRetries
  AttemptTimeout,  \* config.reviewWaitSeconds
  Backoff,         \* REVIEW_RETRY_BACKOFF_MS
  Guard,           \* REVIEW_RETRY_GUARD_MS
  RetryAfters,     \* Retry-After headers a provider may send, 0 = none
  Statuses,        \* statuses an endpoint may answer with (a bound of a run)
  MaxSnapshot      \* how long the credentials may take to resolve (a bound)

ASSUME ChannelAssumption ==
  /\ Budgets \subseteq Nat \ {0} /\ RetryLimits \subseteq Nat
  /\ AttemptTimeout \in Nat \ {0}
  /\ Backoff \in Nat \ {0} /\ Guard \in Nat
  /\ RetryAfters \subseteq Nat /\ MaxSnapshot \in Nat
  /\ Statuses \subseteq Nat

VARIABLES
  clock,
  budget, retries, async,  \* the arguments of this review
  transport,               \* of its frozen snapshot
  phase,                   \* what the loop awaits
  deadline,                \* of the loop
  n,                       \* attempts started
  remaining,               \* the window left when the attempt started
  due,                     \* when the awaited timer fires
  attempts,                \* the failure trail
  cancelled,               \* req.signal
  verdict,                 \* what reviewWithLLM resolved to
  ask,                     \* how the ask beside it ended
  throttled,               \* history: a Retry-After was waited for
  started                  \* history: when the snapshot was complete

args == <<budget, retries, async, transport>>
loop == <<phase, deadline, n, remaining, due, attempts, verdict,
          throttled, started>>
vars == <<clock, args, loop, cancelled, ask>>

Failures == {"TRANSIENT", "TIMEOUT", "REFUSED", "FENCED", "UNREADABLE"}
Ending   == [code : Codes, wait : Nat, nature : Failures]
Asks     == {"open", "human", "timer", "reviewer", "aborted"}

Init ==
  /\ clock = 0
  /\ budget \in Budgets /\ retries \in RetryLimits /\ async \in BOOLEAN
  /\ transport \in {Snapshot(s) : s \in Settings}
  /\ phase = "snapshot" /\ deadline = 0 /\ n = 0 /\ remaining = 0 /\ due = 0
  /\ attempts = <<>> /\ verdict = "none"
  /\ throttled = FALSE /\ started = 0
  /\ cancelled = FALSE /\ ask = "open"

-----------------------------------------------------------------------------
\* How an attempt may end.  A name is resolved again for every attempt.
RawEndings ==
  { [code |-> RawAttempt(h, d, r).code, wait |-> RawAttempt(h, d, r).wait,
     nature |-> RawNature(h, d, r)] :
      h \in Hosts, d \in Resolutions, r \in Replies(RetryAfters, Statuses) }
HostEndings ==
  { [code |-> a.code, wait |-> a.wait, nature |-> HostNature(a.code)] :
      a \in HostAttempts(RetryAfters) }
Endings == IF transport = "raw" THEN RawEndings ELSE HostEndings

\* Faulty variant: the guard is not reserved.
WindowWithoutGuard(end) == end - clock

\* What is left of the loop's window.
Window(end) == end - clock - Guard

\* The timeout of one attempt.
TimeoutFor(left) == IF left < AttemptTimeout THEN left ELSE AttemptTimeout

\* The review ends; the ask, if it is still open, hears it.
Returns(v) == phase' = "done" /\ verdict' = v
Heard(v) ==
  ask' \in CASE ask # "open"                     -> {ask}
             [] ask = "open" /\ v = "failure"    -> {"reviewer"}
             [] OTHER                            -> {"open", "reviewer"}

\* The head of the loop: the next attempt, or the end of the window.
Attempts(end) ==
  LET left == Window(end) IN
  /\ left > 0
  /\ phase' = "attempt" /\ n' = n + 1 /\ remaining' = left
  /\ due' = clock + TimeoutFor(left)
  /\ UNCHANGED <<verdict, ask>>
Exhausted(end) ==
  /\ Window(end) <= 0
  /\ Returns("failure") /\ Heard("failure")
  /\ UNCHANGED <<n, remaining, due>>

SnapshotResolves ==
  /\ phase = "snapshot" /\ transport # "refused"
  /\ deadline' = clock + budget /\ started' = clock
  /\ Attempts(clock + budget) \/ Exhausted(clock + budget)
  /\ UNCHANGED <<clock, args, attempts, throttled, cancelled>>

\* A half-configured lane or an unsafe endpoint at once; an endpoint without a
\* key once the credentials have answered.
SnapshotFails ==
  /\ phase = "snapshot" /\ transport # "host"
  /\ Returns("failure") /\ Heard("failure") /\ started' = clock
  /\ UNCHANGED <<clock, args, deadline, n, remaining, due, attempts, throttled,
                 cancelled>>

AttemptReturns ==
  /\ phase = "attempt" /\ ~cancelled
  /\ \E e \in Endings : e.code = Value
  /\ Returns("value") /\ Heard("value")
  /\ UNCHANGED <<clock, args, deadline, n, remaining, due, attempts, throttled,
                 started, cancelled>>

\* An attempt fails with a code and a Retry-After.
Fails(e) ==
  LET delay == IF e.wait > 0 THEN e.wait ELSE Backoff
      ends  == cancelled \/ n > retries \/ ~IsReviewRetryable(e.code, async)
                 \/ delay > remaining
  IN
  /\ attempts' = Append(attempts, e.nature)
  /\ \/ ends /\ Returns("failure") /\ Heard("failure") /\ UNCHANGED <<due, throttled>>
     \/ /\ ~ends
        /\ phase' = "sleep" /\ due' = clock + delay
        /\ throttled' = (throttled \/ e.wait > 0)
        /\ UNCHANGED <<verdict, ask>>
  /\ UNCHANGED <<clock, args, deadline, n, remaining, started, cancelled>>

AttemptFails(e) == phase = "attempt" /\ e.code # Value /\ Fails(e)

\* The signal of the attempt aborts it.
TimedOut == [code |-> "TIMEOUT", wait |-> 0, nature |-> "TIMEOUT"]
AttemptTimesOut ==
  phase = "attempt" /\ clock = due /\ ~cancelled /\ Fails(TimedOut)

Wakes ==
  /\ phase = "sleep" /\ clock = due
  /\ Attempts(deadline) \/ Exhausted(deadline)
  /\ UNCHANGED <<clock, args, deadline, attempts, throttled, started, cancelled>>

\* Faulty variants: the cancelled wait drops its timer and never resolves; the
\* wait does not listen to the cancellation.
CancelDropsTimer ==
  IF phase = "attempt" THEN Returns("failure") /\ due' = due
  ELSE due' = -1 /\ UNCHANGED <<phase, verdict>>
CancelUnheardAsleep ==
  IF phase = "attempt" THEN Returns("failure") /\ due' = due
  ELSE UNCHANGED <<phase, verdict, due>>

\* An attempt or a wait ends with its request; a snapshot goes on.
CancelReaches ==
  IF phase \in {"attempt", "sleep"} THEN Returns("failure") /\ due' = due
  ELSE UNCHANGED <<phase, verdict, due>>

\* The user or the session cancels the request.
Cancels ==
  /\ ~cancelled /\ cancelled' = TRUE
  /\ CancelReaches
  /\ attempts' = IF phase = "attempt" THEN Append(attempts, "REFUSED") ELSE attempts
  /\ ask' = IF ask = "open" THEN "aborted" ELSE ask
  /\ UNCHANGED <<clock, args, deadline, n, remaining, throttled, started>>

-----------------------------------------------------------------------------
HumanAnswers ==
  /\ ask = "open" /\ ask' = "human"
  /\ UNCHANGED <<clock, args, loop, cancelled>>

CountdownExpires ==
  /\ ask = "open" /\ clock = budget /\ ask' = "timer"
  /\ UNCHANGED <<clock, args, loop, cancelled>>

Timers == (IF phase \in {"attempt", "sleep"} THEN {due} ELSE {})
            \cup (IF phase = "snapshot" THEN {IF transport = "raw" THEN MaxSnapshot ELSE clock}
                ELSE {})
            \cup (IF ask = "open" THEN {budget} ELSE {})

\* Time passes while somebody waits and nobody is due; an attempt under an
\* aborted request fails before the next tick.
Tick ==
  /\ Timers # {} /\ \A t \in Timers : clock < t
  /\ ~(phase = "attempt" /\ cancelled)
  /\ clock' = clock + 1
  /\ UNCHANGED <<args, loop, cancelled, ask>>

Next ==
  \/ SnapshotResolves \/ SnapshotFails
  \/ AttemptReturns \/ AttemptTimesOut
  \/ \E e \in Endings : AttemptFails(e)
  \/ Wakes \/ Cancels \/ HumanAnswers \/ CountdownExpires \/ Tick

Spec == Init /\ [][Next]_vars

\* Time passes, timers fire, the credentials resolve in the end, and an attempt
\* whose request is aborted ends.
FairSpec ==
  /\ Spec
  /\ WF_vars(Tick) /\ WF_vars(AttemptTimesOut)
  /\ WF_vars(SnapshotResolves \/ (transport = "refused" /\ SnapshotFails))
  /\ WF_vars(Wakes) /\ WF_vars(CountdownExpires)
  /\ WF_vars(cancelled /\ \E e \in Endings : AttemptFails(e))

-----------------------------------------------------------------------------
\* Every piece of state has its type.
TypeOK ==
  /\ clock \in Nat /\ budget \in Budgets /\ retries \in RetryLimits
  /\ transport \in {"host", "raw", "refused"}
  /\ async \in BOOLEAN /\ cancelled \in BOOLEAN /\ throttled \in BOOLEAN
  /\ phase \in {"snapshot", "attempt", "sleep", "done"}
  /\ deadline \in Nat /\ n \in Nat /\ remaining \in Nat /\ due \in Nat
  /\ started \in Nat
  /\ attempts \in Seq(Failures)
  /\ verdict \in {"none", "value", "failure"} /\ ask \in Asks

\* "Time reserved before the deadline so a retry can never land on the
\* countdown edge" (guardMs): no attempt is in flight inside the guard, whether
\* it is the first one or follows any number of waits.
AttemptsKeepGuard == phase = "attempt" => clock <= deadline - Guard

\* Two final failures are thrown as plain errors, which toLlmFailure cannot tell
\* from a broken connection.
Masked == {"FENCED", "UNREADABLE"}
Resendable(nature) ==
  \/ nature \in {"TRANSIENT"} \cup Masked
  \/ nature = "TIMEOUT" /\ ~async

\* "Auth/config errors must never re-send the request body/credentials"
\* (retry.ts:82-83), and a timeout is final on the asynchronous paths, as far as
\* the code keeps it: whatever the wire, the fence, the adapter and the parsers
\* make of it, an attempt follows only a failure that passes or a Masked one, and
\* there are no more than allowed.
OnlyTransientResent ==
  /\ n <= retries + 1 /\ Len(attempts) <= n
  /\ \A i \in 1..Len(attempts) : i < n => Resendable(attempts[i])

\* The comment without that exception, with "malformed = BAD_RESPONSE (not
\* retried)" (review-pipeline.ts:288) and the fence's "misconfiguration"
\* (endpoint-call.ts:248-251): what is final is not tried again.
FinalNeverResent ==
  \A i \in 1..Len(attempts) : i < n => attempts[i] \notin {"REFUSED"} \cup Masked

\* "A reviewer failure still fails closed immediately" and "never waits for the
\* countdown" (src/src/index.ts, LOW): when the countdown runs out, a verdict had
\* left it open, a Retry-After of the provider had been waited for, or the
\* snapshot took longer than the guard spares.
FailureBeatsCountdown ==
  ask = "timer" =>
    \/ verdict = "value" \/ throttled
    \/ phase = "snapshot" \/ started >= budget \/ started >= Guard - Backoff

\* "A user-cancelled signal aborts the whole loop immediately": after it no
\* attempt follows another.
CancelStopsRetries == [][cancelled /\ n > 0 => n' = n]_vars

\* Whatever is sent again is sent within the limit and the guard, while the
\* request is still wanted, and after no refusal the code can see.
RetryDiscipline ==
  [](OnlyTransientResent /\ AttemptsKeepGuard) /\ CancelStopsRetries

\* A review comes to an end, however its attempts fail and whoever settles the
\* ask before.
ReviewReturns == <>(phase = "done")

\* "providerRetryAfterMs wins over the fixed backoff when it fits in the
\* remaining window; otherwise the loop gives up" (src/src/auto/retry.ts:130).
WaitFitsWindow == phase = "sleep" => due <= deadline
=============================================================================

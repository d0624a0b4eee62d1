------------------------- MODULE ReviewChannelProofs -------------------------
(***************************************************************************)
(* The safety of a review for every countdown, retry limit, timeout,       *)
(* back-off, guard and Retry-After.                                        *)
(*                                                                         *)
(* What is missing from the properties to be inductive is timing: a timer  *)
(* that is awaited is not behind the clock, an attempt's timer keeps the   *)
(* guard, and a wait that no provider asked for ends at most one back-off  *)
(* after the guard begins.                                                 *)
(***************************************************************************)
EXTENDS ReviewChannel, TLAPS

Timing ==
  /\ phase = "snapshot" => n = 0 /\ attempts = <<>>
  /\ phase \in {"attempt", "sleep"} =>
       n > 0 /\ deadline = started + budget /\ clock <= due
  /\ phase = "attempt" => due <= deadline - Guard
  /\ phase = "sleep" => throttled \/ due <= deadline - Guard + Backoff
  /\ phase = "done" <=> verdict # "none"

\* The ask beside the review.
Countdown ==
  /\ ask = "open"  => clock <= budget
  /\ ask = "timer" => clock >= budget
  /\ verdict = "failure" => ask # "open"
  /\ FailureBeatsCountdown

Trail ==
  /\ Len(attempts) <= n /\ n <= retries + 1
  /\ phase = "attempt" => Len(attempts) = n - 1
  /\ phase = "sleep"   => Len(attempts) = n /\ n <= retries
  /\ \A i \in 1..Len(attempts) : i < n \/ phase = "sleep" => Resendable(attempts[i])

Stopped == cancelled => phase # "sleep"

IInv == TypeOK /\ Timing /\ Countdown /\ Trail /\ Stopped

USE ChannelAssumption DEF args, loop

LEMMA InitInv == Init => IInv
<1>. SUFFICES ASSUME Init PROVE IInv
  OBVIOUS
<1>1. budget \in Nat /\ retries \in Nat
  BY DEF Init
<1>2. attempts = <<>> /\ attempts \in Seq(Failures) /\ Len(attempts) = 0
  BY DEF Init
<1>3. TypeOK
  <2>1. transport \in {"host", "raw", "refused"}
    BY DEF Init, Snapshot
  <2>. QED BY <1>2, <2>1 DEF Init, TypeOK, Asks
<1>4. Timing /\ Stopped
  BY DEF Init, Timing, Stopped
<1>5. Countdown
  BY <1>1 DEF Init, Countdown, FailureBeatsCountdown
<1>6. Trail
  <2>1. n = 0 /\ phase = "snapshot"
    BY DEF Init
  <2>. QED BY <1>1, <1>2, <2>1 DEF Trail
<1>. QED BY <1>3, <1>4, <1>5, <1>6 DEF IInv

LEMMA Numbers ==
  ASSUME IInv
  PROVE  /\ clock \in Nat /\ budget \in Nat /\ retries \in Nat /\ n \in Nat
         /\ deadline \in Nat /\ remaining \in Nat /\ due \in Nat /\ started \in Nat
         /\ AttemptTimeout \in Nat /\ Backoff \in Nat /\ Guard \in Nat
BY DEF IInv, TypeOK

\* The head of the loop.
LEMMA AttemptsStart ==
  ASSUME IInv, NEW end \in Nat, Attempts(end)
  PROVE  /\ phase' = "attempt" /\ n' = n + 1 /\ n' \in Nat /\ remaining' \in Nat
         /\ due' \in Nat /\ clock <= due' /\ due' <= end - Guard
         /\ verdict' = verdict /\ ask' = ask
<1>. DEFINE left == end - clock - Guard
<1>1. /\ left > 0 /\ phase' = "attempt" /\ n' = n + 1 /\ remaining' = left
      /\ due' = clock + TimeoutFor(left) /\ UNCHANGED <<verdict, ask>>
  BY DEF Attempts, Window
<1>2. left \in Nat
  BY <1>1, Numbers
<1>3. TimeoutFor(left) \in Nat /\ TimeoutFor(left) <= left
  BY <1>2, Numbers DEF TimeoutFor
<1>. QED BY <1>1, <1>2, <1>3, Numbers

LEMMA HeardType ==
  ASSUME IInv, NEW v \in {"value", "failure"}, Heard(v)
  PROVE  /\ ask' \in Asks
         /\ ask' = ask \/ (ask = "open" /\ ask' = "reviewer")
         /\ v = "failure" => ask' # "open"
BY DEF IInv, TypeOK, Heard, Asks

\* A review that returns, whatever it returns and whatever its trail.
LEMMA ReturnInv ==
  ASSUME IInv, phase # "done", NEW v \in {"value", "failure"}, Returns(v), Heard(v),
         UNCHANGED <<clock, args, n, cancelled>>,
         deadline' \in Nat, remaining' \in Nat, due' \in Nat,
         throttled' = throttled,
         \/ started' = started /\ phase # "snapshot"
         \/ started' = clock /\ phase = "snapshot",
         attempts' \in Seq(Failures), Len(attempts') <= n,
         \A i \in 1..Len(attempts') : i < n => Resendable(attempts'[i])
  PROVE  IInv'
<1>1. /\ phase' = "done" /\ verdict' = v
      /\ ask' \in Asks /\ (ask' = ask \/ (ask = "open" /\ ask' = "reviewer"))
      /\ v = "failure" => ask' # "open"
  BY HeardType DEF Returns
<1>2. TypeOK'
  BY <1>1 DEF IInv, TypeOK
<1>3. Timing' /\ Stopped'
  BY <1>1 DEF Timing, Stopped
<1>4. Countdown'
  BY <1>1, Numbers DEF IInv, TypeOK, Timing, Countdown, FailureBeatsCountdown
<1>5. Trail'
  BY <1>1 DEF IInv, Trail, Resendable
<1>. QED BY <1>2, <1>3, <1>4, <1>5 DEF IInv

LEMMA SnapshotInv ==
  ASSUME IInv, SnapshotResolves \/ SnapshotFails PROVE IInv'
<1>1. /\ phase = "snapshot" /\ n = 0 /\ attempts = <<>> /\ attempts' = attempts
      /\ started' = clock
      /\ UNCHANGED <<clock, args, throttled, cancelled>>
  BY DEF IInv, Timing, SnapshotResolves, SnapshotFails
<1>2. CASE SnapshotFails
  BY <1>1, <1>2, ReturnInv DEF SnapshotFails, IInv, TypeOK
<1>3. CASE SnapshotResolves
  <2>1. clock + budget \in Nat
    BY DEF IInv, TypeOK
  <2>2. CASE Exhausted(clock + budget)
    BY <1>1, <1>3, <2>1, <2>2, ReturnInv DEF SnapshotResolves, Exhausted, IInv, TypeOK
  <2>3. CASE Attempts(clock + budget)
    <3>1. /\ phase' = "attempt" /\ n' = 1 /\ remaining' \in Nat
          /\ due' \in Nat /\ clock <= due' /\ due' <= clock + budget - Guard
          /\ verdict' = verdict /\ ask' = ask /\ deadline' = clock + budget
      <4>1. PICK end \in Nat : end = clock + budget /\ Attempts(end)
        BY <2>1, <2>3, Zenon
      <4>2. /\ phase' = "attempt" /\ n' = n + 1 /\ remaining' \in Nat
            /\ due' \in Nat /\ clock <= due' /\ due' <= end - Guard
            /\ verdict' = verdict /\ ask' = ask
        BY <4>1, AttemptsStart
      <4>3. deadline' = clock + budget
        BY <1>3 DEF SnapshotResolves
      <4>4. n' = 1
        BY <1>1, <4>2
      <4>. QED BY <4>1, <4>2, <4>3, <4>4, Numbers
    <3>2. TypeOK'
      BY <1>1, <2>1, <3>1 DEF IInv, TypeOK
    <3>3. Timing' /\ Stopped'
      BY <1>1, <3>1, Numbers DEF IInv, TypeOK, Timing, Stopped
    <3>4. Countdown'
      BY <1>1, <3>1, Numbers DEF IInv, TypeOK, Timing, Countdown, FailureBeatsCountdown
    <3>5. Trail'
      <4>1. Len(attempts') = 0 /\ retries' = retries /\ retries \in Nat
        BY <1>1, Numbers
      <4>. QED BY <3>1, <4>1 DEF Trail
    <3>. QED BY <3>2, <3>3, <3>4, <3>5 DEF IInv
  <2>. QED BY <1>3, <2>2, <2>3 DEF SnapshotResolves
<1>. QED BY <1>2, <1>3

LEMMA AttemptReturnsInv == ASSUME IInv, AttemptReturns PROVE IInv'
BY ReturnInv DEF AttemptReturns, IInv, TypeOK, Trail

\* What the loop takes for a passing failure was one, or a Masked one, on either
\* transport.
LEMMA RawEndingsHonest ==
  ASSUME NEW h \in Hosts, NEW d, NEW r \in Replies(RetryAfters, Statuses),
         RawAttempt(h, d, r).code # Value
  PROVE  /\ RawAttempt(h, d, r).code \in Codes /\ RawAttempt(h, d, r).wait \in Nat
         /\ RawNature(h, d, r) \in Failures
         /\ IsReviewRetryable(RawAttempt(h, d, r).code, async)
              => Resendable(RawNature(h, d, r))
<1>1. /\ r.status \in Nat /\ r.wait \in Nat /\ r.broken \in BOOLEAN /\ r.big \in BOOLEAN
      /\ r.body \in Bodies
  BY DEF Replies
<1>2. RawNature(h, d, r) \in Failures
  BY <1>1 DEF RawNature, Failures, Bodies
<1>3. CASE ~TargetAllowed(h, d) \/ r.broken
  <2>1. RawAttempt(h, d, r) = [code |-> "TRANSPORT", wait |-> 0]
    BY <1>1, <1>3 DEF RawAttempt, PostEndpoint, Bare, Result
  <2>2. RawNature(h, d, r) \in {"FENCED", "TRANSIENT"}
    BY <1>1, <1>3 DEF RawNature
  <2>. QED BY <1>2, <2>1, <2>2 DEF Resendable, Masked, Codes, HostCodes
<1>4. CASE TargetAllowed(h, d) /\ ~r.broken /\ r.big
  <2>1. RawAttempt(h, d, r) = [code |-> "HTTP", wait |-> 0]
    BY <1>1, <1>4 DEF RawAttempt, PostEndpoint, Result, HttpStatusFailure
  <2>. QED BY <1>2, <2>1 DEF IsReviewRetryable, RetryableCodes, Codes, HostCodes
<1>5. CASE TargetAllowed(h, d) /\ ~r.broken /\ ~r.big /\ r.status \notin 200..299
  <2>1. RawAttempt(h, d, r) = [code |-> HttpStatusFailure(r.status), wait |-> r.wait]
    BY <1>1, <1>5 DEF RawAttempt, PostEndpoint, Result
  <2>2. /\ HttpStatusFailure(r.status) \in Codes
        /\ HttpStatusFailure(r.status) \in {"RATE_LIMIT", "SERVER"}
             => r.status = 429 \/ r.status >= 500
        /\ HttpStatusFailure(r.status) \in {"RATE_LIMIT", "SERVER", "AUTH",
                                              "INVALID_REQUEST", "HTTP"}
    BY <1>1 DEF HttpStatusFailure, Codes, HostCodes
  <2>3. r.status = 429 \/ r.status >= 500 => RawNature(h, d, r) = "TRANSIENT"
    BY <1>5 DEF RawNature
  <2>. QED BY <1>1, <1>2, <2>1, <2>2, <2>3
         DEF IsReviewRetryable, RetryableCodes, Resendable, Codes, HostCodes
<1>6. CASE TargetAllowed(h, d) /\ ~r.broken /\ ~r.big /\ r.status \in 200..299
  <2>1. RawAttempt(h, d, r) =
          IF r.body = "unreadable" THEN [code |-> "TRANSPORT", wait |-> 0]
          ELSE [code |-> ParseReviewText(r.body), wait |-> 0]
    BY <1>1, <1>6 DEF RawAttempt, PostEndpoint, Result, Bare
  <2>2. /\ r.body = "blank" => RawNature(h, d, r) = "TRANSIENT"
        /\ r.body = "unreadable" => RawNature(h, d, r) = "UNREADABLE"
    BY <1>1, <1>6 DEF RawNature
  <2>3. CASE r.body \in {"blank", "unreadable"}
    BY <1>2, <2>1, <2>2, <2>3 DEF ParseReviewText, Resendable, Masked, Codes, HostCodes
  <2>4. CASE r.body = "prose"
    BY <1>2, <2>1, <2>4 DEF ParseReviewText, IsReviewRetryable, RetryableCodes,
         Codes, HostCodes
  <2>5. CASE r.body = "verdict"
    BY <2>1, <2>5 DEF ParseReviewText, Value
  <2>. QED BY <1>1, <2>3, <2>4, <2>5 DEF Bodies
<1>. QED BY <1>1, <1>3, <1>4, <1>5, <1>6

LEMMA HostEndingsHonest ==
  ASSUME NEW a \in HostAttempts(RetryAfters), a.code # Value
  PROVE  /\ a.code \in Codes /\ a.wait \in Nat /\ HostNature(a.code) \in Failures
         /\ IsReviewRetryable(a.code, async) => Resendable(HostNature(a.code))
<1>1. /\ a.wait \in Nat
      /\ a.code \in HostCodes \cup {"TRANSPORT", "EMPTY_RESPONSE", "BAD_RESPONSE"}
  <2>1. CASE a \in [code : HostCodes, wait : RetryAfters]
    BY <2>1
  <2>2. CASE a = Bare
    BY <2>2 DEF Bare, Result
  <2>3. ASSUME NEW body \in Bodies \ {"unreadable"}, a = Result(ParseReviewText(body), 0)
        PROVE  a.wait = 0 /\ a.code \in {"EMPTY_RESPONSE", "BAD_RESPONSE"}
    BY <2>3 DEF Result, ParseReviewText, Value, Bodies
  <2>. QED BY <2>1, <2>2, <2>3 DEF HostAttempts
<1>. QED BY <1>1 DEF Codes, HostCodes, HostNature, Failures, IsReviewRetryable, RetryableCodes,
       Resendable

LEMMA EndingsHonest ==
  ASSUME NEW e \in Endings, e.code # Value
  PROVE  e \in Ending /\ (IsReviewRetryable(e.code, async) => Resendable(e.nature))
<1>1. CASE transport = "raw"
  <2>0. e \in RawEndings
    BY <1>1 DEF Endings
  <2>1. PICK h \in Hosts, d \in Resolutions, r \in Replies(RetryAfters, Statuses) :
          e = [code |-> RawAttempt(h, d, r).code, wait |-> RawAttempt(h, d, r).wait,
               nature |-> RawNature(h, d, r)]
    BY <2>0, SMTT(30) DEF RawEndings
  <2>2. RawAttempt(h, d, r).code # Value
    BY <2>1
  <2>. QED BY <2>1, <2>2, RawEndingsHonest DEF Ending
<1>2. CASE transport # "raw"
  <2>1. PICK a \in HostAttempts(RetryAfters) :
          e = [code |-> a.code, wait |-> a.wait, nature |-> HostNature(a.code)]
    BY <1>2 DEF Endings, HostEndings
  <2>. QED BY <2>1, HostEndingsHonest DEF Ending
<1>. QED BY <1>1, <1>2

LEMMA FailsInv ==
  ASSUME IInv, phase = "attempt", NEW e \in Ending, Fails(e),
         IsReviewRetryable(e.code, async) => Resendable(e.nature)
  PROVE  IInv'
<1>. DEFINE delay == IF e.wait > 0 THEN e.wait ELSE Backoff
            ends  == cancelled \/ n > retries \/ ~IsReviewRetryable(e.code, async)
                       \/ delay > remaining
<1>0. e.wait \in Nat /\ e.nature \in Failures
  BY DEF Ending
<1>1. /\ attempts' = Append(attempts, e.nature)
      /\ UNCHANGED <<clock, args, deadline, n, remaining, started, cancelled>>
      /\ \/ ends /\ Returns("failure") /\ Heard("failure") /\ UNCHANGED <<due, throttled>>
         \/ /\ ~ends
            /\ phase' = "sleep" /\ due' = clock + delay
            /\ throttled' = (throttled \/ e.wait > 0)
            /\ UNCHANGED <<verdict, ask>>
  BY DEF Fails
<1>2. /\ attempts' \in Seq(Failures) /\ Len(attempts') = n
      /\ \A i \in 1..Len(attempts') :
           attempts'[i] = IF i < n THEN attempts[i] ELSE e.nature
      /\ \A i \in 1..Len(attempts') : i < n => Resendable(attempts[i])
  BY <1>0, <1>1 DEF IInv, TypeOK, Trail
<1>3. CASE ends
  BY <1>1, <1>2, <1>3, ReturnInv DEF IInv, TypeOK
<1>4. CASE ~ends
  <2>1. /\ phase' = "sleep" /\ due' = clock + delay /\ delay \in Nat /\ n <= retries
        /\ throttled' = (throttled \/ e.wait > 0) /\ ~cancelled
        /\ verdict' = verdict /\ ask' = ask /\ Resendable(e.nature)
    BY <1>0, <1>1, <1>4 DEF IInv, TypeOK
  <2>2. ~throttled' => delay = Backoff
    BY <1>0, <2>1 DEF IInv, TypeOK
  <2>. HIDE DEF delay, ends
  <2>3. TypeOK'
    BY <1>1, <1>2, <2>1, Numbers DEF IInv, TypeOK
  <2>4. Timing' /\ Stopped'
    BY <1>1, <2>1, <2>2, Numbers DEF IInv, TypeOK, Timing, Stopped
  <2>5. Countdown'
    BY <1>1, <2>1, Numbers DEF IInv, TypeOK, Timing, Countdown, FailureBeatsCountdown
  <2>6. Trail'
    BY <1>1, <1>2, <2>1, Numbers DEF IInv, TypeOK, Trail, Resendable
  <2>. QED BY <2>3, <2>4, <2>5, <2>6 DEF IInv
<1>. QED BY <1>3, <1>4

LEMMA WakesInv == ASSUME IInv, Wakes PROVE IInv'
<1>1. /\ phase = "sleep" /\ clock = due /\ n > 0 /\ n <= retries
      /\ UNCHANGED <<clock, args, deadline, attempts, throttled, started, cancelled>>
      /\ \A i \in 1..Len(attempts) : Resendable(attempts[i])
  BY DEF IInv, Timing, Trail, Wakes
<1>2. CASE Exhausted(deadline)
  BY <1>1, <1>2, ReturnInv DEF Exhausted, IInv, TypeOK, Trail
<1>3. CASE Attempts(deadline)
  <2>1. /\ phase' = "attempt" /\ n' = n + 1 /\ n' \in Nat /\ remaining' \in Nat
        /\ due' \in Nat /\ clock <= due' /\ due' <= deadline - Guard
        /\ verdict' = verdict /\ ask' = ask
    BY <1>3, AttemptsStart DEF IInv, TypeOK
  <2>2. TypeOK'
    BY <1>1, <2>1, Numbers DEF IInv, TypeOK
  <2>3. Timing' /\ Stopped'
    BY <1>1, <2>1, Numbers DEF IInv, TypeOK, Timing, Stopped
  <2>4. Countdown'
    BY <1>1, <2>1, Numbers DEF IInv, TypeOK, Timing, Countdown, FailureBeatsCountdown
  <2>5. Trail'
    <3>1. /\ attempts' = attempts /\ retries' = retries /\ async' = async
          /\ Len(attempts) <= n /\ Len(attempts) \in Nat
      BY <1>1 DEF IInv, TypeOK, Trail
    <3>2. Len(attempts') <= n' /\ n' <= retries' + 1
      BY <1>1, <2>1, <3>1, Numbers
    <3>3. phase' = "attempt" => Len(attempts') = n' - 1
      BY <1>1, <2>1, <3>1, Numbers DEF IInv, Trail
    <3>4. (\A i \in 1..Len(attempts) : Resendable(attempts[i]))'
      BY <1>1, <3>1 DEF Resendable
    <3>. QED BY <2>1, <3>2, <3>3, <3>4 DEF Trail
  <2>. QED BY <2>2, <2>3, <2>4, <2>5 DEF IInv
<1>. QED BY <1>2, <1>3 DEF Wakes

\* A cancelled request ends its attempt or its wait; a snapshot goes on.
LEMMA CancelsInv == ASSUME IInv, Cancels PROVE IInv'
<1>1. /\ cancelled' = TRUE /\ CancelReaches
      /\ attempts' = IF phase = "attempt" THEN Append(attempts, "REFUSED") ELSE attempts
      /\ ask' = IF ask = "open" THEN "aborted" ELSE ask
      /\ UNCHANGED <<clock, args, deadline, n, remaining, throttled, started>>
  BY DEF Cancels
<1>2. /\ phase' = IF phase \in {"attempt", "sleep"} THEN "done" ELSE phase
      /\ verdict' = IF phase \in {"attempt", "sleep"} THEN "failure" ELSE verdict
      /\ due' = due
  BY <1>1 DEF CancelReaches, Returns
<1>3. /\ attempts' \in Seq(Failures) /\ Len(attempts') <= n
      /\ \A i \in 1..Len(attempts') : i < n => Resendable(attempts'[i])
      /\ phase # "attempt" => attempts' = attempts
  <2>1. CASE phase = "attempt"
    <3>1. Len(attempts) = n - 1 /\ attempts \in Seq(Failures) /\ n \in Nat
          /\ \A i \in 1..Len(attempts) : i < n => Resendable(attempts[i])
      BY <2>1 DEF IInv, TypeOK, Trail
    <3>2. attempts' = Append(attempts, "REFUSED") /\ "REFUSED" \in Failures
      BY <1>1, <2>1 DEF Failures
    <3>. HIDE DEF Resendable
    <3>3. attempts' \in Seq(Failures) /\ Len(attempts') = n
      BY <3>1, <3>2
    <3>4. \A i \in 1..Len(attempts') : i < n => attempts'[i] = attempts[i]
      BY <3>1, <3>2
    <3>. QED BY <2>1, <3>1, <3>3, <3>4
  <2>2. CASE phase # "attempt"
    BY <1>1, <2>2 DEF IInv, TypeOK, Trail
  <2>. QED BY <2>1, <2>2
<1>4. TypeOK'
  BY <1>1, <1>2, <1>3 DEF IInv, TypeOK, Asks
<1>5. Timing' /\ Stopped'
  BY <1>1, <1>2, <1>3, Numbers DEF IInv, TypeOK, Timing, Stopped
<1>6. Countdown'
  BY <1>1, <1>2, Numbers DEF IInv, TypeOK, Timing, Countdown, FailureBeatsCountdown
<1>7. Trail'
  <2>1. phase' # "attempt" /\ phase' # "sleep"
    BY <1>2 DEF IInv, TypeOK
  <2>2. n' = n /\ retries' = retries /\ async' = async /\ n <= retries + 1
    BY <1>1 DEF IInv, Trail
  <2>3. (\A i \in 1..Len(attempts) : i < n => Resendable(attempts[i]))'
    BY <1>3, <2>2 DEF Resendable
  <2>. QED BY <1>3, <2>1, <2>2, <2>3 DEF Trail
<1>. QED BY <1>4, <1>5, <1>6, <1>7 DEF IInv

\* A step that leaves the review alone.
LEMMA AsideInv ==
  ASSUME IInv, UNCHANGED <<args, loop, cancelled>>, clock' \in Nat, clock <= clock',
         phase \in {"attempt", "sleep"} => clock' <= due,
         ask' \in Asks,
         ask' = "open" => ask = "open" /\ clock' <= budget,
         ask' = "timer" => ask = "timer" \/ (clock' >= budget /\ FailureBeatsCountdown')
  PROVE  IInv'
<1>1. TypeOK'
  BY DEF IInv, TypeOK
<1>2. Timing' /\ Stopped'
  BY DEF IInv, Timing, Stopped
<1>3. Trail'
  BY DEF IInv, Trail, Resendable
<1>4. Countdown'
  BY Numbers DEF IInv, Countdown, FailureBeatsCountdown
<1>. QED BY <1>1, <1>2, <1>3, <1>4 DEF IInv

LEMMA HumanAnswersInv == ASSUME IInv, HumanAnswers PROVE IInv'
<1>1. UNCHANGED <<clock, args, loop, cancelled>> /\ ask' = "human"
  BY DEF HumanAnswers
<1>2. phase \in {"attempt", "sleep"} => clock <= due
  BY DEF IInv, Timing
<1>. QED BY <1>1, <1>2, Numbers, AsideInv DEF Asks

LEMMA CountdownExpiresInv == ASSUME IInv, CountdownExpires PROVE IInv'
<1>1. /\ ask = "open" /\ clock = budget /\ ask' = "timer"
      /\ UNCHANGED <<clock, args, loop, cancelled>>
  BY DEF CountdownExpires
<1>2. phase \in {"attempt", "sleep"} => clock <= due
  BY DEF IInv, Timing
<1>3. FailureBeatsCountdown'
  <2>1. CASE phase \in {"attempt", "sleep"}
    <3>1. started >= Guard - Backoff \/ throttled
      BY <1>1, <2>1, Numbers DEF IInv, Timing
    <3>. QED BY <1>1, <3>1 DEF FailureBeatsCountdown
  <2>2. CASE phase = "done"
    <3>1. verdict = "value"
      BY <1>1, <2>2 DEF IInv, TypeOK, Timing, Countdown
    <3>. QED BY <1>1, <3>1 DEF FailureBeatsCountdown
  <2>3. CASE phase = "snapshot"
    BY <1>1, <2>3 DEF FailureBeatsCountdown
  <2>. QED BY <2>1, <2>2, <2>3 DEF IInv, TypeOK
<1>. QED BY <1>1, <1>2, <1>3, Numbers, AsideInv DEF Asks

LEMMA TickInv == ASSUME IInv, Tick PROVE IInv'
<1>1. /\ \A t \in Timers : clock < t
      /\ clock' = clock + 1 /\ UNCHANGED <<args, loop, cancelled, ask>>
  BY DEF Tick
<1>2. phase \in {"attempt", "sleep"} => clock < due
  BY <1>1 DEF Timers
<1>3. ask = "open" => clock < budget
  BY <1>1 DEF Timers
<1>4. /\ clock' \in Nat /\ clock <= clock' /\ ask' = ask /\ ask \in Asks
      /\ phase \in {"attempt", "sleep"} => clock' <= due
      /\ ask = "open" => clock' <= budget
  BY <1>1, <1>2, <1>3, Numbers DEF IInv, TypeOK
<1>. QED BY <1>1, <1>4, AsideInv

\* What every reachable state satisfies.
LEMMA InvHolds == Spec => []IInv
<1>1. ASSUME IInv, [Next]_vars PROVE IInv'
  <2>1. CASE SnapshotResolves \/ SnapshotFails
    BY <1>1, <2>1, SnapshotInv
  <2>2. CASE AttemptReturns
    BY <1>1, <2>2, AttemptReturnsInv
  <2>3. CASE AttemptTimesOut
    <3>1. phase = "attempt" /\ Fails(TimedOut) /\ TimedOut \in Ending
      BY <2>3 DEF AttemptTimesOut, TimedOut, Ending, Failures, Codes, HostCodes
    <3>2. IsReviewRetryable(TimedOut.code, async) => Resendable(TimedOut.nature)
      BY DEF TimedOut, IsReviewRetryable, Resendable
    <3>. QED BY <1>1, <3>1, <3>2, FailsInv
  <2>4. ASSUME NEW e \in Endings, AttemptFails(e)
        PROVE  IInv'
    <3>1. phase = "attempt" /\ Fails(e) /\ e.code # Value
      BY <2>4 DEF AttemptFails
    <3>. QED BY <1>1, <3>1, EndingsHonest, FailsInv
  <2>5. CASE Wakes
    BY <1>1, <2>5, WakesInv
  <2>6. CASE Cancels
    BY <1>1, <2>6, CancelsInv
  <2>7. CASE HumanAnswers
    BY <1>1, <2>7, HumanAnswersInv
  <2>8. CASE CountdownExpires
    BY <1>1, <2>8, CountdownExpiresInv
  <2>9. CASE Tick
    BY <1>1, <2>9, TickInv
  <2>10. CASE UNCHANGED vars
    <3>1. /\ UNCHANGED <<clock, args, loop, cancelled, ask>> /\ ask \in Asks
      BY <1>1, <2>10 DEF vars, IInv, TypeOK
    <3>2. /\ phase \in {"attempt", "sleep"} => clock <= due
          /\ ask = "open" => clock <= budget
      BY <1>1 DEF IInv, Timing, Countdown
    <3>. QED BY <1>1, <3>1, <3>2, Numbers, AsideInv
  <2>. QED BY <1>1, <2>1, <2>2, <2>3, <2>4, <2>5, <2>6, <2>7, <2>8, <2>9, <2>10 DEF Next
<1>. QED BY InitInv, <1>1, PTL DEF Spec

-----------------------------------------------------------------------------
\* The retry loop of reviewWithLLM keeps every attempt out of the guard before
\* its deadline, whatever the waits between attempts were.
THEOREM AttemptsAlwaysKeepGuard == Spec => []AttemptsKeepGuard
<1>1. IInv => AttemptsKeepGuard
  BY Numbers DEF IInv, TypeOK, Timing, AttemptsKeepGuard
<1>. QED BY <1>1, InvHolds, PTL

\* isReviewRetryable and maxRetries bound what is tried again: an attempt follows
\* only one that failed for a while, and, against the comments of retry.ts,
\* review-pipeline.ts and endpoint-call.ts, one that the fence refused or whose
\* body could not be read.
THEOREM OnlyTransientIsResent == Spec => []OnlyTransientResent
<1>1. IInv => OnlyTransientResent
  BY DEF IInv, Trail, OnlyTransientResent, Resendable
<1>. QED BY <1>1, InvHolds, PTL

\* A failing review settles its ask before the countdown does, unless a provider
\* or the credentials made it wait.
THEOREM FailureAlwaysBeatsCountdown == Spec => []FailureBeatsCountdown
<1>1. IInv => FailureBeatsCountdown
  BY DEF IInv, Countdown
<1>. QED BY <1>1, InvHolds, PTL

\* After the request is cancelled no attempt follows another.
THEOREM CancelAlwaysStopsRetries == Spec => CancelStopsRetries
<1>1. ASSUME IInv, [Next]_vars, cancelled, n > 0 PROVE n' = n
  <2>1. phase # "sleep" /\ phase # "snapshot"
    BY <1>1, Numbers DEF IInv, Timing, Stopped
  <2>. QED BY <1>1, <2>1 DEF vars, Next, SnapshotResolves, SnapshotFails, AttemptReturns,
         AttemptFails, AttemptTimesOut, Fails, Wakes, Cancels, HumanAnswers,
         CountdownExpires, Tick
<1>2. IInv /\ [Next]_vars => [cancelled /\ n > 0 => n' = n]_vars
  BY <1>1
<1>. QED BY <1>2, InvHolds, PTL DEF Spec, CancelStopsRetries

\* The retry loop tries again only what may be (OnlyTransientResent), within its
\* limit and its guard, and while the request is wanted.
THEOREM RetriesAreDisciplined == Spec => RetryDiscipline
BY OnlyTransientIsResent, AttemptsAlwaysKeepGuard, CancelAlwaysStopsRetries, PTL
DEF RetryDiscipline
=============================================================================

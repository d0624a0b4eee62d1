----------------------------- MODULE HumanRace -----------------------------
(***************************************************************************)
(* raceHumanDecision (src/src/auto/decision.ts) behind the panel gate of   *)
(* createPanelGate and the delegate of askHuman (src/src/index.ts), at the *)
(* grain of the event loop: promise reactions are jobs in a queue, a timer,*)
(* a click, a cancellation or a reviewer's answer is a macrotask, and a    *)
(* macrotask runs only when the queue is empty.                            *)
(*                                                                         *)
(* How many jobs lie between an event and its reaction depends on code     *)
(* outside (next() and the reviewer's promise chain), so it is chosen      *)
(* freely up to MaxHops; the jobs of the race itself are counted exactly.  *)
(***************************************************************************)
EXTENDS Naturals, Sequences

CONSTANTS
  MaxHops,      \* bound on the jobs before an outside event reaches the race
  TimeoutInputs \* what the countdown answers: a subset of Outcomes

Outcomes == {"allowed-once", "rejected"}
Nothing  == "nothing"
NoArm    == [via |-> "none", value |-> Nothing]
Pending  == [outcome |-> Nothing, timedOut |-> FALSE, claimed |-> FALSE]

ASSUME RaceAssumption == MaxHops \in Nat /\ TimeoutInputs \subseteq Outcomes

VARIABLES
  jobs,            \* the microtask queue
  gate,            \* of the panel: "none", "held", "released", "cancelled"
  next,            \* the delegated approval: "uncalled", "pending", "settled"
  reviewer,        \* "working" or "done"
  onTimeout,       \* opts.status.action, as an outcome
  timer,           \* "armed", "fired" or "cleared"
  timedOut, claimed, finishedByNext,
  raced,           \* what racedPromise was resolved with
  won,             \* the arm Promise.race settled with
  returned,        \* what askHuman received
  \* History, read by properties only.
  noticed,         \* a timeout notice was recorded
  spoken,          \* what each side said
  forwarded        \* next() was called

flags == <<timedOut, claimed, finishedByNext>>
outer == <<gate, next, reviewer, onTimeout>>
seen  == <<noticed, spoken, forwarded>>
vars  == <<jobs, outer, timer, flags, raced, won, returned, seen>>

Job(do, value, hops) == [do |-> do, value |-> value, hops |-> hops]
Say(side, value)     == spoken \cup {<<side, value>>}

Init ==
  /\ jobs = <<Job("delegate", Nothing, 0)>>
  /\ gate \in {"none", "held"}
  /\ next = "uncalled" /\ reviewer \in {"working", "done"}
  /\ onTimeout \in TimeoutInputs
  /\ timer = "armed"
  /\ timedOut = FALSE /\ claimed = FALSE /\ finishedByNext = FALSE
  /\ raced = Nothing /\ won = NoArm /\ returned = Pending
  /\ noticed = FALSE /\ spoken = {} /\ forwarded = FALSE

-----------------------------------------------------------------------------
(* Macrotasks *)

Idle == jobs = <<>>

\* The approval panel answers, or the request is cancelled.
NextSettles(side, value) ==
  /\ Idle /\ next = "pending"
  /\ next' = "settled"
  /\ \E hops \in 0..MaxHops : jobs' = <<Job("tagNext", value, hops)>>
  /\ spoken' = Say(side, value)
  /\ UNCHANGED <<gate, reviewer, onTimeout, timer, flags, raced, won, returned,
                 noticed, forwarded>>

ReviewerAnswers(value) ==
  /\ Idle /\ reviewer = "working"
  /\ reviewer' = "done"
  /\ \E hops \in 0..MaxHops : jobs' = <<Job("claim", value, hops)>>
  /\ spoken' = Say("claim", value)
  /\ UNCHANGED <<gate, next, onTimeout, timer, flags, raced, won, returned,
                 noticed, forwarded>>

\* Both at once: an abort signal rejects the approval and the reviewer's call,
\* in either order.
BothSettle(side, value, claim) ==
  /\ Idle /\ next = "pending" /\ reviewer = "working"
  /\ next' = "settled" /\ reviewer' = "done"
  /\ \E h, g \in 0..MaxHops :
       jobs' \in {<<Job("tagNext", value, h), Job("claim", claim, g)>>,
                  <<Job("claim", claim, g), Job("tagNext", value, h)>>}
  /\ spoken' = Say(side, value) \cup {<<"claim", claim>>}
  /\ UNCHANGED <<gate, onTimeout, timer, flags, raced, won, returned, noticed,
                 forwarded>>

HeedsTimer  == ~claimed /\ ~finishedByNext
TimerSays   == TRUE  \* settle(..., true)

\* settle(outcome, didTimeout): the flag is always written, the promise
\* resolves once.
Settle(value, didTimeout, rest) ==
  /\ timedOut' = didTimeout
  /\ IF raced = Nothing
     THEN raced' = value /\ jobs' = Append(rest, Job("tagRace", value, 0))
     ELSE raced' = raced /\ jobs' = rest

TimerExpires ==
  /\ Idle /\ timer = "armed"
  /\ timer' = "fired"
  /\ IF HeedsTimer
     THEN /\ noticed' = TRUE
          /\ spoken' = Say("host", onTimeout)
          /\ Settle(onTimeout, TimerSays, <<>>)
     ELSE UNCHANGED <<noticed, spoken, timedOut, raced, jobs>>
  /\ UNCHANGED <<outer, claimed, finishedByNext, won, returned, forwarded>>

\* The hold elapses, or the user asks for the panel.
GateReleases ==
  /\ Idle /\ gate = "held"
  /\ gate' = "released"
  /\ jobs' = <<Job("opened", Nothing, 0)>>
  /\ UNCHANGED <<next, reviewer, onTimeout, timer, flags, raced, won, returned, seen>>

-----------------------------------------------------------------------------
(* Jobs.  rest is the queue without the job that runs. *)

CallNext(rest) ==
  /\ next' = "pending" /\ forwarded' = TRUE /\ jobs' = rest
  /\ UNCHANGED <<gate, reviewer, onTimeout, timer, flags, raced, won, returned,
                 noticed, spoken>>

Quiet(rest) ==
  /\ jobs' = rest
  /\ UNCHANGED <<outer, timer, flags, raced, won, returned, seen>>

Delegate(rest) == IF gate = "none" THEN CallNext(rest) ELSE Quiet(rest)

Forwards == gate # "cancelled"

\* The gate opened: forward, or finish with undefined when it was cancelled.
Opened(rest) ==
  IF Forwards THEN CallNext(rest)
  ELSE Quiet(Append(rest, Job("tagNext", Nothing, 0)))

\* handle.claim
Claim(value, rest) ==
  IF claimed THEN Quiet(rest)
  ELSE /\ claimed' = TRUE
       /\ timer' = IF timer = "armed" THEN "cleared" ELSE timer
       /\ Settle(value, FALSE, rest)
       /\ UNCHANGED <<outer, finishedByNext, won, returned, seen>>

TagNext(value, rest) ==
  /\ finishedByNext' = TRUE
  /\ jobs' = Append(rest, Job("raceNext", value, 0))
  /\ UNCHANGED <<outer, timer, timedOut, claimed, raced, won, returned, seen>>

TagRace(value, rest) == Quiet(Append(rest, Job("raceRace", value, 0)))

\* Promise.race keeps the first arm.
Race(via, value, rest) ==
  IF won # NoArm THEN Quiet(rest)
  ELSE /\ won' = [via |-> via, value |-> value]
       /\ jobs' = Append(rest, Job("return", Nothing, 0))
       /\ UNCHANGED <<outer, timer, flags, raced, returned, seen>>

\* Faulty variant: any claim labels the decision.
ClaimLabelAny == claimed

ClaimLabel  == claimed /\ won.via = "race"
ClearsTimer == ~timedOut /\ ~claimed

\* The return of the race with its finally block, and the finally of askHuman
\* that cancels a held panel.
Return(rest) ==
  /\ returned' = [outcome |-> won.value, timedOut |-> timedOut, claimed |-> ClaimLabel]
  /\ timer' = IF ClearsTimer /\ timer = "armed" THEN "cleared" ELSE timer
  /\ IF gate = "held"
     THEN gate' = "cancelled" /\ jobs' = Append(rest, Job("opened", Nothing, 0))
     ELSE gate' = (IF gate = "none" THEN gate ELSE "cancelled") /\ jobs' = rest
  /\ UNCHANGED <<next, reviewer, onTimeout, flags, raced, won, seen>>

RunJob ==
  /\ ~Idle
  /\ LET job  == Head(jobs)
         rest == Tail(jobs)
     IN IF job.hops > 0 THEN Quiet(Append(rest, [job EXCEPT !.hops = @ - 1]))
        ELSE \/ job.do = "delegate" /\ Delegate(rest)
             \/ job.do = "opened"   /\ Opened(rest)
             \/ job.do = "claim"    /\ Claim(job.value, rest)
             \/ job.do = "tagNext"  /\ TagNext(job.value, rest)
             \/ job.do = "tagRace"  /\ TagRace(job.value, rest)
             \/ job.do = "raceNext" /\ Race("next", job.value, rest)
             \/ job.do = "raceRace" /\ Race("race", job.value, rest)
             \/ job.do = "return"   /\ Return(rest)

Macrotask ==
  \/ \E o \in Outcomes : NextSettles("panel", o) \/ ReviewerAnswers(o)
  \/ NextSettles("cancelled", "error")
  \/ \E o \in Outcomes : \/ BothSettle("cancelled", "error", o)
                         \/ \E p \in Outcomes : BothSettle("panel", p, o)
  \/ TimerExpires \/ GateReleases

Next == Macrotask \/ RunJob

Spec == Init /\ [][Next]_vars

-----------------------------------------------------------------------------
\* The side a returned decision is attributed to by its reader.
Label == CASE returned = Pending -> "nobody"
           [] returned.outcome = "error" -> "cancelled"
           [] returned.outcome \in Outcomes /\ returned.timedOut -> "host"
           [] returned.outcome \in Outcomes /\ ~returned.timedOut /\ returned.claimed -> "claim"
           [] OTHER -> "panel"

Decision == INSTANCE OneShotDecision WITH
  Sides     <- {"panel", "host", "claim", "cancelled"},
  Answers   <- Outcomes \cup {"error"},
  Undecided <- <<"nobody", Nothing>>,
  decision  <- <<Label, returned.outcome>>

\* "The outcome and the label must describe the same side that actually won": a
\* raced approval is a one-shot decision, through every order of click, claim,
\* cancellation, expiry and held panel, and a settled ask is never forwarded.
IsOneShotDecision == Decision!Spec

\* A timeout notice is recorded exactly for the asks the countdown decided.
NoticeMeansTimeout == returned # Pending => (noticed <=> returned.timedOut)

\* No countdown is left running behind a returned decision.
TimerDisarmed == returned # Pending => timer # "armed"

\* The race comes back although nobody ever answers.
RaceReturns == <>(returned # Pending)

\* The decision is one shot and is reached, the notice the user gets is about
\* the side that won it, and nothing of the race runs on behind it.
RaceIsSound ==
  /\ IsOneShotDecision
  /\ [](NoticeMeansTimeout /\ TimerDisarmed)
  /\ RaceReturns
=============================================================================

----------------------------- MODULE AskNotices -----------------------------
(***************************************************************************)
(* What the agent is told about its calls (src/src/auto/notices.ts) while  *)
(* one of them is raced: the queue of notices of a session, the greeting   *)
(* of its first call, the guidance after a refusal, and the announcements  *)
(* of entering and leaving the gated presets.                              *)
(*                                                                         *)
(* Handlers of the host's events are macrotasks.  An entry is marked seen  *)
(* only when its call's result arrives, right before it leaves the queue,  *)
(* so what is still queued is unseen.                                      *)
(***************************************************************************)
EXTENDS HumanRace
LOCAL INSTANCE SequencesExt

CONSTANTS
  Siblings,      \* the other calls of the step
  MaxGuidance,   \* REJECT_GUIDANCE_MAX_PER_MINUTE
  MaxSwitches    \* preset switches of a run

ASSUME NoticesAssumption == MaxGuidance \in Nat \ {0} /\ MaxSwitches \in Nat

VARIABLES
  life,          \* [Calls -> "unborn", "asked", "running", "refused", "over"]
  pendingNotices,
  firstAutoNoticeSeen,
  rejectGuidanceSeen,
  rejectGuidanceWindow,  \* guidance of the last minute
  sessionPreset, \* the last preset the observer saw
  switches,
  disposed,
  \* History, read by properties only.
  queued,        \* what was ever queued, per call
  delivered,     \* what the agent was told, in order
  announced      \* the announcements, in order

Raced == "raced"
Calls == {Raced} \cup Siblings

queueVars  == <<pendingNotices, firstAutoNoticeSeen, rejectGuidanceSeen,
                rejectGuidanceWindow, queued>>
presetVars == <<sessionPreset, switches, announced>>
noticeVars == <<life, queueVars, presetVars, disposed, delivered>>

AskInit ==
  /\ Init
  /\ life = [c \in Calls |-> IF c = Raced THEN "asked" ELSE "unborn"]
  /\ firstAutoNoticeSeen \in BOOLEAN
  /\ pendingNotices = [c \in Calls |->
       IF c = Raced /\ firstAutoNoticeSeen THEN <<"greeting">> ELSE <<>>]
  /\ queued = [c \in Calls |-> {pendingNotices[c][i] : i \in DOMAIN pendingNotices[c]}]
  /\ rejectGuidanceSeen = {} /\ rejectGuidanceWindow = 0
  /\ sessionPreset = "unknown" /\ switches = 0 /\ announced = <<>>
  /\ disposed = FALSE /\ delivered = <<>>

-----------------------------------------------------------------------------
(* The queue *)

QueueNotices(c, news) ==
  /\ pendingNotices' = [pendingNotices EXCEPT ![c] = @ \o news]
  /\ queued' = [queued EXCEPT ![c] = @ \cup ToSet(news)]

\* maybeInjectRejectGuidance: once per call, and not too often.
Guidance(c, refused) ==
  IF refused /\ c \notin rejectGuidanceSeen /\ rejectGuidanceWindow < MaxGuidance
  THEN <<"guidance">> ELSE <<>>
Guided(c, guidance) ==
  IF guidance = <<>> THEN UNCHANGED <<rejectGuidanceSeen, rejectGuidanceWindow>>
  ELSE /\ rejectGuidanceSeen' = rejectGuidanceSeen \cup {c}
       /\ rejectGuidanceWindow' = rejectGuidanceWindow + 1

\* A minute after the oldest.
GuidanceExpires ==
  /\ rejectGuidanceWindow > 0 /\ rejectGuidanceWindow' = rejectGuidanceWindow - 1
  /\ UNCHANGED <<vars, life, pendingNotices, firstAutoNoticeSeen, rejectGuidanceSeen, queued,
                 presetVars, disposed, delivered>>

\* The first call of the session carries the greeting; one that a rule, a list
\* or a category refuses here carries the guidance as well.
PreExecutes(c) ==
  /\ Idle /\ life[c] = "unborn" /\ ~disposed
  /\ firstAutoNoticeSeen' = TRUE
  /\ \E refused \in BOOLEAN :
       LET greeting == IF firstAutoNoticeSeen THEN <<>> ELSE <<"greeting">>
           guidance == Guidance(c, refused)
       IN /\ life' = [life EXCEPT ![c] = IF refused THEN "refused" ELSE "running"]
          /\ QueueNotices(c, greeting \o guidance) /\ Guided(c, guidance)
  /\ UNCHANGED <<vars, presetVars, disposed, delivered>>

\* The reviewer's answer is heard while the ask counts down, and says so before
\* it claims; the raced call goes on with what the race returned, unless the
\* audit log loses its allow.
Heard(job) == job.do = "claim" /\ job.value = "allowed-once" /\ returned = Pending
Runs ==
  /\ RunJob
  /\ LET job == Head(jobs)
     IN \/ /\ job.hops = 0 /\ Heard(job)
           /\ QueueNotices(Raced, <<"approved">>)
           /\ UNCHANGED <<life, firstAutoNoticeSeen, rejectGuidanceSeen, rejectGuidanceWindow,
                          presetVars, disposed, delivered>>
        \/ /\ job.hops = 0 /\ job.do = "return"
           /\ \E to \in IF won.value = "allowed-once" THEN {"running", "refused"} ELSE {"refused"} :
                life' = [life EXCEPT ![Raced] = to]
           /\ UNCHANGED <<queueVars, presetVars, disposed, delivered>>
        \/ /\ job.hops > 0 \/ ~(Heard(job) \/ job.do = "return")
           /\ UNCHANGED noticeVars

\* Faulty variant: a result flushes the queue of the session.
LeavesWithEveryResult(c, d) == TRUE

LeavesWith(c, d) == d = c

\* tools/result of one call: what is queued for it is told.  The refusal of an
\* ask arrives as a result of the host, which earns guidance; whether a call
\* that pre-execute refused has one is the host's.
Result(c) ==
  /\ Idle /\ life[c] \in {"running", "refused"} /\ ~disposed
  /\ LET guidance == Guidance(c, c = Raced /\ life[c] = "refused")
         told == pendingNotices[c] \o guidance
     IN /\ Guided(c, guidance)
        /\ queued' = [queued EXCEPT ![c] = @ \cup ToSet(guidance)]
        /\ delivered' = delivered \o [i \in DOMAIN told |-> <<c, told[i]>>]
  /\ pendingNotices' = [d \in Calls |-> IF LeavesWith(c, d) THEN <<>> ELSE pendingNotices[d]]
  /\ life' = [life EXCEPT ![c] = "over"]
  /\ UNCHANGED <<vars, firstAutoNoticeSeen, presetVars, disposed>>

\* step/end, once every call of the step is through: what never had a result is
\* not told.
StepEnds ==
  /\ Idle /\ ~disposed
  /\ \A c \in Calls : life[c] \notin {"asked", "running"}
  /\ \E c \in Calls : life[c] = "refused"
  /\ pendingNotices' = [c \in Calls |-> <<>>]
  /\ life' = [c \in Calls |-> IF life[c] = "refused" THEN "dropped" ELSE life[c]]
  /\ UNCHANGED <<vars, firstAutoNoticeSeen, rejectGuidanceSeen, rejectGuidanceWindow, queued,
                 presetVars, disposed, delivered>>

\* permission/preset: entering or leaving the gated set is announced, leaving
\* only where it was seen entered.
PresetChanges(preset) ==
  /\ Idle /\ ~disposed /\ switches < MaxSwitches /\ switches' = switches + 1
  /\ sessionPreset' = preset
  /\ announced' = CASE preset = "gated" /\ sessionPreset # "gated" -> Append(announced, "active")
                     [] preset # "gated" /\ sessionPreset = "gated" -> Append(announced, "inactive")
                     [] OTHER -> announced
  /\ UNCHANGED <<vars, life, queueVars, disposed, delivered>>

SessionDisposed ==
  /\ Idle /\ ~disposed /\ disposed' = TRUE
  /\ pendingNotices' = [c \in Calls |-> <<>>]
  /\ firstAutoNoticeSeen' = FALSE /\ rejectGuidanceSeen' = {} /\ sessionPreset' = "unknown"
  /\ UNCHANGED <<vars, life, rejectGuidanceWindow, queued, switches, announced, delivered>>

RaceMoves == Macrotask /\ UNCHANGED noticeVars

AskNext ==
  \/ RaceMoves \/ Runs
  \/ \E c \in Calls : PreExecutes(c) \/ Result(c)
  \/ GuidanceExpires \/ StepEnds \/ SessionDisposed
  \/ \E preset \in {"gated", "plain"} : PresetChanges(preset)

AskSpec == AskInit /\ [][AskNext]_<<vars, noticeVars>>

\* Jobs run and the countdown expires; nobody else owes anything.
FairAskSpec == AskSpec /\ WF_vars(Runs) /\ WF_vars(TimerExpires /\ UNCHANGED noticeVars)

-----------------------------------------------------------------------------
Told(c) == {delivered[i][2] : i \in {j \in DOMAIN delivered : delivered[j][1] = c}}

\* The agent hears of a call what was queued for it, all of it and once, when
\* the call has a result, however the calls of the step interleave, and nothing
\* of a call without one (notices.ts: "an unseen notice is never delivered"; a
\* callId "carries a LIST of notices"; one result "would drop the notices still
\* waiting for their own results").  It is greeted once, and the announcements
\* of the gated presets alternate.
NoticesReachTheAgent ==
  /\ \A c \in Calls : Told(c) = IF life[c] = "over" THEN queued[c] ELSE {}
  /\ \A i, j \in DOMAIN delivered :
       i # j => /\ delivered[i] # delivered[j]
                /\ ~(delivered[i][2] = "greeting" /\ delivered[j][2] = "greeting")
  /\ \A i \in DOMAIN announced : announced[i] = IF i % 2 = 1 THEN "active" ELSE "inactive"

\* "... 'approved X' would be a lie" (notices.ts:98-99): refuted when the
\* person rejects and the reviewer approves at the same time, and when the
\* audit log loses the allow.
ApprovedIsNoLie ==
  "approved" \in Told(Raced) => returned.outcome = "allowed-once"
=============================================================================

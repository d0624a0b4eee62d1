---------------------------- MODULE ClientProofs ----------------------------
(***************************************************************************)
(* The two halves of the client: the approval watcher, which shows what    *)
(* the host decided, and the settings page, which shows what the user      *)
(* entered.                                                                *)
(*                                                                         *)
(* The watcher, for every set of asks and every number of failures: a      *)
(* settlement off the display stays off, and no answer and no ending shown *)
(* is the tab's own invention: it is the decision of the host, or what the *)
(* host announced for an ask that it no longer reports.                    *)
(*                                                                         *)
(* The page, for every division of the keys into cards, every value, every *)
(* number of clicks, edits and foreign writes and every order in which     *)
(* routes, forms and answers arrive: what the user enters stays in its     *)
(* control, and a save that is accepted changes what it was clicked for    *)
(* and nothing else.  Neither is inductive.  A click is remembered by its  *)
(* write, so the invariants say of every write under way what the draft    *)
(* and the snapshot it carries are worth: the draft shows what was entered *)
(* before the write, and the snapshot is the host's section for as long as *)
(* the fence of the write would hold.                                      *)
(***************************************************************************)
EXTENDS Browser, SettingsCard, SequenceTheorems, TLAPS

-----------------------------------------------------------------------------
(* Types *)

Maybe(S) == S \cup {Nothing}
Requests == [at : {"none", "sent", "answered"}, got : Maybe(Statuses)]
WatchRequests == {Idle, Sent} \cup {Answer(got) : got \in [Asks -> Maybe(Statuses)]}

TypedState ==
  /\ records \in [Asks -> Maybe(Records)]
  /\ status \in [Asks -> Maybe(Statuses)]
  /\ decided \in [Asks -> Maybe(Decisions)]
  /\ announced \in [Asks -> Maybe(Outcomes)]
  /\ \A c \in Asks : c \in opened \ StatusLess => announced[c] \in Outcomes
  /\ wire \in [Asks -> Requests]
  /\ meta \in [Asks -> Maybe(Outcomes)]
  /\ answering \in [Asks -> Maybe(Outcomes)]
  /\ watchWire \in WatchRequests

LEMMA NothingIsElse ==
  Nothing \notin Outcomes /\ Nothing \notin Statuses /\ Nothing \notin Records /\ Nothing \notin Decisions
BY AsksAssumption

-----------------------------------------------------------------------------
(* The operations of the store *)

\* Each operation writes the record of its own ask only, and of that it keeps what
\* is remembered as settled.  These lemmas say what it makes of the rest.
LEMMA ObserveWrites ==
  ASSUME NEW recs \in [Asks -> Maybe(Records)], NEW d \in Asks
  PROVE  LET new == ObservePending(recs, d, d \in StatusLess) IN
         /\ \A c \in Asks \ {d} : new[c] = recs[c]
         /\ new \in [Asks -> Maybe(Records)]
         /\ \/ new[d] = recs[d]
            \/ d \notin tombstones /\ ~IsFollow(recs, d) /\ new[d] \in Records /\ new[d].phase # "follow"
<1>1. CASE d \in tombstones \/ IsFollow(recs, d)
  BY <1>1 DEF ObservePending
<1>2. CASE ~(d \in tombstones \/ IsFollow(recs, d)) /\ Shown(recs, d) /\ recs[d].phase = "countdown"
  <2>1. recs[d] \in Records
    BY <1>2 DEF Shown, Maybe
  <2> DEFINE r == [recs[d] EXCEPT !.breaker = @ \/ d \in StatusLess]
  <2>2. r \in Records /\ r.phase = "countdown"
    BY <2>1, <1>2 DEF Records
  <2>3. ObservePending(recs, d, d \in StatusLess) = [recs EXCEPT ![d] = r]
    BY <1>2, Zenon DEF ObservePending
  <2> HIDE DEF r
  <2> QED BY <2>2, <2>3, <1>2 DEF Maybe
<1>3. CASE ~(d \in tombstones \/ IsFollow(recs, d)) /\ ~(Shown(recs, d) /\ recs[d].phase = "countdown")
  <2> DEFINE r == Record("awaiting", "allow", "none", RevisionOf(recs, d), d \in StatusLess)
  <2>1. RevisionOf(recs, d) \in Int
    BY DEF RevisionOf, Shown, Maybe, Records
  <2>2. r \in Records /\ r.phase = "awaiting"
    BY <2>1 DEF Record, Records, Outcomes, Sources
  <2>3. ObservePending(recs, d, d \in StatusLess) = [recs EXCEPT ![d] = r]
    BY <1>3, Zenon DEF ObservePending
  <2> HIDE DEF r
  <2> QED BY <2>2, <2>3, <1>3 DEF Maybe
<1> QED BY <1>1, <1>2, <1>3

LEMMA ResolveWrites ==
  ASSUME NEW recs \in [Asks -> Maybe(Records)], NEW d \in Asks, NEW a \in Outcomes, NEW s \in Sources
  PROVE  LET new == Resolve(recs, d, a, s) IN
         /\ \A c \in Asks \ {d} : new[c] = recs[c]
         /\ new \in [Asks -> Maybe(Records)]
         /\ \/ new[d] = recs[d]
            \/ /\ d \notin tombstones /\ ~IsFollow(recs, d)
               /\ new[d] \in Records /\ new[d].action = a /\ new[d].source = s
<1>1. CASE d \in tombstones \/ IsFollow(recs, d)
  BY <1>1 DEF Resolve
<1>2. CASE ~(d \in tombstones \/ IsFollow(recs, d))
  <2> DEFINE r == Record("follow", a, s, RevisionOf(recs, d) + 1, FALSE)
  <2>1. RevisionOf(recs, d) \in Int
    BY DEF RevisionOf, Shown, Maybe, Records
  <2>2. r \in Records /\ r.action = a /\ r.source = s
    BY <2>1 DEF Record, Records
  <2>3. Resolve(recs, d, a, s) = [recs EXCEPT ![d] = r]
    BY <1>2, Zenon DEF Resolve
  <2> HIDE DEF r
  <2> QED BY <2>2, <2>3, <1>2 DEF Maybe
<1> QED BY <1>1, <1>2

LEMMA PublishWrites ==
  ASSUME NEW recs \in [Asks -> Maybe(Records)], NEW d \in Asks, NEW s \in Statuses
  PROVE  LET new == PublishStatus(recs, d, s) IN
         /\ \A c \in Asks \ {d} : new[c] = recs[c]
         /\ new \in [Asks -> Maybe(Records)]
         /\ \/ new[d] = recs[d]
            \/ /\ d \notin tombstones /\ new[d] \in Records
               /\ \/ new[d].phase = "countdown"
                  \/ s.phase = "follow" /\ ~IsFollow(recs, d) /\ new[d].action = s.action /\ new[d].source = s.source
<1>0. s.action \in Outcomes /\ s.source \in Sources /\ s.revision \in Int
  BY DEF Statuses
<1>1. CASE s.phase = "follow"
  <2>1. PublishStatus(recs, d, s) = Resolve(recs, d, s.action, s.source)
    BY <1>1 DEF PublishStatus
  <2> QED BY <1>0, <1>1, <2>1, ResolveWrites
<1>2. CASE s.phase # "follow"
  <2> DEFINE r == Record("countdown", s.action, "none", s.revision, Shown(recs, d) /\ recs[d].breaker)
             stale == \/ d \in tombstones
                      \/ IsLive(recs, d) /\ recs[d].phase = "countdown" /\ s.revision < recs[d].revision
  <2>1. (Shown(recs, d) /\ recs[d].breaker) \in BOOLEAN
    BY Zenon
  <2>2. r \in Records /\ r.phase = "countdown"
    BY <1>0, <2>1 DEF Record, Records, Sources
  <2>3. CASE stale
    <3>1. PublishStatus(recs, d, s) = recs
      BY <1>2, <2>3, Zenon DEF PublishStatus
    <3> QED BY <3>1
  <2>4. CASE ~stale
    <3>1. PublishStatus(recs, d, s) = [recs EXCEPT ![d] = r]
      BY <1>2, <2>4, Zenon DEF PublishStatus
    <3>2. d \notin tombstones
      BY <2>4
    <3> HIDE DEF r, stale
    <3> QED BY <2>2, <3>1, <3>2 DEF Maybe
  <2> QED BY <2>3, <2>4
<1> QED BY <1>1, <1>2

LEMMA DropWrites ==
  ASSUME NEW recs \in [Asks -> Maybe(Records)], NEW d \in Asks
  PROVE  LET new == DropPending(recs, d) IN
         /\ \A c \in Asks \ {d} : new[c] = recs[c]
         /\ new \in [Asks -> Maybe(Records)]
         /\ new[d] = recs[d] \/ (~IsFollow(recs, d) /\ new[d] = Nothing)
BY DEF DropPending, IsLive, IsFollow, Maybe

-----------------------------------------------------------------------------
(* The types are kept *)

LEMMA RequestTypes ==
  /\ Idle \in Requests /\ Sent \in Requests
  /\ \A got \in Maybe(Statuses) : Answer(got) \in Requests
BY DEF Requests, Idle, Sent, Answer, Maybe

LEMMA TypedInit == Init => TypedState
BY RequestTypes DEF Init, StoreInit, TypedState, Maybe, WatchRequests

LEMMA DecideTypes ==
  ASSUME TypedState, NEW c \in Asks, NEW a \in Outcomes, NEW s \in Sources, Decide(c, a, s)
  PROVE  status' \in [Asks -> Maybe(Statuses)] /\ decided' \in [Asks -> Maybe(Decisions)]
<1>1. Status("follow", a, s) \in Statuses /\ [action |-> a, source |-> s] \in Decisions
  BY DEF Status, Statuses, Decisions
<1> QED BY <1>1 DEF Decide, TypedState, Maybe

LEMMA SettlesAsAnnounced ==
  ASSUME TypedState, NEW c \in Asks, HostSettles(c)
  PROVE  \E a \in Outcomes, s \in Sources : Decide(c, a, s)
<1>1. announced[c] \in Outcomes
  BY DEF HostSettles, TypedState
<1>2. "timeout" \in Sources /\ "llm" \in Sources
  BY DEF Sources
<1> QED BY <1>1, <1>2 DEF HostSettles

LEMMA TypedNext == TypedState /\ [Next]_vars => TypedState'
<1> SUFFICES ASSUME TypedState, [Next]_vars PROVE TypedState'
  OBVIOUS
<1> USE DEF hostVars, answerVars, watchVars
<1>1. CASE UNCHANGED vars
  BY <1>1 DEF vars, TypedState, storeVars, pollVars
<1>2. ASSUME NEW c \in Asks, Host(c) PROVE TypedState'
  <2> DEFINE Announced == /\ announced \in [Asks -> Maybe(Outcomes)]
                          /\ \A d \in Asks : d \in opened \ StatusLess => announced[d] \in Outcomes
  <2> SUFFICES /\ status' \in [Asks -> Maybe(Statuses)] /\ decided' \in [Asks -> Maybe(Decisions)] /\ Announced'
               /\ UNCHANGED <<records, wire, meta, answering, watchWire>>
    BY DEF TypedState
  <2>0. ASSUME UNCHANGED <<opened, announced>> PROVE Announced'
    BY <2>0 DEF TypedState
  <2>1. CASE HostAsks(c)
    <3>0. UNCHANGED <<decided, records, wire, meta, answering, watchWire>> /\ opened' = opened \cup {c}
      BY <2>1 DEF HostAsks, storeVars, pollVars
    <3>1. CASE c \in StatusLess
      BY <2>1, <3>0, <3>1 DEF HostAsks, TypedState
    <3>2. CASE c \notin StatusLess
      <4>1. PICK action \in Outcomes : /\ announced' = [announced EXCEPT ![c] = action]
                                       /\ status' = [status EXCEPT ![c] = Status("countdown", action, "none")]
        BY <2>1, <3>2 DEF HostAsks
      <4>2. Status("countdown", action, "none") \in Statuses
        BY DEF Status, Statuses, Sources
      <4>3. status' \in [Asks -> Maybe(Statuses)]
        BY <4>1, <4>2 DEF TypedState, Maybe
      <4>4. Announced'
        BY <3>0, <4>1 DEF TypedState, Maybe
      <4> QED BY <3>0, <4>3, <4>4 DEF TypedState
    <3> QED BY <3>1, <3>2
  <2>2. CASE PanelShows(c)
    BY <2>2, <2>0 DEF PanelShows, TypedState, storeVars, pollVars
  <2>3. CASE HostSettles(c)
    <3>1. \E a \in Outcomes, s \in Sources : Decide(c, a, s)
      BY <2>3, SettlesAsAnnounced
    <3> QED BY <2>3, <2>0, <3>1, DecideTypes DEF HostSettles, storeVars, pollVars
  <2>4. CASE HumanAnswers(c)
    <3>1. (\E a \in Outcomes, s \in Sources : Decide(c, a, s)) \/ UNCHANGED <<decided, status>>
      BY <2>4 DEF HumanAnswers, Sources
    <3> QED BY <2>4, <2>0, <3>1, DecideTypes DEF HumanAnswers, storeVars, pollVars, TypedState
  <2>5. CASE HostAborts(c)
    <3>1. \E a \in Outcomes, s \in Sources : Decide(c, a, s)
      BY <2>5 DEF HostAborts, Outcomes, Sources
    <3> QED BY <2>5, <2>0, <3>1, DecideTypes DEF HostAborts, storeVars, pollVars
  <2>6. CASE HostSweeps(c)
    BY <2>6, <2>0 DEF HostSweeps, TypedState, storeVars, pollVars, Maybe
  <2> QED BY <1>2, <2>1, <2>2, <2>3, <2>4, <2>5, <2>6 DEF Host
<1>3. ASSUME NEW c \in Asks, Poller(c) PROVE TypedState'
  <2>1. CASE PollSends(c) \/ RouteAnswers(c) \/ PollFails(c) \/ HoldEnds(c)
    BY <2>1, RequestTypes DEF PollSends, RouteAnswers, PollFails, HoldEnds, TypedState, storeVars
  <2>2. CASE PollDelivers(c)
    <3> DEFINE got == wire[c].got
    <3>1. got \in Maybe(Statuses)
      BY DEF TypedState, Requests
    <3>2. wire' \in [Asks -> Requests] /\ UNCHANGED <<status, opened, announced, decided, watchWire>>
      BY <2>2, RequestTypes DEF PollDelivers, TypedState
    <3>3. CASE got = Nothing
      BY <2>2, <3>2, <3>3 DEF PollDelivers, TypedState, storeVars
    <3>4. CASE got # Nothing
      <4>1. got \in Statuses /\ got.action \in Outcomes /\ got.source \in Sources
        BY <3>1, <3>4 DEF Maybe, Statuses
      <4>2. records' \in [Asks -> Maybe(Records)]
        BY <2>2, <3>4, <4>1, ResolveWrites, PublishWrites DEF PollDelivers, TypedState
      <4>3. meta' \in [Asks -> Maybe(Outcomes)] /\ answering' \in [Asks -> Maybe(Outcomes)]
        BY <2>2, <3>4, <4>1 DEF PollDelivers, AnswerOnce, TypedState, Maybe
      <4> QED BY <3>2, <4>2, <4>3 DEF TypedState
    <3> QED BY <3>3, <3>4
  <2>3. CASE GraceFires(c)
    <3>1. RecordedAction(c) \in Outcomes /\ "timeout" \in Sources
      BY DEF RecordedAction, Outcomes, Sources
    <3>2. records' \in [Asks -> Maybe(Records)]
      <4>1. Resolve(records, c, RecordedAction(c), "timeout") \in [Asks -> Maybe(Records)]
        BY <3>1, ResolveWrites DEF TypedState
      <4>2. /\ DropPending(Resolve(records, c, RecordedAction(c), "timeout"), c) \in [Asks -> Maybe(Records)]
            /\ DropPending(records, c) \in [Asks -> Maybe(Records)]
        BY <4>1, DropWrites DEF TypedState
      <4> QED BY <2>3, <4>2 DEF GraceFires
    <3>3. answering' \in [Asks -> Maybe(Outcomes)]
      BY <2>3, <3>1 DEF GraceFires, AnswerOnce, TypedState, Maybe
    <3> QED BY <2>3, <3>2, <3>3, RequestTypes DEF GraceFires, TypedState
  <2>4. CASE Respond(c)
    <3>1. answering' \in [Asks -> Maybe(Outcomes)] /\ answering[c] \in Outcomes
      BY <2>4 DEF Respond, TypedState, Maybe
    <3>2. (\E a \in Outcomes, s \in Sources : Decide(c, a, s)) \/ UNCHANGED <<decided, status>>
      BY <2>4, <3>1 DEF Respond, Sources
    <3> QED BY <2>4, <3>1, <3>2, DecideTypes DEF Respond, storeVars, pollVars, TypedState
  <2> QED BY <1>3, <2>1, <2>2, <2>3, <2>4 DEF Poller
<1>4. ASSUME NEW c \in Asks, PruneRecord(c) PROVE TypedState'
  BY <1>4 DEF PruneRecord, Prune, TypedState, pollVars, Maybe
<1>5. CASE Check
  <2>1. \A d \in Asks : /\ ObservePending(records, d, d \in StatusLess)[d] \in Maybe(Records)
                        /\ DropPending(records, d)[d] \in Maybe(Records)
    BY ObserveWrites, DropWrites DEF TypedState
  <2>2. records' \in [Asks -> Maybe(Records)]
    BY <1>5, <2>1 DEF Check, TypedState
  <2>3. wire' \in [Asks -> Requests] /\ meta' \in [Asks -> Maybe(Outcomes)]
    BY <1>5, RequestTypes DEF Check, TypedState, Maybe
  <2> QED BY <1>5, <2>2, <2>3 DEF Check, TypedState
<1>6. CASE Watcher
  <2>1. CASE WatchSends \/ WatchFails \/ ReaderReturns
    BY <2>1 DEF WatchSends, WatchFails, ReaderReturns, TypedState, storeVars, pollVars, WatchRequests
  <2>2. CASE SessionRouteAnswers
    BY <2>2 DEF SessionRouteAnswers, TypedState, storeVars, pollVars, WatchRequests
  <2>3. CASE WatchDelivers
    <3>1. watchWire.got \in [Asks -> Maybe(Statuses)]
      BY <2>3 DEF WatchDelivers, TypedState, WatchRequests, Idle, Sent, Answer
    <3>2. \A d \in Asks : /\ watchWire.got[d] # Nothing => PublishStatus(records, d, watchWire.got[d])[d] \in Maybe(Records)
                          /\ DropPending(records, d)[d] \in Maybe(Records)
      <4>1. records \in [Asks -> Maybe(Records)]
        BY DEF TypedState
      <4>2. \A d \in Asks : watchWire.got[d] # Nothing => watchWire.got[d] \in Statuses
        BY <3>1 DEF Maybe
      <4> QED BY <4>1, <4>2, PublishWrites, DropWrites
    <3>3. records' \in [Asks -> Maybe(Records)]
      BY <2>3, <3>2 DEF WatchDelivers, TypedState
    <3> QED BY <2>3, <3>3 DEF WatchDelivers, TypedState, pollVars, WatchRequests
  <2>4. CASE ReaderLeaves
    BY <2>4 DEF ReaderLeaves, ClearSession, TypedState, pollVars, Maybe
  <2> QED BY <1>6, <2>1, <2>2, <2>3, <2>4 DEF Watcher
<1>7. CASE LinkDrops \/ LinkResumes
  BY <1>7, RequestTypes DEF LinkDrops, LinkResumes, TypedState, storeVars, pollVars
<1>8. CASE HostResets
  BY <1>8 DEF HostResets, TypedState, storeVars, pollVars, Maybe
<1> QED BY <1>1, <1>2, <1>3, <1>4, <1>5, <1>6, <1>7, <1>8 DEF Next

-----------------------------------------------------------------------------
(* What is remembered, and what is true of the host *)

\* What has left the display is remembered, and what is remembered is not shown.
Remembered ==
  /\ over \subseteq tombstones
  /\ \A c \in Asks : c \in tombstones => ~Shown(records, c)

\* The host will report the countdown no more: it has decided and swept, or a
\* reset dropped what it held.
Gone(c) == c \in dropped \/ (status[c] = Nothing /\ decided[c] # Nothing)
Decided(c, action, source) == decided[c] # Nothing /\ decided[c] = [action |-> action, source |-> source]

\* A payload about an ask, however old: only an ask with a countdown has one, the
\* countdown says what was announced and a settlement what was decided.
Matches(s, c) ==
  /\ c \notin StatusLess
  /\ s.phase = "countdown" => c \in opened /\ s.action = announced[c]
  /\ s.phase = "follow" => Decided(c, s.action, s.source)

StatusTrue(c) ==
  /\ status[c] # Nothing => Matches(status[c], c)
  /\ c \in opened \ StatusLess /\ status[c] = Nothing => Gone(c)

PollTrue(c) == wire[c].got # Nothing => Matches(wire[c].got, c)
ListTrue(c) == watchWire.at = "answered" /\ watchWire.got[c] # Nothing => Matches(watchWire.got[c], c)
PayloadsTrue(c) == PollTrue(c) /\ ListTrue(c)

\* A poller remembers what was announced; one that saw the countdown and then no
\* status waits for an ask that is gone, and a payload that says nothing says so of
\* such an ask.
GraceJustified(c) ==
  /\ meta[c] # Nothing => c \in opened \ StatusLess /\ meta[c] = announced[c]
  /\ wire[c].at = "answered" /\ wire[c].got = Nothing /\ meta[c] # Nothing => Gone(c)
  /\ c \in grace => meta[c] # Nothing /\ Gone(c)
  /\ c \in byGrace => c \in opened /\ Gone(c)

AnswerTrue(c) ==
  /\ c \in answered => c \notin StatusLess
  /\ answering[c] # Nothing =>
       \/ decided[c] # Nothing /\ answering[c] = decided[c].action
       \/ c \in byGrace /\ answering[c] = announced[c] /\ Gone(c)

\* A settlement the tab assumed, and one it was told of.
Assumed(c, record) == c \in byGrace /\ record.action = announced[c] /\ record.source = "timeout"
EndingTrue(c) ==
  IsFollow(records, c) =>
    Assumed(c, records[c]) \/ Decided(c, records[c].action, records[c].source)

HostTrue == \A c \in Asks : StatusTrue(c) /\ PayloadsTrue(c) /\ GraceJustified(c)
TabTrue == \A c \in Asks : AnswerTrue(c) /\ EndingTrue(c)

IInv == TypedState /\ Remembered /\ HostTrue /\ TabTrue

LEMMA InitIInv == Init => IInv
<1> SUFFICES ASSUME Init PROVE IInv
  OBVIOUS
<1>1. TypedState
  BY TypedInit
<1>2. Remembered
  BY DEF Init, StoreInit, Remembered, Shown
<1>3. HostTrue
  BY DEF Init, HostTrue, StatusTrue, PayloadsTrue, PollTrue, ListTrue, GraceJustified, Idle
<1>4. TabTrue
  BY DEF Init, StoreInit, TabTrue, AnswerTrue, EndingTrue, IsFollow, Shown
<1> QED BY <1>1, <1>2, <1>3, <1>4 DEF IInv

-----------------------------------------------------------------------------
(* The host *)

\* What the host has announced and decided stays so, and it does not count down
\* again what is gone.
HostKeeps(c) ==
  /\ c \in opened => c \in opened' /\ announced'[c] = announced[c]
  /\ decided[c] # Nothing => decided'[c] = decided[c]
  /\ c \in opened /\ Gone(c) => Gone(c)'

LEMMA DecideKeeps ==
  ASSUME TypedState, HostTrue, NEW c \in Asks, NEW a \in Outcomes, NEW s \in Sources,
         decided[c] = Nothing, Decide(c, a, s), UNCHANGED <<opened, announced, dropped>>
  PROVE  \A d \in Asks : HostKeeps(d) /\ StatusTrue(d)'
<1> DEFINE v == [action |-> a, source |-> s]
           w == Status("follow", a, s)
<1>1. v # Nothing
  BY NothingIsElse DEF Decisions
<1>2. w.phase = "follow" /\ w.action = a /\ w.source = s
  BY DEF Status
<1>3. \A d \in Asks : /\ decided'[d] = IF d = c THEN v ELSE decided[d]
                      /\ status'[d] = IF d = c /\ c \notin StatusLess THEN w ELSE status[d]
  BY DEF Decide, TypedState
<1>4. ASSUME NEW d \in Asks, d # c PROVE HostKeeps(d) /\ StatusTrue(d)'
  <2>1. decided'[d] = decided[d] /\ status'[d] = status[d] /\ UNCHANGED <<opened, announced, dropped>>
    BY <1>3, <1>4
  <2>2. StatusTrue(d)
    BY DEF HostTrue
  <2> QED BY <2>1, <2>2 DEF HostKeeps, Gone, StatusTrue, Matches, Decided
<1>5. HostKeeps(c)
  BY DEF HostKeeps, Gone
<1>6. StatusTrue(c)'
  <2>1. CASE c \in StatusLess
    <3>1. status'[c] = Nothing
      BY <1>3, <2>1 DEF HostTrue, StatusTrue, Matches
    <3> QED BY <3>1, <2>1, NothingIsElse DEF StatusTrue
  <2>2. CASE c \notin StatusLess
    <3>1. status'[c] = w /\ decided'[c] = v
      BY <1>3, <2>2
    <3> HIDE DEF w
    <3> QED BY <3>1, <2>2, <1>1, <1>2 DEF StatusTrue, Matches, Decided, Gone
  <2> QED BY <2>1, <2>2
<1> QED BY <1>4, <1>5, <1>6

LEMMA HostNext ==
  ASSUME TypedState, HostTrue, TabTrue, [Next]_vars
  PROVE  \A d \in Asks : HostKeeps(d) /\ StatusTrue(d)'
<1> USE DEF hostVars
<1>a. ASSUME UNCHANGED <<status, opened, announced, decided, dropped>> PROVE \A d \in Asks : HostKeeps(d) /\ StatusTrue(d)'
  BY <1>a DEF HostTrue, StatusTrue, Matches, Decided, HostKeeps, Gone
<1>1. CASE UNCHANGED vars
  BY <1>1, <1>a DEF vars
<1>2. ASSUME NEW c \in Asks, Host(c) PROVE \A d \in Asks : HostKeeps(d) /\ StatusTrue(d)'
  <2>1. CASE HostAsks(c)
    <3> SUFFICES ASSUME NEW d \in Asks PROVE HostKeeps(d) /\ StatusTrue(d)'
      OBVIOUS
    <3>1. StatusTrue(d)
      BY DEF HostTrue
    <3>2. opened' = opened \cup {c} /\ UNCHANGED <<decided, dropped>> /\ c \notin opened
      BY <2>1 DEF HostAsks
    <3>3. CASE c \in StatusLess \/ d # c
      <4>1. status'[d] = status[d] /\ announced'[d] = announced[d]
        BY <2>1, <3>3 DEF HostAsks, TypedState
      <4> QED BY <3>1, <3>2, <3>3, <4>1 DEF HostKeeps, Gone, StatusTrue, Matches, Decided
    <3>4. CASE c \notin StatusLess /\ d = c
      <4>1. PICK action \in Outcomes :
              status'[d] = Status("countdown", action, "none") /\ announced'[d] = action
        BY <2>1, <3>4 DEF HostAsks, TypedState
      <4>2. /\ status'[d].phase = "countdown" /\ status'[d].action = announced'[d]
            /\ status'[d] # Nothing
        BY <4>1, NothingIsElse DEF Status, Statuses, Sources
      <4> QED BY <3>2, <3>4, <4>2 DEF HostKeeps, StatusTrue, Matches
    <3> QED BY <3>3, <3>4
  <2>2. CASE PanelShows(c)
    BY <2>2, <1>a DEF PanelShows
  <2>3. CASE HostSettles(c)
    <3>1. /\ decided[c] = Nothing /\ UNCHANGED <<opened, announced, dropped>>
          /\ \E a \in Outcomes, s \in Sources : Decide(c, a, s)
      BY <2>3, SettlesAsAnnounced DEF HostSettles
    <3> QED BY <3>1, DecideKeeps
  <2>4. CASE HumanAnswers(c)
    <3>1. CASE decided[c] = Nothing
      <4>1. UNCHANGED <<opened, announced, dropped>> /\ \E a \in Outcomes, s \in Sources : Decide(c, a, s)
        BY <2>4, <3>1 DEF HumanAnswers, Sources
      <4> QED BY <3>1, <4>1, DecideKeeps
    <3>2. CASE decided[c] # Nothing
      BY <2>4, <3>2, <1>a DEF HumanAnswers
    <3> QED BY <3>1, <3>2
  <2>5. CASE HostAborts(c)
    <3>1. /\ decided[c] = Nothing /\ UNCHANGED <<opened, announced, dropped>>
          /\ \E a \in Outcomes, s \in Sources : Decide(c, a, s)
      BY <2>5 DEF HostAborts, Outcomes, Sources
    <3> QED BY <3>1, DecideKeeps
  <2>6. CASE HostSweeps(c)
    <3> SUFFICES ASSUME NEW d \in Asks PROVE HostKeeps(d) /\ StatusTrue(d)'
      OBVIOUS
    <3>1. StatusTrue(c) /\ StatusTrue(d)
      BY DEF HostTrue
    <3>2. /\ UNCHANGED <<opened, announced, decided, dropped>>
          /\ status'[d] = IF d = c THEN Nothing ELSE status[d]
      BY <2>6 DEF HostSweeps, TypedState
    <3>3. decided[c] # Nothing
      BY <2>6, <3>1 DEF HostSweeps, StatusTrue, Matches, Decided
    <3> QED BY <3>1, <3>2, <3>3 DEF HostKeeps, Gone, StatusTrue, Matches, Decided
  <2> QED BY <1>2, <2>1, <2>2, <2>3, <2>4, <2>5, <2>6 DEF Host
<1>3. ASSUME NEW c \in Asks, Poller(c) PROVE \A d \in Asks : HostKeeps(d) /\ StatusTrue(d)'
  <2>1. CASE Respond(c)
    <3>1. UNCHANGED <<opened, announced, dropped>> /\ answering[c] \in Outcomes
      BY <2>1 DEF Respond, TypedState, Maybe
    <3>2. CASE decided[c] = Nothing /\ Decide(c, answering[c], "human")
      BY <3>1, <3>2, DecideKeeps DEF Sources
    <3>3. CASE UNCHANGED <<status, decided>>
      BY <3>1, <3>3, <1>a
    <3> QED BY <2>1, <3>2, <3>3 DEF Respond
  <2> QED BY <1>3, <2>1, <1>a DEF Poller, PollSends, RouteAnswers, PollFails, HoldEnds, PollDelivers, GraceFires
<1>4. ASSUME NEW c \in Asks, PruneRecord(c) PROVE \A d \in Asks : HostKeeps(d) /\ StatusTrue(d)'
  BY <1>4, <1>a DEF PruneRecord
<1>5. CASE Check
  BY <1>5, <1>a DEF Check
<1>6. CASE Watcher
  BY <1>6, <1>a DEF Watcher, WatchSends, SessionRouteAnswers, WatchFails, WatchDelivers, ReaderLeaves, ReaderReturns
<1>7. CASE LinkDrops \/ LinkResumes
  BY <1>7, <1>a DEF LinkDrops, LinkResumes
<1>8. CASE HostResets
  <2> SUFFICES ASSUME NEW d \in Asks PROVE HostKeeps(d) /\ StatusTrue(d)'
    OBVIOUS
  <2>1. StatusTrue(d)
    BY DEF HostTrue
  <2>2. /\ UNCHANGED <<opened, announced, decided>> /\ status'[d] = Nothing
        /\ dropped' = dropped \cup {c \in Asks : status[c] # Nothing /\ decided[c] = Nothing}
    BY <1>8 DEF HostResets
  <2>3. d \in opened \ StatusLess => Gone(d)'
    BY <2>1, <2>2 DEF StatusTrue, Gone
  <2> QED BY <2>2, <2>3 DEF HostKeeps, StatusTrue, Gone
<1> QED BY <1>1, <1>2, <1>3, <1>4, <1>5, <1>6, <1>7, <1>8 DEF Next

-----------------------------------------------------------------------------
(* The payloads under way *)

LEMMA PayloadsNext ==
  ASSUME IInv, [Next]_vars, \A d \in Asks : HostKeeps(d) /\ StatusTrue(d)'
  PROVE  \A d \in Asks : PayloadsTrue(d)'
<1> SUFFICES ASSUME NEW d \in Asks PROVE PayloadsTrue(d)'
  OBVIOUS
<1> USE DEF pollVars, watchVars
\* A request that is idle, sent or as it was; one that is answered now.
<1> DEFINE Polled == wire'[d] = wire[d] \/ wire'[d] = Idle \/ wire'[d] = Sent \/ (wire'[d] = Answer(status[d]) /\ status' = status)
           Listed == watchWire' = watchWire \/ watchWire' = Idle \/ watchWire' = Sent \/ (watchWire' = Answer(status) /\ status' = status)
<1>1. Polled /\ Listed
  <2> USE DEF IInv, TypedState
  <2>1. CASE UNCHANGED vars
    BY <2>1 DEF vars
  <2>2. ASSUME NEW c \in Asks, Host(c) \/ PruneRecord(c) PROVE Polled /\ Listed
    BY <2>2 DEF Host, HostAsks, PanelShows, HostSettles, HumanAnswers, HostAborts, HostSweeps, PruneRecord
  <2>3. ASSUME NEW c \in Asks, Poller(c) PROVE Polled /\ Listed
    BY <2>3 DEF Poller, PollSends, RouteAnswers, PollFails, HoldEnds, PollDelivers, GraceFires, Respond, hostVars
  <2>4. CASE Check
    BY <2>4 DEF Check
  <2>5. CASE Watcher
    BY <2>5 DEF Watcher, WatchSends, SessionRouteAnswers, WatchFails, WatchDelivers, ReaderLeaves, ReaderReturns, hostVars
  <2>6. CASE LinkDrops \/ LinkResumes
    BY <2>6 DEF LinkDrops, LinkResumes
  <2>7. CASE HostResets
    BY <2>7 DEF HostResets
  <2> QED BY <2>1, <2>2, <2>3, <2>4, <2>5, <2>6, <2>7 DEF Next
<1>2. PayloadsTrue(d) /\ HostKeeps(d) /\ StatusTrue(d)'
  BY DEF IInv, HostTrue
<1>3. PollTrue(d)'
  <2>1. CASE wire'[d] = wire[d]
    BY <2>1, <1>2 DEF PayloadsTrue, PollTrue, HostKeeps, Matches, Decided
  <2>2. CASE wire'[d] = Idle \/ wire'[d] = Sent
    BY <2>2 DEF PollTrue, Idle, Sent
  <2>3. CASE wire'[d] = Answer(status[d]) /\ status' = status
    BY <2>3, <1>2 DEF PollTrue, StatusTrue, Matches, Decided, Answer
  <2> QED BY <1>1, <2>1, <2>2, <2>3
<1>4. ListTrue(d)'
  <2>1. CASE watchWire' = watchWire
    BY <2>1, <1>2 DEF PayloadsTrue, ListTrue, HostKeeps, Matches, Decided
  <2>2. CASE watchWire' = Idle \/ watchWire' = Sent
    BY <2>2 DEF ListTrue, Idle, Sent
  <2>3. CASE watchWire' = Answer(status) /\ status' = status
    BY <2>3, <1>2 DEF ListTrue, StatusTrue, Matches, Decided, Answer
  <2> QED BY <1>1, <2>1, <2>2, <2>3
<1> QED BY <1>3, <1>4 DEF PayloadsTrue

-----------------------------------------------------------------------------
(* The pollers *)

\* What a step makes of a poller: its countdown is forgotten, kept or seen, and an
\* answer arrives when nothing else happens to it.
MetaKept(d) == meta'[d] = meta[d] \/ meta'[d] = Nothing
PollStep(d) ==
  /\ \/ wire'[d] = wire[d] /\ MetaKept(d)
     \/ wire'[d] \in {Idle, Sent} /\ (MetaKept(d) \/ (d \in opened \ StatusLess /\ meta'[d] = announced[d]))
     \/ wire'[d] = Answer(status[d]) /\ UNCHANGED <<status, decided>> /\ MetaKept(d)
  /\ d \in grace' =>
       /\ meta'[d] = meta[d]
       /\ d \in grace \/ (wire[d].at = "answered" /\ wire[d].got = Nothing /\ meta[d] # Nothing)
  /\ d \in byGrace' => d \in byGrace \cup grace

LEMMA PollSteps ==
  ASSUME IInv, [Next]_vars
  PROVE  \A d \in Asks : PollStep(d)
<1> SUFFICES ASSUME NEW d \in Asks PROVE PollStep(d)
  OBVIOUS
<1> USE DEF IInv, TypedState, PollStep, MetaKept
<1>1. CASE UNCHANGED vars
  BY <1>1 DEF vars, pollVars, answerVars
<1>2. ASSUME NEW c \in Asks, Host(c) \/ PruneRecord(c) PROVE PollStep(d)
  BY <1>2 DEF Host, HostAsks, PanelShows, HostSettles, HumanAnswers, HostAborts, HostSweeps, PruneRecord, pollVars, answerVars
<1>3. ASSUME NEW c \in Asks, Poller(c) PROVE PollStep(d)
  <2>1. CASE PollSends(c) \/ PollFails(c) \/ HoldEnds(c)
    BY <2>1 DEF PollSends, PollFails, HoldEnds, answerVars
  <2>2. CASE RouteAnswers(c)
    BY <2>2 DEF RouteAnswers, answerVars, hostVars
  <2>3. CASE PollDelivers(c)
    <3>1. CASE d # c
      BY <2>3, <3>1 DEF PollDelivers, Detach
    <3>2. CASE d = c
      <4>1. wire'[c] = Idle /\ byGrace' = byGrace /\ wire[c].at = "answered"
        BY <2>3 DEF PollDelivers
      <4>2. CASE wire[c].got = Nothing
        BY <2>3, <3>2, <4>1, <4>2 DEF PollDelivers, WasCountedDown
      <4>3. CASE wire[c].got # Nothing /\ wire[c].got.phase = "follow"
        BY <2>3, <3>2, <4>1, <4>3 DEF PollDelivers, Detach
      <4>4. CASE wire[c].got # Nothing /\ wire[c].got.phase # "follow"
        <5>1. wire[c].got.phase = "countdown"
          BY <4>4 DEF Requests, Maybe, Statuses
        <5>2. c \in opened \ StatusLess /\ wire[c].got.action = announced[c]
          BY <4>4, <5>1 DEF HostTrue, PayloadsTrue, PollTrue, Matches
        <5>3. c \notin grace' /\ meta'[c] = wire[c].got.action
          BY <2>3, <4>4 DEF PollDelivers
        <5> QED BY <3>2, <4>1, <5>2, <5>3
      <4> QED BY <4>2, <4>3, <4>4
    <3> QED BY <3>1, <3>2
  <2>4. CASE GraceFires(c)
    BY <2>4 DEF GraceFires, Detach
  <2>5. CASE Respond(c)
    BY <2>5 DEF Respond, pollVars
  <2> QED BY <1>3, <2>1, <2>2, <2>3, <2>4, <2>5 DEF Poller
<1>4. CASE Check
  BY <1>4 DEF Check, answerVars
<1>5. CASE Watcher
  BY <1>5 DEF Watcher, WatchSends, SessionRouteAnswers, WatchFails, WatchDelivers, ReaderLeaves, ReaderReturns, pollVars, answerVars
<1>6. CASE LinkDrops \/ LinkResumes
  BY <1>6 DEF LinkDrops, LinkResumes, pollVars, answerVars
<1>7. CASE HostResets
  BY <1>7 DEF HostResets, pollVars, answerVars
<1> QED BY <1>1, <1>2, <1>3, <1>4, <1>5, <1>6, <1>7 DEF Next

LEMMA GraceNext ==
  ASSUME IInv, [Next]_vars, \A d \in Asks : HostKeeps(d) /\ StatusTrue(d)'
  PROVE  \A d \in Asks : GraceJustified(d)'
<1> SUFFICES ASSUME NEW d \in Asks PROVE GraceJustified(d)'
  OBVIOUS
<1>1. StatusTrue(d) /\ GraceJustified(d) /\ HostKeeps(d) /\ PollStep(d)
  BY PollSteps DEF IInv, HostTrue
<1>2. meta'[d] # Nothing => d \in (opened \ StatusLess)' /\ meta'[d] = announced'[d]
  BY <1>1 DEF GraceJustified, HostKeeps, PollStep, MetaKept
<1>3. wire'[d].at = "answered" /\ wire'[d].got = Nothing /\ meta'[d] # Nothing => Gone(d)'
  BY <1>1 DEF GraceJustified, StatusTrue, HostKeeps, PollStep, MetaKept, Gone, Idle, Sent, Answer
<1>4. d \in grace' => meta'[d] # Nothing /\ Gone(d)'
  BY <1>1 DEF GraceJustified, HostKeeps, PollStep
<1>5. d \in byGrace' => d \in opened' /\ Gone(d)'
  BY <1>1 DEF GraceJustified, HostKeeps, PollStep
<1> QED BY <1>2, <1>3, <1>4, <1>5 DEF GraceJustified

-----------------------------------------------------------------------------
(* The answers *)

AnswerStep(d) ==
  /\ d \in answered' => d \in answered \/ d \notin StatusLess
  /\ d \in byGrace => d \in byGrace'
  /\ answering'[d] # Nothing =>
       \/ answering'[d] = answering[d]
       \/ decided[d] # Nothing /\ answering'[d] = decided[d].action
       \/ d \in opened /\ Gone(d) /\ d \in byGrace' /\ answering'[d] = announced[d]

LEMMA GraceActsAsAnnounced ==
  ASSUME TypedState, HostTrue, NEW c \in grace, c \in Asks
  PROVE  RecordedAction(c) = announced[c] /\ c \in opened /\ Gone(c)
BY DEF TypedState, HostTrue, GraceJustified, RecordedAction, Maybe, Outcomes

LEMMA AnswerSteps ==
  ASSUME IInv, [Next]_vars
  PROVE  \A d \in Asks : AnswerStep(d)
<1> SUFFICES ASSUME NEW d \in Asks PROVE AnswerStep(d)
  OBVIOUS
<1>a. ASSUME answered' = answered, byGrace' = byGrace, answering'[d] = answering[d] PROVE AnswerStep(d)
  BY <1>a DEF AnswerStep
<1> USE DEF IInv, TypedState, answerVars
<1>1. CASE UNCHANGED vars
  BY <1>1, <1>a DEF vars
<1>2. ASSUME NEW c \in Asks, Host(c) \/ PruneRecord(c) PROVE AnswerStep(d)
  BY <1>2, <1>a DEF Host, HostAsks, PanelShows, HostSettles, HumanAnswers, HostAborts, HostSweeps, PruneRecord
<1>3. ASSUME NEW c \in Asks, Poller(c) PROVE AnswerStep(d)
  <2>1. CASE PollSends(c) \/ RouteAnswers(c) \/ PollFails(c) \/ HoldEnds(c)
    BY <2>1, <1>a DEF PollSends, RouteAnswers, PollFails, HoldEnds
  <2>2. CASE PollDelivers(c)
    <3>1. CASE UNCHANGED <<answered, answering>>
      BY <2>2, <3>1, <1>a DEF PollDelivers
    <3>2. CASE ~UNCHANGED <<answered, answering>>
      <4>1. /\ wire[c].got # Nothing /\ wire[c].got.phase = "follow"
            /\ AnswerOnce(c, wire[c].got.action) /\ byGrace' = byGrace
        BY <2>2, <3>2 DEF PollDelivers
      <4>2. c \notin StatusLess /\ Decided(c, wire[c].got.action, wire[c].got.source)
        BY <4>1 DEF HostTrue, PayloadsTrue, PollTrue, Matches
      <4> QED BY <4>1, <4>2 DEF AnswerOnce, AnswerStep, Decided
    <3> QED BY <3>1, <3>2
  <2>3. CASE GraceFires(c)
    <3>1. CASE UNCHANGED <<answered, answering, byGrace>>
      BY <3>1, <1>a
    <3>2. CASE ~UNCHANGED <<answered, answering, byGrace>>
      <4>1. c \in grace /\ AnswerOnce(c, RecordedAction(c)) /\ byGrace' = byGrace \cup {c}
        BY <2>3, <3>2 DEF GraceFires
      <4>2. c \in opened \ StatusLess /\ Gone(c) /\ RecordedAction(c) = announced[c]
        BY <4>1, GraceActsAsAnnounced DEF HostTrue, GraceJustified
      <4> QED BY <4>1, <4>2 DEF AnswerOnce, AnswerStep
    <3> QED BY <3>1, <3>2
  <2>4. CASE Respond(c)
    BY <2>4 DEF Respond, AnswerStep
  <2> QED BY <1>3, <2>1, <2>2, <2>3, <2>4 DEF Poller
<1>4. CASE Check
  BY <1>4, <1>a DEF Check
<1>5. CASE Watcher
  BY <1>5, <1>a DEF Watcher, WatchSends, SessionRouteAnswers, WatchFails, WatchDelivers, ReaderLeaves, ReaderReturns
<1>6. CASE LinkDrops \/ LinkResumes
  BY <1>6, <1>a DEF LinkDrops, LinkResumes
<1>7. CASE HostResets
  BY <1>7, <1>a DEF HostResets
<1> QED BY <1>1, <1>2, <1>3, <1>4, <1>5, <1>6, <1>7 DEF Next

LEMMA AnswersNext ==
  ASSUME IInv, [Next]_vars, \A d \in Asks : HostKeeps(d)
  PROVE  \A d \in Asks : AnswerTrue(d)'
<1> SUFFICES ASSUME NEW d \in Asks PROVE AnswerTrue(d)'
  OBVIOUS
<1>1. AnswerTrue(d) /\ GraceJustified(d) /\ HostKeeps(d) /\ AnswerStep(d)
  BY AnswerSteps DEF IInv, HostTrue, TabTrue
<1> QED BY <1>1 DEF AnswerTrue, GraceJustified, HostKeeps, AnswerStep, Gone

-----------------------------------------------------------------------------
(* The display *)

\* What a step makes of a record: it stays, it goes, it is not a settlement, or it
\* becomes one the host made or the grace timer assumed.
DisplayStep(d) ==
  \/ records'[d] = records[d]
  \/ records'[d] = Nothing /\ (~IsFollow(records, d) \/ d \in tombstones')
  \/ d \notin tombstones /\ records'[d] \in Records /\ records'[d].phase # "follow"
  \/ /\ d \notin tombstones /\ ~IsFollow(records, d) /\ records'[d] \in Records
     /\ \/ d \in byGrace' /\ records'[d].action = announced[d] /\ records'[d].source = "timeout"
        \/ Decided(d, records'[d].action, records'[d].source)

\* What is remembered is no longer shown.
MemoryStep ==
  /\ tombstones \subseteq tombstones'
  /\ \A c \in Asks : c \in tombstones' => c \in tombstones \/ records'[c] = Nothing
  /\ over' = over \/ Watched
  /\ tombstones' = tombstones \/ \A c \in Asks : records'[c] \in {records[c], Nothing}

LEMMA DisplaySteps ==
  ASSUME IInv, [Next]_vars
  PROVE  MemoryStep /\ \A d \in Asks : DisplayStep(d)
<1> USE DEF IInv, TypedState, storeVars
<1>a. ASSUME UNCHANGED <<storeVars, over>> PROVE MemoryStep /\ \A d \in Asks : DisplayStep(d)
  BY <1>a DEF MemoryStep, DisplayStep
<1>b. ASSUME tombstones' = tombstones, Watched, \A d \in Asks : DisplayStep(d)
      PROVE  MemoryStep /\ \A d \in Asks : DisplayStep(d)
  BY <1>b DEF MemoryStep
<1>1. CASE UNCHANGED vars
  BY <1>1, <1>a DEF vars
<1>2. ASSUME NEW c \in Asks, Host(c) PROVE MemoryStep /\ \A d \in Asks : DisplayStep(d)
  BY <1>2, <1>a DEF Host, HostAsks, PanelShows, HostSettles, HumanAnswers, HostAborts, HostSweeps
<1>3. ASSUME NEW c \in Asks, Poller(c) PROVE MemoryStep /\ \A d \in Asks : DisplayStep(d)
  <2>1. CASE PollSends(c) \/ RouteAnswers(c) \/ PollFails(c) \/ HoldEnds(c) \/ Respond(c)
    BY <2>1, <1>a DEF PollSends, RouteAnswers, PollFails, HoldEnds, Respond
  <2>2. CASE PollDelivers(c)
    <3> DEFINE got == wire[c].got
    <3>1. tombstones' = tombstones /\ Watched
      BY <2>2 DEF PollDelivers
    <3>2. CASE got = Nothing
      BY <2>2, <3>1, <3>2, <1>b DEF PollDelivers, DisplayStep
    <3>3. CASE got # Nothing
      <4>1. got \in Statuses /\ got.action \in Outcomes /\ got.source \in Sources
        BY <3>3 DEF Requests, Maybe, Statuses
      <4>2. got.phase = "follow" => Decided(c, got.action, got.source)
        BY <3>3 DEF HostTrue, PayloadsTrue, PollTrue, Matches
      <4>3. CASE got.phase = "follow"
        <5>1. records' = Resolve(records, c, got.action, got.source)
          BY <2>2, <3>3, <4>3 DEF PollDelivers
        <5>2. /\ \A d \in Asks \ {c} : records'[d] = records[d]
              /\ \/ records'[c] = records[c]
                 \/ /\ c \notin tombstones /\ ~IsFollow(records, c)
                    /\ records'[c] \in Records /\ records'[c].action = got.action /\ records'[c].source = got.source
          BY <4>1, <5>1, ResolveWrites
        <5>3. \A d \in Asks : DisplayStep(d)
          BY <4>2, <4>3, <5>2 DEF DisplayStep, Decided
        <5> QED BY <3>1, <5>3, <1>b
      <4>4. CASE got.phase # "follow"
        <5>1. records' = PublishStatus(records, c, got)
          BY <2>2, <3>3, <4>4 DEF PollDelivers
        <5>2. /\ \A d \in Asks \ {c} : records'[d] = records[d]
              /\ \/ records'[c] = records[c]
                 \/ c \notin tombstones /\ records'[c] \in Records /\ records'[c].phase = "countdown"
          BY <4>1, <4>4, <5>1, PublishWrites
        <5>3. \A d \in Asks : DisplayStep(d)
          BY <5>2 DEF DisplayStep
        <5> QED BY <3>1, <5>3, <1>b
      <4> QED BY <4>3, <4>4
    <3> QED BY <3>2, <3>3
  <2>3. CASE GraceFires(c)
    <3> DEFINE settled == Resolve(records, c, RecordedAction(c), "timeout")
    <3>1. tombstones' = tombstones /\ Watched
      BY <2>3 DEF GraceFires
    <3>2. RecordedAction(c) = announced[c]
      BY <2>3, GraceActsAsAnnounced DEF GraceFires
    <3>3. CASE c \in Visible
      <4>1. records' = DropPending(settled, c) /\ c \in byGrace'
        BY <2>3, <3>3 DEF GraceFires
      <4>2. RecordedAction(c) \in Outcomes /\ "timeout" \in Sources
        BY DEF RecordedAction, Outcomes, Sources
      <4>3. /\ \A d \in Asks \ {c} : settled[d] = records[d]
            /\ settled \in [Asks -> Maybe(Records)]
            /\ \/ settled[c] = records[c]
               \/ /\ c \notin tombstones /\ ~IsFollow(records, c) /\ settled[c] \in Records
                  /\ settled[c].action = announced[c] /\ settled[c].source = "timeout"
        BY <3>2, <4>2, ResolveWrites
      <4> HIDE DEF settled
      <4>4. /\ \A d \in Asks \ {c} : records'[d] = settled[d]
            /\ records'[c] = settled[c] \/ (~IsFollow(settled, c) /\ records'[c] = Nothing)
        BY <4>1, <4>3, DropWrites
      <4>5. \A d \in Asks : DisplayStep(d)
        BY <4>1, <4>3, <4>4 DEF DisplayStep, IsFollow, Shown
      <4> QED BY <3>1, <4>5, <1>b
    <3>4. CASE c \notin Visible
      <4>1. records' = DropPending(records, c)
        BY <2>3, <3>4 DEF GraceFires
      <4>2. records \in [Asks -> Maybe(Records)]
        BY DEF IInv, TypedState
      <4>3. \A d \in Asks : DisplayStep(d)
        BY <4>1, <4>2, DropWrites DEF DisplayStep
      <4> QED BY <3>1, <4>3, <1>b
    <3> QED BY <3>3, <3>4
  <2> QED BY <1>3, <2>1, <2>2, <2>3 DEF Poller
<1>4. ASSUME NEW c \in Asks, PruneRecord(c) PROVE MemoryStep /\ \A d \in Asks : DisplayStep(d)
  BY <1>4 DEF PruneRecord, Prune, MemoryStep, DisplayStep
<1>5. CASE Check
  <2>1. tombstones' = tombstones /\ Watched
    BY <1>5 DEF Check
  <2>2. ASSUME NEW d \in Asks PROVE DisplayStep(d)
    <3>1. \/ records'[d] = records[d]
          \/ records'[d] = DropPending(records, d)[d]
          \/ records'[d] = ObservePending(records, d, d \in StatusLess)[d]
      BY <1>5 DEF Check
    <3>2. DropPending(records, d)[d] = records[d] \/ (~IsFollow(records, d) /\ DropPending(records, d)[d] = Nothing)
      BY DropWrites
    <3>3. LET new == ObservePending(records, d, d \in StatusLess)[d] IN
          new = records[d] \/ (d \notin tombstones /\ new \in Records /\ new.phase # "follow")
      BY ObserveWrites
    <3> QED BY <3>1, <3>2, <3>3 DEF DisplayStep
  <2> QED BY <2>1, <2>2, <1>b
<1>6. CASE Watcher
  <2>1. CASE WatchSends \/ SessionRouteAnswers \/ WatchFails \/ ReaderReturns
    BY <2>1, <1>a DEF WatchSends, SessionRouteAnswers, WatchFails, ReaderReturns
  <2>2. CASE WatchDelivers
    <3>1. tombstones' = tombstones /\ Watched /\ watchWire.at = "answered"
      BY <2>2 DEF WatchDelivers
    <3>2. watchWire.got \in [Asks -> Maybe(Statuses)]
      BY <3>1 DEF WatchRequests, Idle, Sent, Answer
    <3>3. ASSUME NEW d \in Asks PROVE DisplayStep(d)
      <4>1. \/ records'[d] = records[d]
            \/ records'[d] = DropPending(records, d)[d]
            \/ watchWire.got[d] # Nothing /\ records'[d] = PublishStatus(records, d, watchWire.got[d])[d]
        BY <2>2 DEF WatchDelivers
      <4>2. DropPending(records, d)[d] = records[d] \/ (~IsFollow(records, d) /\ DropPending(records, d)[d] = Nothing)
        BY DropWrites
      <4>3. CASE watchWire.got[d] # Nothing /\ records'[d] = PublishStatus(records, d, watchWire.got[d])[d]
        <5>1. watchWire.got[d] \in Statuses
          BY <3>2, <4>3 DEF Maybe
        <5>2. watchWire.got[d].phase = "follow" => Decided(d, watchWire.got[d].action, watchWire.got[d].source)
          BY <3>1, <4>3 DEF HostTrue, PayloadsTrue, ListTrue, Matches
        <5>3. \/ records'[d] = records[d]
              \/ /\ d \notin tombstones /\ records'[d] \in Records
                 /\ \/ records'[d].phase = "countdown"
                    \/ /\ watchWire.got[d].phase = "follow" /\ ~IsFollow(records, d)
                       /\ records'[d].action = watchWire.got[d].action
                       /\ records'[d].source = watchWire.got[d].source
          BY <4>3, <5>1, PublishWrites
        <5> QED BY <5>2, <5>3 DEF DisplayStep, Decided
      <4> QED BY <4>1, <4>2, <4>3 DEF DisplayStep
    <3> QED BY <3>1, <3>3, <1>b
  <2>3. CASE ReaderLeaves
    BY <2>3 DEF ReaderLeaves, ClearSession, RememberSettled, MemoryStep, DisplayStep
  <2> QED BY <1>6, <2>1, <2>2, <2>3 DEF Watcher
<1>7. CASE LinkDrops \/ LinkResumes
  BY <1>7, <1>a DEF LinkDrops, LinkResumes
<1>8. CASE HostResets
  BY <1>8, <1>a DEF HostResets
<1> QED BY <1>1, <1>2, <1>3, <1>4, <1>5, <1>6, <1>7, <1>8 DEF Next

LEMMA DisplayNext ==
  ASSUME IInv, [Next]_vars, \A d \in Asks : HostKeeps(d)
  PROVE  Remembered' /\ \A d \in Asks : EndingTrue(d)'
<1>1. MemoryStep /\ \A d \in Asks : DisplayStep(d)
  BY DisplaySteps
<1>2. ASSUME NEW d \in Asks, d \in tombstones' PROVE ~Shown(records', d)
  BY <1>1, <1>2 DEF IInv, Remembered, MemoryStep, DisplayStep, Shown
<1>3. ASSUME NEW d \in over' PROVE d \in tombstones'
  <2>1. CASE d \in over
    BY <1>1, <2>1 DEF IInv, Remembered, MemoryStep
  <2>2. CASE d \notin over
    <3>1. d \in Asks /\ IsFollow(records, d) /\ records'[d] = Nothing
      BY <1>1, <1>3, <2>2 DEF MemoryStep, Watched, Shown
    <3> QED BY <1>1, <3>1, NothingIsElse DEF DisplayStep, IsFollow, Shown
  <2> QED BY <2>1, <2>2
<1>4. ASSUME NEW d \in Asks PROVE EndingTrue(d)'
  <2>1. EndingTrue(d) /\ HostKeeps(d) /\ DisplayStep(d) /\ AnswerStep(d)
    BY <1>1, AnswerSteps DEF IInv, TabTrue
  <2>2. d \in byGrace' => d \in opened
    BY PollSteps DEF PollStep, IInv, HostTrue, GraceJustified
  <2> QED BY <2>1, <2>2 DEF EndingTrue, Assumed, HostKeeps, DisplayStep, AnswerStep, IsFollow, Shown, Decided
<1> QED BY <1>2, <1>3, <1>4 DEF Remembered, Shown

-----------------------------------------------------------------------------
(* The theorems *)

LEMMA NextIInv == IInv /\ [Next]_vars => IInv'
<1> SUFFICES ASSUME IInv, [Next]_vars PROVE IInv'
  OBVIOUS
<1>1. TypedState'
  BY TypedNext DEF IInv
<1>2. \A d \in Asks : HostKeeps(d) /\ StatusTrue(d)'
  BY HostNext DEF IInv
<1>3. HostTrue'
  BY <1>2, PayloadsNext, GraceNext DEF HostTrue
<1>4. Remembered' /\ TabTrue'
  BY <1>2, AnswersNext, DisplayNext DEF TabTrue
<1> QED BY <1>1, <1>3, <1>4 DEF IInv

LEMMA AlwaysIInv == Spec => []IInv
BY InitIInv, NextIInv, PTL DEF Spec

\* No settlement that has left the display is shown again, however late the
\* answers that list it arrive.
THEOREM NothingRevives == Spec => []NeverRevives
<1>1. IInv => NeverRevives
  BY DEF IInv, Remembered, NeverRevives
<1> QED BY <1>1, AlwaysIInv, PTL

\* The tab answers for nobody: its answers and the endings its chip shows are the
\* host's decisions, or, for a countdown the host decided and swept or a reset
\* dropped before the tab saw how it ended, what the host had announced.
THEOREM TabFollowsTheHost == Spec => []AnswersFollowTheHost
<1>1. IInv => AnswersFollowTheHost
  <2> SUFFICES ASSUME IInv, NEW c \in Asks
               PROVE  LET settled == decided[c] # Nothing
                          chip == ChipState(records[c], linkDown) IN
                      /\ c \in byGrace => settled \/ c \in dropped
                      /\ answering[c] # Nothing =>
                           \/ settled /\ answering[c] = decided[c].action
                           \/ /\ c \in byGrace /\ answering[c] = announced[c]
                              /\ status[c] = Nothing \/ c \in dropped
                      /\ c \in answered => c \notin StatusLess
                      /\ chip \in Endings =>
                           \/ settled /\ chip = Ending(decided[c].action, decided[c].source)
                           \/ c \in byGrace /\ chip = Ending(announced[c], "timeout")
    BY Zenon DEF AnswersFollowTheHost
  <2>1. AnswerTrue(c) /\ EndingTrue(c) /\ GraceJustified(c)
    BY DEF IInv, TabTrue, HostTrue
  <2>2. ChipState(records[c], linkDown) \in Endings =>
          IsFollow(records, c) /\ ChipState(records[c], linkDown) = Ending(records[c].action, records[c].source)
    BY DEF ChipState, Endings, IsFollow, Shown
  <2>3. Decided(c, records[c].action, records[c].source) =>
          /\ decided[c] # Nothing
          /\ records[c].action = decided[c].action /\ records[c].source = decided[c].source
    BY DEF Decided
  <2> QED BY <2>1, <2>2, <2>3 DEF AnswerTrue, EndingTrue, Assumed, GraceJustified, Gone
<1> QED BY <1>1, AlwaysIInv, PTL

-----------------------------------------------------------------------------
(* The settings page: the invariant *)

SnapshotFields == {"value", "revision", "offers"}

WriteFields == {"op", "value", "unset", "keys", "meant", "expected", "draft", "snapshot",
                "before", "behind", "answer"}

IsSnapshot(s) == DOMAIN s = SnapshotFields /\ DOMAIN s.value = Keys

\* The elements of a sequence need no set of their own to belong to.
IsList(s) == s \in Seq({s[i] : i \in DOMAIN s})

ReadShape(r) ==
    /\ DOMAIN r = {"kind", "answer"}
    /\ r.answer # NoAnswer => IsSnapshot(r.answer) /\ r.answer.revision \in Nat

WriteShape(w) ==
    /\ DOMAIN w = WriteFields /\ IsSnapshot(w.snapshot)
    /\ w.expected \in Nat /\ w.behind \in BOOLEAN
    /\ RestoresDraft(w) => DOMAIN w.draft = Keys

Shape ==
    /\ DOMAIN doc = Keys /\ rev \in Nat
    /\ DOMAIN form = {"ready", "revision"}
    /\ form.ready \in BOOLEAN /\ form.revision \in Nat
    /\ IsSnapshot(snapshot) /\ regressed \in BOOLEAN
    /\ (draft = NoDraft /\ DOMAIN unsaved = {}) \/ DOMAIN draft = Keys
    /\ \A k \in DOMAIN unsaved : k \in Keys /\ k \notin TopKeys
    /\ IsList(reads) /\ \A i \in DOMAIN reads : ReadShape(reads[i])
    /\ IsList(queue) /\ \A i \in DOMAIN queue : WriteShape(queue[i])

\* A write that may put its draft back shows there what was entered before it.
DraftsHold(i) ==
    LET w == queue[i] IN
    RestoresDraft(w) => \A k \in DOMAIN unsaved \ raced : w.draft[k] = unsaved[k]

EditsInv == EditsSurvive /\ \A i \in DOMAIN queue : DraftsHold(i)

Agrees(value) == \A k \in Editable : value[k] = doc[k]

\* What a write sends for a key was meant by its click or is the normalised
\* value of the snapshot it was clicked on.
Intent(w) ==
    /\ \A k \in SetOps(w) : \/ k \in DOMAIN w.meant /\ w.value[k] = w.meant[k]
                            \/ w.value[k] = Normal(w.snapshot.value[k])
    /\ \A k \in UnsetOps(w) : k \in DOMAIN w.meant /\ w.meant[k] = Base

\* An answer is the section of its revision.
ReadTrue(i) ==
    LET a == reads[i].answer IN
    a # NoAnswer => a.revision <= rev /\ (a.revision = rev => a.value = doc)

\* While the fence of a write would hold, its snapshot is the section; while
\* nothing was written since it was accepted, so is what it merges.
WriteTrue(i) ==
    LET w == queue[i] IN
    /\ w.expected <= rev
    /\ w.answer = "queued" /\ ~w.behind /\ w.expected = rev => Agrees(w.snapshot.value)
    /\ w.answer = "accepted" => w.expected < rev
    /\ w.answer = "accepted" /\ ~w.behind /\ rev = w.expected + 1 /\ UnsetOps(w) = {} =>
         Agrees(Merged(w))

PageTrue ==
    /\ form.revision <= rev
    /\ form.ready /\ form.revision = rev /\ ~regressed => Agrees(snapshot.value)

SavesInv ==
    /\ PageTrue
    /\ \A i \in DOMAIN reads : ReadTrue(i)
    /\ \A i \in DOMAIN queue : Intent(queue[i]) /\ WriteTrue(i)
-----------------------------------------------------------------------------
(* Lists *)

LEMMA ListOf ==
  ASSUME NEW S, NEW s \in Seq(S) PROVE IsList(s)
<1>1. Len(s) \in Nat /\ DOMAIN s = 1..Len(s) /\ s \in [1..Len(s) -> S]
  BY LenProperties
<1>2. s \in [1..Len(s) -> {s[i] : i \in DOMAIN s}]
  BY <1>1
<1> QED
  BY <1>1, <1>2, SeqDef DEF IsList

LEMMA ListDomain ==
  ASSUME NEW s, IsList(s) PROVE Len(s) \in Nat /\ DOMAIN s = 1..Len(s)
BY LenProperties DEF IsList

LEMMA ListAppend ==
  ASSUME NEW s, IsList(s), NEW e
  PROVE  /\ IsList(Append(s, e)) /\ DOMAIN Append(s, e) = 1..(Len(s) + 1)
         /\ \A i \in DOMAIN s : Append(s, e)[i] = s[i]
         /\ Append(s, e)[Len(s) + 1] = e
<1>. DEFINE S == {s[i] : i \in DOMAIN s} \cup {e}
<1>1. s \in Seq(S) /\ e \in S
  BY SeqMonotonic DEF IsList
<1>2. Len(s) \in Nat /\ DOMAIN s = 1..Len(s)
  BY ListDomain
<1>. HIDE DEF S
<1>3. /\ Append(s, e) \in Seq(S) /\ Len(Append(s, e)) = Len(s) + 1
      /\ \A i \in 1..Len(s) : Append(s, e)[i] = s[i]
      /\ Append(s, e)[Len(s) + 1] = e
  BY <1>1, AppendProperties
<1>4. DOMAIN Append(s, e) = 1..(Len(s) + 1)
  BY <1>3, LenProperties
<1> QED
  BY <1>2, <1>3, <1>4, ListOf

LEMMA ListTail ==
  ASSUME NEW s, IsList(s), s # <<>>
  PROVE  /\ 1 \in DOMAIN s /\ Head(s) = s[1] /\ IsList(Tail(s)) /\ Len(Tail(s)) # Len(s)
         /\ \A i \in DOMAIN Tail(s) : i + 1 \in DOMAIN s /\ Tail(s)[i] = s[i + 1]
<1>. DEFINE S == {s[i] : i \in DOMAIN s}
<1>1. s \in Seq(S)
  BY DEF IsList
<1>2. Len(s) \in Nat /\ DOMAIN s = 1..Len(s)
  BY ListDomain
<1>. HIDE DEF S
<1>3. /\ Tail(s) \in Seq(S) /\ Len(Tail(s)) = Len(s) - 1
      /\ \A i \in 1..Len(Tail(s)) : Tail(s)[i] = s[i + 1]
  BY <1>1, HeadTailProperties
<1>4. DOMAIN Tail(s) = 1..Len(Tail(s)) /\ Len(Tail(s)) \in Nat
  BY <1>3, LenProperties
<1>5. Head(s) = s[1]
  BY <1>1
<1>6. IsList(Tail(s))
  BY <1>3, ListOf
<1>. DEFINE m == Len(s)
            n == Len(Tail(s))
            t == Tail(s)
<1>7. /\ m \in Nat /\ n \in Nat /\ n = m - 1
      /\ DOMAIN s = 1..m /\ DOMAIN t = 1..n /\ \A i \in 1..n : t[i] = s[i + 1]
  BY <1>2, <1>3, <1>4
<1>. HIDE DEF m, n, t
<1>8. 1 \in DOMAIN s /\ n # m /\ \A i \in DOMAIN t : i + 1 \in DOMAIN s /\ t[i] = s[i + 1]
  BY <1>7
<1> QED
  BY <1>5, <1>6, <1>8 DEF m, n, t

LEMMA ListExcept ==
  ASSUME NEW s, IsList(s), NEW i \in DOMAIN s, NEW e
  PROVE  /\ IsList([s EXCEPT ![i] = e]) /\ DOMAIN [s EXCEPT ![i] = e] = DOMAIN s
         /\ \A j \in DOMAIN s : [s EXCEPT ![i] = e][j] = IF j = i THEN e ELSE s[j]
<1>. DEFINE S == {s[j] : j \in DOMAIN s} \cup {e}
<1>1. s \in Seq(S) /\ e \in S
  BY SeqMonotonic DEF IsList
<1>2. Len(s) \in Nat /\ DOMAIN s = 1..Len(s)
  BY ListDomain
<1>. HIDE DEF S
<1>3. [s EXCEPT ![i] = e] \in Seq(S)
  BY <1>1, <1>2, ExceptSeq
<1> QED
  BY <1>3, ListOf

\* What is left of a list are elements of it.
LEMMA ListRemove ==
  ASSUME NEW s, IsList(s), NEW i \in DOMAIN s
  PROVE  /\ IsList(RemoveAt(s, i))
         /\ \A j \in DOMAIN RemoveAt(s, i) : \E l \in DOMAIN s : RemoveAt(s, i)[j] = s[l]
<1>. DEFINE S == {s[j] : j \in DOMAIN s}
<1>1. s \in Seq(S)
  BY DEF IsList
<1>2. Len(s) \in Nat /\ DOMAIN s = 1..Len(s)
  BY ListDomain
<1>. HIDE DEF S
<1>3. SubSeq(s, 1, i - 1) \in Seq(S) /\ SubSeq(s, i + 1, Len(s)) \in Seq(S)
  BY <1>1, <1>2
<1>4. RemoveAt(s, i) \in Seq(S)
  BY <1>3, ConcatProperties DEF RemoveAt
<1>5. \A j \in DOMAIN RemoveAt(s, i) : RemoveAt(s, i)[j] \in S
  BY <1>4, ElementOfSeq, LenProperties
<1> QED
  BY <1>4, <1>5, ListOf DEF S
-----------------------------------------------------------------------------
(* What the actions do to the two lists *)

\* The requests are old ones, or not answered yet.
OldReads(t) ==
    /\ IsList(t)
    /\ \A j \in DOMAIN t :
         \/ \E l \in DOMAIN reads : t[j] = reads[l]
         \/ DOMAIN t[j] = {"kind", "answer"} /\ t[j].answer = NoAnswer

OldWrites(t) == IsList(t) /\ \A j \in DOMAIN t : \E l \in DOMAIN queue : t[j] = queue[l]

\* A click hands the host a write that remembers the page it was made on.
Click(w) ==
    /\ queue' = Append(queue, w)
    /\ DOMAIN w = WriteFields /\ w.answer = "queued" /\ w.expected = form.revision
    /\ w.draft = draft /\ w.snapshot = snapshot /\ w.behind = regressed
    /\ UNCHANGED <<doc, rev, form, snapshot, reads, regressed>>

Clicks ==
    \/ \E k \in TopKeys, v \in Typed : Toggle(k, v)
    \/ \E c \in Cards : SaveCard(c)
    \/ ResetReviewer \/ RestoreTop \/ ImportLegacy \/ UndoLegacy \/ ClearInvalid

LEMMA Submitted ==
  ASSUME NEW op, NEW value, NEW unset, NEW keys, NEW meant, NEW extra,
         Submit(op, value, unset, keys, meant, extra)
  PROVE  \E w : Click(w) /\ w.op = op /\ w.value = value /\ w.unset = unset /\ w.meant = meant
<1>. DEFINE w == [op |-> op, value |-> value, unset |-> unset, keys |-> keys, meant |-> meant,
                  expected |-> form.revision, draft |-> draft, snapshot |-> snapshot,
                  before |-> extra, behind |-> regressed, answer |-> "queued"]
<1>1. queue' = Append(queue, w) /\ UNCHANGED <<doc, rev, form, snapshot, reads, regressed>>
  BY DEF Submit
<1>2. /\ DOMAIN w = WriteFields /\ w.answer = "queued" /\ w.expected = form.revision
      /\ w.draft = draft /\ w.snapshot = snapshot /\ w.behind = regressed
      /\ w.op = op /\ w.value = value /\ w.unset = unset /\ w.meant = meant
  BY DEF WriteFields
<1>. HIDE DEF w
<1> QED
  BY <1>1, <1>2 DEF Click

\* What a slice holds for a key is the patch's or the snapshot's.
LEMMA Slice ==
  ASSUME NEW patch, NEW k \in DOMAIN SliceWithKeys(patch)
  PROVE  /\ k \in Keys
         /\ SliceWithKeys(patch)[k] = IF k \in DOMAIN patch THEN patch[k] ELSE Normal(snapshot.value[k])
BY DEF SliceWithKeys, ValueOf, Restrict, Overlay, DraftOf

LEMMA SliceOfCard ==
  ASSUME NEW keys, NEW k \in DOMAIN SliceValueOf(keys)
  PROVE  /\ k \in Keys
         /\ SliceValueOf(keys)[k] = IF k \in keys THEN draft[k] ELSE Normal(snapshot.value[k])
BY DEF SliceValueOf, ValueOf, Restrict, Overlay, DraftOf, Pick

\* A patch that is meant, with nothing unset or with keys of the patch whose
\* value is the base.
LEMMA PatchIsMeant ==
  ASSUME NEW w, NEW patch, w.value = SliceWithKeys(patch), w.meant = patch, w.snapshot = snapshot,
         \A k \in w.unset : k \in DOMAIN patch /\ patch[k] = Base
  PROVE  Intent(w)
<1>1. \A k \in SetOps(w) : k \in DOMAIN SliceWithKeys(patch)
  BY DEF SetOps
<1> QED
  BY <1>1, Slice DEF Intent, UnsetOps

LEMMA Clicked ==
  ASSUME Clicks PROVE Rendered /\ \E w : Click(w) /\ Intent(w)
<1>1. ASSUME NEW k \in TopKeys, NEW v \in Typed, Toggle(k, v)
      PROVE  Rendered /\ \E w : Click(w) /\ Intent(w)
  <2>. DEFINE patch == [j \in {k} |-> v]
  <2>1. Rendered /\ Submit("toggle", SliceWithKeys(patch), {}, {}, patch, NoOffers)
    BY <1>1 DEF Toggle
  <2>. HIDE DEF patch
  <2>2. PICK w : Click(w) /\ w.value = SliceWithKeys(patch) /\ w.unset = {} /\ w.meant = patch
    BY <2>1, Submitted
  <2>3. Intent(w)
    BY <2>2, PatchIsMeant DEF Click
  <2> QED
    BY <2>1, <2>2, <2>3
<1>2. ASSUME NEW c \in Cards, SaveCard(c) PROVE Rendered /\ \E w : Click(w) /\ Intent(w)
  <2>1. /\ Rendered
        /\ Submit("save", SliceValueOf(CardKeys[c]), {}, CardKeys[c], Pick(CardKeys[c], draft), NoOffers)
    BY <1>2 DEF SaveCard
  <2>2. PICK w : /\ Click(w) /\ w.value = SliceValueOf(CardKeys[c]) /\ w.unset = {}
                 /\ w.meant = Pick(CardKeys[c], draft)
    BY <2>1, Submitted
  <2>3. \A k \in SetOps(w) : k \in DOMAIN SliceValueOf(CardKeys[c])
    BY <2>2 DEF SetOps
  <2>4. DOMAIN w.meant = CardKeys[c] /\ \A k \in CardKeys[c] : w.meant[k] = draft[k]
    BY <2>2 DEF Pick, Restrict
  <2>5. Intent(w)
    BY <2>2, <2>3, <2>4, SliceOfCard DEF Intent, UnsetOps, Click
  <2> QED
    BY <2>1, <2>2, <2>5
<1>3. ASSUME ResetReviewer PROVE Rendered /\ \E w : Click(w) /\ Intent(w)
  <2>. DEFINE reset == [k \in CardKeys[ReviewCard] |-> Base]
  <2>1. Rendered /\ Submit("resetReview", SliceWithKeys(reset), Optional, {}, reset, NoOffers)
    BY <1>3 DEF ResetReviewer
  <2>2. \A k \in Optional : k \in DOMAIN reset /\ reset[k] = Base
    BY SettingsCardAssumption
  <2>. HIDE DEF reset
  <2>3. PICK w : Click(w) /\ w.value = SliceWithKeys(reset) /\ w.unset = Optional /\ w.meant = reset
    BY <2>1, Submitted
  <2>4. Intent(w)
    BY <2>2, <2>3, PatchIsMeant DEF Click
  <2> QED
    BY <2>1, <2>3, <2>4
<1>4. ASSUME RestoreTop PROVE Rendered /\ \E w : Click(w) /\ Intent(w)
  <2>. DEFINE reset == [k \in TopKeys |-> Base]
  <2>1. Rendered /\ Submit("restore", SliceWithKeys(reset), {}, {}, reset, NoOffers)
    BY <1>4 DEF RestoreTop
  <2>. HIDE DEF reset
  <2>2. PICK w : Click(w) /\ w.value = SliceWithKeys(reset) /\ w.unset = {} /\ w.meant = reset
    BY <2>1, Submitted
  <2>3. Intent(w)
    BY <2>2, PatchIsMeant DEF Click
  <2> QED
    BY <2>1, <2>2, <2>3
<1>5. ASSUME ImportLegacy PROVE Rendered /\ \E w : Click(w) /\ Intent(w)
  <2>1. /\ Rendered
        /\ Submit("import", snapshot.offers, {}, DOMAIN snapshot.offers, snapshot.offers,
                  Restrict(snapshot.value, DOMAIN snapshot.offers))
    BY <1>5 DEF ImportLegacy
  <2>2. PICK w : Click(w) /\ w.value = snapshot.offers /\ w.unset = {} /\ w.meant = snapshot.offers
    BY <2>1, Submitted
  <2>3. Intent(w)
    BY <2>2 DEF Intent, SetOps, UnsetOps
  <2> QED
    BY <2>1, <2>2, <2>3
<1>6. ASSUME UndoLegacy PROVE Rendered /\ \E w : Click(w) /\ Intent(w)
  <2>1. Rendered /\ Submit("undo", undo, {}, {}, undo, NoOffers)
    BY <1>6 DEF UndoLegacy
  <2>2. PICK w : Click(w) /\ w.value = undo /\ w.unset = {} /\ w.meant = undo
    BY <2>1, Submitted
  <2>3. Intent(w)
    BY <2>2 DEF Intent, SetOps, UnsetOps
  <2> QED
    BY <2>1, <2>2, <2>3
<1>7. ASSUME ClearInvalid PROVE Rendered /\ \E w : Click(w) /\ Intent(w)
  <2>. DEFINE meant == [k \in InvalidKeys |-> Base]
  <2>1. Rendered /\ Submit("clear", NoOffers, InvalidKeys, {}, meant, NoOffers)
    BY <1>7 DEF ClearInvalid
  <2>2. \A k \in InvalidKeys : k \in DOMAIN meant /\ meant[k] = Base
    OBVIOUS
  <2>. HIDE DEF meant
  <2>3. PICK w : Click(w) /\ w.value = NoOffers /\ w.unset = InvalidKeys /\ w.meant = meant
    BY <2>1, Submitted
  <2>4. SetOps(w) = {}
    BY <2>3 DEF SetOps, NoOffers, Restrict
  <2>5. Intent(w)
    BY <2>2, <2>3, <2>4 DEF Intent, UnsetOps
  <2> QED
    BY <2>1, <2>3, <2>5
<1> QED
  BY <1>1, <1>2, <1>3, <1>4, <1>5, <1>6, <1>7 DEF Clicks

LEMMA AskedAfter ==
  ASSUME NEW t, OldReads(t), NEW kind
  PROVE  OldReads(Append(t, [kind |-> kind, answer |-> NoAnswer]))
<1>. DEFINE r == [kind |-> kind, answer |-> NoAnswer]
            u == Append(t, r)
            n == Len(t)
<1>1. DOMAIN r = {"kind", "answer"} /\ r.answer = NoAnswer
  OBVIOUS
<1>. HIDE DEF r
<1>2. /\ IsList(t) /\ n \in Nat /\ DOMAIN t = 1..n
      /\ IsList(u) /\ DOMAIN u = 1..(n + 1) /\ (\A i \in DOMAIN t : u[i] = t[i]) /\ u[n + 1] = r
  BY ListDomain, ListAppend DEF OldReads
<1>. HIDE DEF u, n
<1>3. \A j \in DOMAIN u : j = n + 1 \/ j \in DOMAIN t
  BY <1>2
<1>4. OldReads(u)
  BY <1>1, <1>2, <1>3 DEF OldReads
<1> QED
  BY <1>4 DEF u, r

LEMMA ReadsSame ==
  ASSUME IsList(reads) PROVE OldReads(reads)
BY DEF OldReads

LEMMA ReadTaken ==
  ASSUME IsList(reads), NEW i \in DOMAIN reads PROVE OldReads(RemoveAt(reads, i))
BY ListRemove DEF OldReads

LEMMA WritesSame ==
  ASSUME IsList(queue) PROVE OldWrites(queue)
BY DEF OldWrites

LEMMA WriteDone ==
  ASSUME IsList(queue), queue # <<>> PROVE OldWrites(Tail(queue))
BY ListTail DEF OldWrites

\* What the other actions share: no answer from the host, no click.
Others ==
    \/ \E k \in Keys, v \in Foreign : ForeignWrite(k, v)
    \/ \E i \in DOMAIN reads : ReadArrives(i) \/ ReadFails(i) \/ CredentialAnswers(i)
    \/ FormArrives \/ FormLeaves
    \/ \E k \in Editable, v \in Typed : Edit(k, v)
    \/ \E c \in Cards : Discard(c) \/ ResetCard(c)
    \/ Lands \/ Refused
    \/ UNCHANGED cardVars

Lists == IsList(reads) /\ IsList(queue)

LEMMA FourKinds ==
  ASSUME [CardNext]_cardVars
  PROVE  \/ Clicks \/ Others
         \/ \E i \in DOMAIN queue : HostTakes(i)
         \/ \E i \in DOMAIN reads : HostServes(i)
BY DEF CardNext, Clicks, Others

LEMMA LandsAsks ==
  ASSUME Lists, Lands
  PROVE  /\ OldReads(reads') /\ OldWrites(queue')
         /\ UNCHANGED <<doc, rev, form, clicks, edits, foreign>>
<1>. DEFINE w == Head(queue)
<1>1. /\ queue # <<>> /\ w.answer = "accepted" /\ Landed
      /\ \/ SaveLands(w) \/ ToggleLands(w) \/ ResetReviewLands(w) \/ RestoreLands(w)
         \/ ImportLands(w) \/ UndoLands(w) \/ ClearLands(w)
  BY DEF Lands
<1>2. OldReads(Ask("sync")) /\ OldReads(Ask("undo"))
  BY ReadsSame, AskedAfter DEF Lists, Ask
<1>3. OldReads(Append(Ask("sync"), [kind |-> "forget", answer |-> NoAnswer]))
  BY <1>2, AskedAfter
<1>. HIDE DEF w
<1>4. OldReads(reads')
  BY <1>1, <1>2, <1>3
     DEF SaveLands, ToggleLands, ResetReviewLands, RestoreLands, ImportLands, UndoLands, ClearLands
<1>5. OldWrites(queue')
  BY <1>1, WriteDone DEF Lists, Landed
<1> QED
  BY <1>1, <1>4, <1>5 DEF Landed

LEMMA OthersKeep ==
  ASSUME Lists, Others PROVE OldReads(reads') /\ OldWrites(queue')
<1>1. ASSUME NEW k, NEW v, ForeignWrite(k, v) PROVE OldReads(reads') /\ OldWrites(queue')
  BY <1>1, ReadsSame, WritesSame DEF Lists, ForeignWrite, pageVars
<1>2. ASSUME NEW i \in DOMAIN reads, ReadArrives(i) PROVE OldReads(reads') /\ OldWrites(queue')
  BY <1>2, ReadTaken, WritesSame DEF Lists, ReadArrives
<1>3. ASSUME NEW i \in DOMAIN reads, ReadFails(i) PROVE OldReads(reads') /\ OldWrites(queue')
  BY <1>3, ReadTaken, WritesSame DEF Lists, ReadFails
<1>4. ASSUME NEW i \in DOMAIN reads, CredentialAnswers(i) PROVE OldReads(reads') /\ OldWrites(queue')
  <2>1. OldReads(RemoveAt(reads, i))
    BY ReadTaken DEF Lists
  <2>2. OldReads(Append(RemoveAt(reads, i), [kind |-> "sync", answer |-> NoAnswer]))
    BY <2>1, AskedAfter
  <2> QED
    BY <1>4, <2>1, <2>2, WritesSame DEF Lists, CredentialAnswers
<1>5. ASSUME FormArrives \/ FormLeaves PROVE OldReads(reads') /\ OldWrites(queue')
  BY <1>5, ReadsSame, WritesSame DEF Lists, FormArrives, FormLeaves
<1>6. ASSUME NEW k, NEW v, Edit(k, v) PROVE OldReads(reads') /\ OldWrites(queue')
  BY <1>6, ReadsSame, WritesSame DEF Lists, Edit
<1>7. ASSUME NEW c, Discard(c) \/ ResetCard(c) PROVE OldReads(reads') /\ OldWrites(queue')
  BY <1>7, ReadsSame, WritesSame DEF Lists, Discard, ResetCard, Revise
<1>8. ASSUME Refused PROVE OldReads(reads') /\ OldWrites(queue')
  <2>1. OldReads(Ask("sync")) /\ OldReads(reads)
    BY ReadsSame, AskedAfter DEF Lists, Ask
  <2>2. reads' = reads \/ reads' = Ask("sync")
    BY <1>8 DEF Refused
  <2>3. queue # <<>> /\ queue' = Tail(queue)
    BY <1>8 DEF Refused, Landed
  <2> QED
    BY <2>1, <2>2, <2>3, WriteDone DEF Lists
<1>9. ASSUME UNCHANGED cardVars PROVE OldReads(reads') /\ OldWrites(queue')
  BY <1>9, ReadsSame, WritesSame DEF Lists, cardVars, pageVars
<1> QED
  BY <1>1, <1>2, <1>3, <1>4, <1>5, <1>6, <1>7, <1>8, <1>9, LandsAsks DEF Others
-----------------------------------------------------------------------------
(* The draft *)

\* No entry that has to survive is new.
Fewer ==
    \A k \in DOMAIN unsaved' \ raced' : k \in DOMAIN unsaved \ raced /\ unsaved'[k] = unsaved[k]

DraftShape ==
    /\ (draft = NoDraft /\ DOMAIN unsaved = {}) \/ DOMAIN draft = Keys
    /\ \A k \in DOMAIN unsaved : k \in Keys /\ k \notin TopKeys

DraftHolds == DraftShape' /\ EditsSurvive' /\ Fewer

LEMMA DraftSame ==
  ASSUME DraftShape, EditsSurvive, UNCHANGED <<draft, unsaved, raced>> PROVE DraftHolds
BY DEF DraftShape, EditsSurvive, DraftHolds, Fewer

LEMMA DraftCleared ==
  ASSUME NEW value, draft' = DraftOf(value), unsaved' = NoOffers, raced' = {} PROVE DraftHolds
<1>1. DOMAIN NoOffers = {}
  BY DEF NoOffers, Restrict
<1>2. DOMAIN DraftOf(value) = Keys
  BY DEF DraftOf
<1> QED
  BY <1>1, <1>2 DEF DraftShape, EditsSurvive, DraftHolds, Fewer

LEMMA Overlaid ==
  ASSUME NEW d, NEW patch
  PROVE  /\ DOMAIN Overlay(d, patch) = DOMAIN d
         /\ \A k \in DOMAIN d : Overlay(d, patch)[k] = IF k \in DOMAIN patch THEN patch[k] ELSE d[k]
BY DEF Overlay

LEMMA Forgotten ==
  ASSUME NEW keys, Forget(keys)
  PROVE  /\ DOMAIN unsaved' = DOMAIN unsaved \ keys /\ raced' = raced \ keys
         /\ \A k \in DOMAIN unsaved' : unsaved'[k] = unsaved[k]
BY DEF Forget, Restrict

LEMMA RowChanged ==
  ASSUME DraftShape, EditsSurvive, Rendered, NEW patch, \A k \in DOMAIN patch : k \in TopKeys,
         draft' = Overlay(draft, patch), UNCHANGED <<unsaved, raced>>
  PROVE  DraftHolds
<1>1. DOMAIN draft = Keys
  BY DEF DraftShape, Rendered
<1>2. /\ DOMAIN draft' = Keys
      /\ \A k \in Keys : draft'[k] = IF k \in DOMAIN patch THEN patch[k] ELSE draft[k]
  BY <1>1, Overlaid
<1> QED
  BY <1>2 DEF DraftShape, EditsSurvive, DraftHolds, Fewer

LEMMA CardChanged ==
  ASSUME DraftShape, EditsSurvive, Rendered, NEW patch,
         draft' = Overlay(draft, patch), Forget(DOMAIN patch)
  PROVE  DraftHolds
<1>1. DOMAIN draft = Keys
  BY DEF DraftShape, Rendered
<1>2. /\ DOMAIN draft' = Keys
      /\ \A k \in Keys : draft'[k] = IF k \in DOMAIN patch THEN patch[k] ELSE draft[k]
  BY <1>1, Overlaid
<1>3. /\ DOMAIN unsaved' = DOMAIN unsaved \ DOMAIN patch /\ raced' = raced \ DOMAIN patch
      /\ \A k \in DOMAIN unsaved' : unsaved'[k] = unsaved[k]
  BY Forgotten
<1> QED
  BY <1>2, <1>3 DEF DraftShape, EditsSurvive, DraftHolds, Fewer

\* The landing of a save puts back the draft of its click but for the keys saved.
LEMMA CardSaved ==
  ASSUME DraftShape, NEW w, DOMAIN w.draft = Keys,
         \A k \in DOMAIN unsaved \ raced : w.draft[k] = unsaved[k],
         draft' = SavedDraft(w), Forget(w.keys)
  PROVE  DraftHolds
<1>. DEFINE patch == Pick(w.keys, DraftOf(Merged(w)))
<1>1. DOMAIN patch = w.keys
  BY DEF Pick, Restrict
<1>2. draft' = Overlay(w.draft, patch)
  BY DEF SavedDraft
<1>. HIDE DEF patch
<1>3. /\ DOMAIN draft' = Keys
      /\ \A k \in Keys : draft'[k] = IF k \in DOMAIN patch THEN patch[k] ELSE w.draft[k]
  BY <1>2, Overlaid
<1>4. /\ DOMAIN unsaved' = DOMAIN unsaved \ DOMAIN patch /\ raced' = raced \ DOMAIN patch
      /\ \A k \in DOMAIN unsaved' : unsaved'[k] = unsaved[k]
  BY <1>1, Forgotten
<1> QED
  BY <1>3, <1>4 DEF DraftShape, EditsSurvive, DraftHolds, Fewer

LEMMA ClicksHoldTheDraft ==
  ASSUME DraftShape, EditsSurvive, Clicks PROVE DraftHolds
<1>1. Rendered
  BY Clicked
<1>2. ASSUME NEW k \in TopKeys, NEW v \in Typed, Toggle(k, v) PROVE DraftHolds
  <2>. DEFINE patch == [j \in {k} |-> v]
  <2>1. draft' = Overlay(draft, patch) /\ UNCHANGED <<unsaved, raced>>
    BY <1>2 DEF Toggle
  <2>2. \A j \in DOMAIN patch : j \in TopKeys
    OBVIOUS
  <2>. HIDE DEF patch
  <2> QED
    BY <1>1, <2>1, <2>2, RowChanged
<1>3. ASSUME NEW c \in Cards, SaveCard(c) PROVE DraftHolds
  BY <1>3, DraftSame DEF SaveCard
<1>4. ASSUME ResetReviewer PROVE DraftHolds
  BY <1>1, <1>4, CardChanged DEF ResetReviewer
<1>5. ASSUME RestoreTop PROVE DraftHolds
  <2>. DEFINE reset == [k \in TopKeys |-> Base]
  <2>1. draft' = Overlay(draft, reset) /\ UNCHANGED <<unsaved, raced>>
    BY <1>5 DEF RestoreTop
  <2>2. \A j \in DOMAIN reset : j \in TopKeys
    OBVIOUS
  <2>. HIDE DEF reset
  <2> QED
    BY <1>1, <2>1, <2>2, RowChanged
<1>6. ASSUME ImportLegacy \/ UndoLegacy \/ ClearInvalid PROVE DraftHolds
  BY <1>6, DraftSame DEF ImportLegacy, UndoLegacy, ClearInvalid
<1> QED
  BY <1>2, <1>3, <1>4, <1>5, <1>6 DEF Clicks

LEMMA LandingHoldsTheDraft ==
  ASSUME Shape, EditsInv, Lands \/ Refused PROVE DraftHolds
<1>. DEFINE w == Head(queue)
<1>1. queue # <<>>
  BY DEF Lands, Refused
<1>2. 1 \in DOMAIN queue /\ w = queue[1]
  BY <1>1, ListTail DEF Shape
<1>3. RestoresDraft(w) => DOMAIN w.draft = Keys /\ \A k \in DOMAIN unsaved \ raced : w.draft[k] = unsaved[k]
  BY <1>2 DEF Shape, WriteShape, EditsInv, DraftsHold
<1>4. DraftShape /\ EditsSurvive
  BY DEF Shape, EditsInv, DraftShape
<1>5. \/ SaveLands(w) \/ ToggleLands(w) \/ ResetReviewLands(w) \/ RestoreLands(w)
      \/ ImportLands(w) \/ UndoLands(w) \/ ClearLands(w)
      \/ (draft' = IF w.op = "toggle" THEN w.draft ELSE draft) /\ UNCHANGED <<unsaved, raced>>
  BY DEF Lands, Refused
<1>. HIDE DEF w
<1>6. CASE SaveLands(w) \/ ImportLands(w)
  <2>1. RestoresDraft(w) /\ draft' = SavedDraft(w) /\ Forget(w.keys)
    BY <1>6 DEF SaveLands, ImportLands, RestoresDraft
  <2> QED
    BY <1>3, <1>4, <2>1, CardSaved
<1>7. CASE ToggleLands(w) \/ ResetReviewLands(w) \/ UndoLands(w) \/ ClearLands(w)
  BY <1>4, <1>7, DraftSame DEF ToggleLands, ResetReviewLands, UndoLands, ClearLands, Keeps
<1>8. CASE RestoreLands(w)
  BY <1>8, DraftCleared DEF RestoreLands
<1>9. CASE (draft' = IF w.op = "toggle" THEN w.draft ELSE draft) /\ UNCHANGED <<unsaved, raced>>
  <2>1. CASE w.op = "toggle"
    BY <1>3, <1>4, <1>9, <2>1 DEF RestoresDraft, DraftShape, EditsSurvive, DraftHolds, Fewer
  <2>2. CASE w.op # "toggle"
    BY <1>4, <1>9, <2>2, DraftSame
  <2> QED
    BY <2>1, <2>2
<1> QED
  BY <1>5, <1>6, <1>7, <1>8, <1>9
\* What the steps that touch neither the draft nor what it must hold do.
LEMMA OthersHoldTheDraft ==
  ASSUME Shape, EditsInv, Others, ~\E k \in Editable, v \in Typed : Edit(k, v)
  PROVE  DraftHolds
<1>1. DraftShape /\ EditsSurvive
  BY DEF Shape, EditsInv, DraftShape
<1>2. ASSUME NEW k, NEW v, ForeignWrite(k, v) PROVE DraftHolds
  BY <1>1, <1>2, DraftSame DEF ForeignWrite, pageVars
<1>3. ASSUME NEW i \in DOMAIN reads, ReadArrives(i) PROVE DraftHolds
  <2>1. \/ UNCHANGED <<draft, unsaved, raced>>
        \/ draft' = DraftOf(reads[i].answer.value) /\ unsaved' = NoOffers /\ raced' = {}
    BY <1>3 DEF ReadArrives
  <2> QED
    BY <1>1, <2>1, DraftSame, DraftCleared
<1>4. ASSUME NEW i \in DOMAIN reads, ReadFails(i) \/ CredentialAnswers(i) PROVE DraftHolds
  BY <1>1, <1>4, DraftSame DEF ReadFails, CredentialAnswers
<1>5. ASSUME FormArrives \/ FormLeaves \/ UNCHANGED cardVars PROVE DraftHolds
  BY <1>1, <1>5, DraftSame DEF FormArrives, FormLeaves, cardVars, pageVars
<1>6. ASSUME NEW keys, NEW d, Revise(keys, d) PROVE DraftHolds
  <2>. DEFINE patch == Pick(keys, d)
  <2>1. DOMAIN patch = keys
    BY DEF Pick, Restrict
  <2>2. Rendered /\ draft' = Overlay(draft, patch) /\ Forget(keys)
    BY <1>6 DEF Revise
  <2>. HIDE DEF patch
  <2> QED
    BY <1>1, <2>1, <2>2, CardChanged
<1>7. ASSUME NEW c, Discard(c) \/ ResetCard(c) PROVE DraftHolds
  BY <1>6, <1>7 DEF Discard, ResetCard
<1> QED
  BY <1>2, <1>3, <1>4, <1>5, <1>7, LandingHoldsTheDraft DEF Others

\* What a write under way has in store for the draft stays true.
LEMMA DraftsKept ==
  ASSUME EditsInv, DraftHolds,
         \A j \in DOMAIN queue' :
           \/ \E l \in DOMAIN queue : queue'[j].op = queue[l].op /\ queue'[j].draft = queue[l].draft
           \/ queue'[j].draft = draft
  PROVE  EditsInv'
<1>1. ASSUME NEW j \in DOMAIN queue', RestoresDraft(queue'[j]), NEW k \in DOMAIN unsaved' \ raced'
      PROVE  queue'[j].draft[k] = unsaved'[k]
  <2>1. k \in DOMAIN unsaved \ raced /\ unsaved'[k] = unsaved[k]
    BY DEF DraftHolds, Fewer
  <2>2. CASE \E l \in DOMAIN queue : queue'[j].op = queue[l].op /\ queue'[j].draft = queue[l].draft
    <3>1. PICK l \in DOMAIN queue : queue'[j].op = queue[l].op /\ queue'[j].draft = queue[l].draft
      BY <2>2
    <3>2. queue[l].draft[k] = unsaved[k]
      BY <1>1, <2>1, <3>1 DEF EditsInv, DraftsHold, RestoresDraft
    <3> QED
      BY <2>1, <3>1, <3>2
  <2>3. CASE queue'[j].draft = draft
    BY <2>1, <2>3 DEF EditsInv, EditsSurvive
  <2> QED
    BY <2>2, <2>3
<1> QED
  BY <1>1 DEF EditsInv, DraftsHold, DraftHolds

LEMMA EditHolds ==
  ASSUME Shape, EditsInv, NEW k \in Editable, NEW v, Edit(k, v) PROVE DraftShape' /\ EditsInv'
<1>1. DOMAIN draft = Keys /\ k \in Keys /\ k \notin TopKeys
  <2>1. DOMAIN draft = Keys
    BY DEF Edit, Rendered, Shape
  <2>2. k \notin TopKeys
    BY SettingsCardAssumption DEF Edit, CardKey
  <2> QED
    BY <2>1, <2>2 DEF Keys
<1>2. /\ DOMAIN draft' = Keys /\ DOMAIN unsaved' = DOMAIN unsaved \cup {k}
      /\ \A j \in Keys : draft'[j] = IF j = k THEN v ELSE draft[j]
      /\ \A j \in DOMAIN unsaved' : unsaved'[j] = IF j = k THEN v ELSE unsaved[j]
      /\ queue' = queue
  BY <1>1 DEF Edit
<1>3. DraftShape'
  BY <1>1, <1>2 DEF Shape, DraftShape
<1>4. /\ \A j \in DOMAIN unsaved' \ raced' : j # k => j \in DOMAIN unsaved \ raced
      /\ (\E i \in DOMAIN queue : RestoresDraft(queue[i])) => k \in raced'
  BY <1>2 DEF Edit
<1>5. EditsSurvive'
  BY <1>1, <1>2, <1>4 DEF Shape, EditsInv, EditsSurvive
<1>6. ASSUME NEW i \in DOMAIN queue', RestoresDraft(queue'[i]), NEW j \in DOMAIN unsaved' \ raced'
      PROVE  queue'[i].draft[j] = unsaved'[j]
  <2>1. j # k
    BY <1>2, <1>4, <1>6
  <2> QED
    BY <1>2, <1>4, <1>6, <2>1 DEF EditsInv, DraftsHold
<1> QED
  BY <1>3, <1>5, <1>6 DEF EditsInv, DraftsHold

-----------------------------------------------------------------------------
(* The host's answers *)

\* Two records of one write, at two stages of its life.
SameWrite(w, u) ==
    /\ u.op = w.op /\ u.value = w.value /\ u.unset = w.unset /\ u.keys = w.keys
    /\ u.meant = w.meant /\ u.expected = w.expected /\ u.draft = w.draft
    /\ u.snapshot = w.snapshot /\ u.behind = w.behind

LEMMA Answered ==
  ASSUME NEW w, DOMAIN w = WriteFields, NEW a
  PROVE  LET u == [w EXCEPT !.answer = a] IN
         DOMAIN u = WriteFields /\ SameWrite(w, u) /\ u.answer = a
BY DEF WriteFields, SameWrite

LEMMA TakenByHost ==
  ASSUME Shape, NEW i \in DOMAIN queue, HostTakes(i)
  PROVE  /\ IsList(queue') /\ DOMAIN queue' = DOMAIN queue
         /\ \A j \in DOMAIN queue : j # i => queue'[j] = queue[j]
         /\ DOMAIN queue'[i] = WriteFields /\ SameWrite(queue[i], queue'[i])
         /\ \/ /\ FenceHolds(queue[i]) /\ doc' = Written(queue[i]) /\ rev' = rev + 1
               /\ queue'[i].answer = "accepted"
            \/ /\ UNCHANGED <<doc, rev>> /\ queue'[i].answer = "refused"
         /\ UNCHANGED pageVars
<1>. DEFINE u(a) == [queue[i] EXCEPT !.answer = a]
<1>1. \E a : /\ queue' = [queue EXCEPT ![i] = u(a)]
             /\ \/ /\ FenceHolds(queue[i]) /\ doc' = Written(queue[i]) /\ rev' = rev + 1
                   /\ a = "accepted"
                \/ UNCHANGED <<doc, rev>> /\ a = "refused"
  BY DEF HostTakes
<1>2. PICK a : /\ queue' = [queue EXCEPT ![i] = u(a)]
               /\ \/ /\ FenceHolds(queue[i]) /\ doc' = Written(queue[i]) /\ rev' = rev + 1
                     /\ a = "accepted"
                  \/ UNCHANGED <<doc, rev>> /\ a = "refused"
  BY <1>1
<1>3. DOMAIN u(a) = WriteFields /\ SameWrite(queue[i], u(a)) /\ u(a).answer = a
  <2>1. DOMAIN queue[i] = WriteFields
    BY DEF Shape, WriteShape
  <2> QED
    BY <2>1, Answered, Zenon
<1>. DEFINE v == u(a)
<1>4. queue' = [queue EXCEPT ![i] = v] /\ DOMAIN v = WriteFields /\ SameWrite(queue[i], v) /\ v.answer = a
  BY <1>2, <1>3
<1>. HIDE DEF u, v
<1>5. /\ IsList(queue') /\ DOMAIN queue' = DOMAIN queue
      /\ \A j \in DOMAIN queue : queue'[j] = IF j = i THEN v ELSE queue[j]
  BY <1>4, ListExcept DEF Shape
<1>6. UNCHANGED pageVars
  BY DEF HostTakes
<1> QED
  BY <1>2, <1>4, <1>5, <1>6

LEMMA ServedByHost ==
  ASSUME Shape, NEW i \in DOMAIN reads, HostServes(i)
  PROVE  /\ IsList(reads') /\ DOMAIN reads' = DOMAIN reads
         /\ \A j \in DOMAIN reads : j # i => reads'[j] = reads[j]
         /\ DOMAIN reads'[i] = {"kind", "answer"}
         /\ reads'[i].answer = [value |-> doc, revision |-> rev, offers |-> Offers(doc)]
         /\ UNCHANGED <<doc, rev, form, snapshot, draft, unsaved, raced, regressed, queue>>
<1>. DEFINE a == [value |-> doc, revision |-> rev, offers |-> Offers(doc)]
            r == [reads[i] EXCEPT !.answer = a]
<1>1. /\ reads' = [reads EXCEPT ![i] = r]
      /\ UNCHANGED <<doc, rev, form, snapshot, draft, unsaved, raced, regressed, queue>>
  BY DEF HostServes
<1>. HIDE DEF a
<1>2. DOMAIN r = {"kind", "answer"} /\ r.answer = a
  BY DEF Shape, ReadShape
<1>. HIDE DEF r
<1>3. /\ IsList(reads') /\ DOMAIN reads' = DOMAIN reads
      /\ \A j \in DOMAIN reads : reads'[j] = IF j = i THEN r ELSE reads[j]
  BY <1>1, ListExcept DEF Shape
<1> QED
  BY <1>1, <1>2, <1>3 DEF a
-----------------------------------------------------------------------------
(* The shape of the state *)

LEMMA HostAndFormShape ==
  ASSUME Shape, [CardNext]_cardVars
  PROVE  /\ DOMAIN doc' = Keys /\ rev' \in Nat
         /\ DOMAIN form' = {"ready", "revision"}
         /\ form'.ready \in BOOLEAN /\ form'.revision \in Nat
<1>. DEFINE Good == /\ DOMAIN doc' = Keys /\ rev' \in Nat
                    /\ DOMAIN form' = {"ready", "revision"}
                    /\ form'.ready \in BOOLEAN /\ form'.revision \in Nat
<1>1. CASE UNCHANGED <<doc, rev, form>>
  BY <1>1 DEF Shape
<1>2. CASE Clicks
  <2>1. UNCHANGED <<doc, rev, form>>
    BY <1>2, Clicked DEF Click
  <2> QED
    BY <1>1, <2>1
<1>3. ASSUME NEW i \in DOMAIN queue, HostTakes(i) PROVE Good
  <2>1. DOMAIN Written(queue[i]) = Keys
    BY DEF Written
  <2>2. UNCHANGED form /\ ((doc' = Written(queue[i]) /\ rev' = rev + 1) \/ UNCHANGED <<doc, rev>>)
    BY <1>3 DEF HostTakes, pageVars
  <2> QED
    BY <2>1, <2>2 DEF Shape
<1>4. ASSUME NEW i \in DOMAIN reads, HostServes(i) PROVE Good
  BY <1>1, <1>4 DEF HostServes
<1>5. CASE Others
  <2>1. ASSUME NEW k, NEW v, ForeignWrite(k, v) PROVE Good
    BY <2>1 DEF ForeignWrite, pageVars, Shape
  <2>2. ASSUME NEW i \in DOMAIN reads, ReadArrives(i) \/ ReadFails(i) \/ CredentialAnswers(i)
        PROVE  Good
    BY <1>1, <2>2 DEF ReadArrives, ReadFails, CredentialAnswers
  <2>3. CASE FormArrives
    BY <2>3 DEF FormArrives, Shape
  <2>4. CASE FormLeaves
    BY <2>4 DEF FormLeaves, Shape
  <2>5. ASSUME NEW k, NEW v, Edit(k, v) PROVE Good
    BY <1>1, <2>5 DEF Edit
  <2>6. ASSUME NEW c, Discard(c) \/ ResetCard(c) PROVE Good
    BY <1>1, <2>6 DEF Discard, ResetCard, Revise
  <2>7. CASE Lands \/ Refused \/ UNCHANGED cardVars
    BY <1>1, <2>7 DEF Lands, Refused, Landed, cardVars, pageVars
  <2> QED
    BY <1>5, <2>1, <2>2, <2>3, <2>4, <2>5, <2>6, <2>7 DEF Others
<1> QED
  BY <1>2, <1>3, <1>4, <1>5, FourKinds

LEMMA Adopted ==
  ASSUME NEW w, IsSnapshot(w.snapshot), NEW offers, Adopt(w, offers)
  PROVE  IsSnapshot(snapshot') /\ regressed' \in BOOLEAN
<1>1. DOMAIN Merged(w) = Keys
  BY Overlaid DEF Merged, IsSnapshot
<1> QED
  BY <1>1 DEF Adopt, IsSnapshot, SnapshotFields

LEMMA SnapshotShape ==
  ASSUME Shape, [CardNext]_cardVars PROVE IsSnapshot(snapshot') /\ regressed' \in BOOLEAN
<1>. DEFINE Good == IsSnapshot(snapshot') /\ regressed' \in BOOLEAN
<1>1. CASE UNCHANGED <<snapshot, regressed>>
  BY <1>1 DEF Shape
<1>2. CASE Clicks
  BY <1>1, <1>2, Clicked DEF Click
<1>3. ASSUME NEW i, HostTakes(i) \/ HostServes(i) PROVE Good
  BY <1>1, <1>3 DEF HostTakes, HostServes, pageVars
<1>4. CASE Others
  <2>1. ASSUME NEW k, NEW v, ForeignWrite(k, v) \/ Edit(k, v) PROVE Good
    BY <1>1, <2>1 DEF ForeignWrite, Edit, pageVars
  <2>2. ASSUME NEW i \in DOMAIN reads, ReadArrives(i) PROVE Good
    <3>1. IsSnapshot(reads[i].answer) /\ snapshot' = reads[i].answer
      BY <2>2 DEF ReadArrives, Shape, ReadShape
    <3>2. regressed' \in BOOLEAN
      BY <2>2 DEF ReadArrives
    <3> QED
      BY <3>1, <3>2
  <2>3. ASSUME NEW i \in DOMAIN reads, ReadFails(i) \/ CredentialAnswers(i) PROVE Good
    BY <1>1, <2>3 DEF ReadFails, CredentialAnswers
  <2>4. CASE FormArrives
    <3>1. DOMAIN Overlay(snapshot.value, Pick(Editable, doc)) = Keys
      BY Overlaid DEF Shape, IsSnapshot
    <3> QED
      BY <2>4, <3>1 DEF FormArrives, Shape, IsSnapshot, SnapshotFields
  <2>5. CASE FormLeaves \/ Refused \/ UNCHANGED cardVars
    BY <1>1, <2>5 DEF FormLeaves, Refused, cardVars, pageVars
  <2>6. ASSUME NEW c, Discard(c) \/ ResetCard(c) PROVE Good
    BY <1>1, <2>6 DEF Discard, ResetCard, Revise
  <2>7. CASE Lands
    <3>. DEFINE w == Head(queue)
    <3>1. queue # <<>>
      BY <2>7 DEF Lands
    <3>2. IsSnapshot(w.snapshot)
      BY <3>1, ListTail DEF Shape, WriteShape
    <3>3. \/ SaveLands(w) \/ ToggleLands(w) \/ ResetReviewLands(w) \/ RestoreLands(w)
          \/ ImportLands(w) \/ UndoLands(w) \/ ClearLands(w)
      BY <2>7 DEF Lands
    <3>. HIDE DEF w
    <3>4. CASE UndoLands(w) \/ ClearLands(w)
      BY <1>1, <3>4 DEF UndoLands, ClearLands
    <3>5. CASE \E offers : Adopt(w, offers)
      BY <3>2, <3>5, Adopted
    <3> QED
      BY <3>3, <3>4, <3>5 DEF SaveLands, ToggleLands, ResetReviewLands, RestoreLands, ImportLands
  <2> QED
    BY <1>4, <2>1, <2>2, <2>3, <2>4, <2>5, <2>6, <2>7 DEF Others
<1> QED
  BY <1>2, <1>3, <1>4, FourKinds

LEMMA ReadsShape ==
  ASSUME Shape, [CardNext]_cardVars
  PROVE  IsList(reads') /\ \A i \in DOMAIN reads' : ReadShape(reads'[i])
<1>1. Lists
  BY DEF Shape, Lists
<1>2. CASE OldReads(reads')
  BY <1>2 DEF OldReads, Shape, ReadShape
<1>3. CASE Clicks
  <2>1. reads' = reads
    BY <1>3, Clicked DEF Click
  <2> QED
    BY <1>1, <1>2, <2>1, ReadsSame DEF Lists
<1>4. ASSUME NEW i \in DOMAIN queue, HostTakes(i) PROVE OldReads(reads')
  BY <1>1, <1>4, ReadsSame DEF HostTakes, pageVars, Lists
<1>5. ASSUME NEW i \in DOMAIN reads, HostServes(i)
      PROVE  IsList(reads') /\ \A j \in DOMAIN reads' : ReadShape(reads'[j])
  <2>. DEFINE a == [value |-> doc, revision |-> rev, offers |-> Offers(doc)]
  <2>1. IsSnapshot(a) /\ a.revision \in Nat
    BY DEF Shape, IsSnapshot, SnapshotFields
  <2>2. /\ IsList(reads') /\ DOMAIN reads' = DOMAIN reads
        /\ \A j \in DOMAIN reads : j # i => reads'[j] = reads[j]
        /\ DOMAIN reads'[i] = {"kind", "answer"} /\ reads'[i].answer = a
    BY <1>5, ServedByHost
  <2>. HIDE DEF a
  <2>3. ReadShape(reads'[i])
    BY <2>1, <2>2 DEF ReadShape
  <2> QED
    BY <2>2, <2>3 DEF Shape
<1> QED
  BY <1>1, <1>2, <1>3, <1>4, <1>5, OthersKeep, FourKinds

LEMMA WritesShape ==
  ASSUME Shape, [CardNext]_cardVars
  PROVE  IsList(queue') /\ \A i \in DOMAIN queue' : WriteShape(queue'[i])
<1>1. Lists
  BY DEF Shape, Lists
<1>2. CASE OldWrites(queue')
  BY <1>2 DEF OldWrites, Shape
<1>3. CASE Clicks
  <2>1. PICK w : Rendered /\ Click(w)
    BY <1>3, Clicked
  <2>2. WriteShape(w)
    BY <2>1 DEF Click, WriteShape, Shape, Rendered
  <2>. DEFINE n == Len(queue)
  <2>3. /\ IsList(queue) /\ n \in Nat /\ DOMAIN queue = 1..n
        /\ IsList(queue') /\ DOMAIN queue' = 1..(n + 1)
        /\ (\A i \in DOMAIN queue : queue'[i] = queue[i]) /\ queue'[n + 1] = w
    BY <2>1, ListDomain, ListAppend DEF Shape, Click
  <2>. HIDE DEF n
  <2>4. \A i \in DOMAIN queue' : i = n + 1 \/ i \in DOMAIN queue
    BY <2>3
  <2> QED
    BY <2>2, <2>3, <2>4 DEF Shape
<1>4. ASSUME NEW i \in DOMAIN queue, HostTakes(i)
      PROVE  IsList(queue') /\ \A j \in DOMAIN queue' : WriteShape(queue'[j])
  <2>1. WriteShape(queue'[i])
    BY <1>4, TakenByHost DEF Shape, WriteShape, SameWrite, RestoresDraft
  <2> QED
    BY <1>4, <2>1, TakenByHost DEF Shape
<1>5. ASSUME NEW i \in DOMAIN reads, HostServes(i) PROVE OldWrites(queue')
  BY <1>1, <1>5, WritesSame DEF HostServes, Lists
<1> QED
  BY <1>1, <1>2, <1>3, <1>4, <1>5, OthersKeep, FourKinds

LEMMA EditsStep ==
  ASSUME Shape, EditsInv, [CardNext]_cardVars PROVE DraftShape' /\ EditsInv'
<1>0. DraftShape /\ EditsSurvive /\ Lists
  BY DEF Shape, DraftShape, EditsInv, Lists
<1>1. CASE Clicks
  <2>1. PICK w : Click(w)
    BY <1>1, Clicked
  <2>. DEFINE n == Len(queue)
  <2>2. /\ n \in Nat /\ DOMAIN queue = 1..n /\ DOMAIN queue' = 1..(n + 1)
        /\ (\A i \in DOMAIN queue : queue'[i] = queue[i]) /\ queue'[n + 1].draft = draft
    BY <2>1, ListDomain, ListAppend DEF Shape, Click
  <2>. HIDE DEF n
  <2>3. \A i \in DOMAIN queue' : i = n + 1 \/ i \in DOMAIN queue
    BY <2>2
  <2>4. DraftHolds
    BY <1>0, <1>1, ClicksHoldTheDraft
  <2> QED
    BY <2>2, <2>3, <2>4, DraftsKept DEF DraftHolds
<1>2. ASSUME NEW i \in DOMAIN queue, HostTakes(i) PROVE DraftShape' /\ EditsInv'
  <2>1. DraftHolds
    BY <1>0, <1>2, DraftSame DEF HostTakes, pageVars
  <2>2. \A j \in DOMAIN queue' : queue'[j].op = queue[j].op /\ queue'[j].draft = queue[j].draft
    BY <1>2, TakenByHost DEF SameWrite
  <2> QED
    BY <1>2, <2>1, <2>2, TakenByHost, DraftsKept DEF DraftHolds
<1>3. ASSUME NEW i \in DOMAIN reads, HostServes(i) PROVE DraftShape' /\ EditsInv'
  <2>1. DraftHolds /\ queue' = queue
    BY <1>0, <1>3, DraftSame DEF HostServes
  <2> QED
    BY <2>1, DraftsKept DEF DraftHolds
<1>4. CASE Others
  <2>1. CASE \E k \in Editable, v \in Typed : Edit(k, v)
    BY <2>1, EditHolds
  <2>2. CASE ~\E k \in Editable, v \in Typed : Edit(k, v)
    <3>1. DraftHolds
      BY <1>4, <2>2, OthersHoldTheDraft
    <3>2. OldWrites(queue')
      BY <1>0, <1>4, OthersKeep
    <3> QED
      BY <3>1, <3>2, DraftsKept DEF DraftHolds, OldWrites
  <2> QED
    BY <2>1, <2>2
<1> QED
  BY <1>1, <1>2, <1>3, <1>4, FourKinds

LEMMA ShapeStep ==
  ASSUME Shape, EditsInv, [CardNext]_cardVars PROVE Shape'
BY HostAndFormShape, SnapshotShape, ReadsShape, WritesShape, EditsStep DEF Shape, DraftShape
-----------------------------------------------------------------------------
(* What the section, the answers and the writes have to do with each other *)

HostStill == UNCHANGED <<doc, rev>>

LEMMA ReadsTrue ==
  ASSUME SavesInv, HostStill, OldReads(reads') PROVE \A i \in DOMAIN reads' : ReadTrue(i)'
<1>1. ASSUME NEW i \in DOMAIN reads', reads'[i].answer # NoAnswer
      PROVE  /\ reads'[i].answer.revision <= rev'
             /\ reads'[i].answer.revision = rev' => reads'[i].answer.value = doc'
  <2>1. PICK l \in DOMAIN reads : reads'[i] = reads[l]
    BY <1>1 DEF OldReads
  <2> QED
    BY <1>1, <2>1 DEF SavesInv, ReadTrue, HostStill
<1> QED
  BY <1>1 DEF ReadTrue

LEMMA WritesTrue ==
  ASSUME SavesInv, HostStill, OldWrites(queue')
  PROVE  \A i \in DOMAIN queue' : Intent(queue'[i]) /\ WriteTrue(i)'
<1>1. ASSUME NEW i \in DOMAIN queue' PROVE Intent(queue'[i]) /\ WriteTrue(i)'
  <2>1. PICK l \in DOMAIN queue : queue'[i] = queue[l]
    BY DEF OldWrites
  <2>2. Intent(queue[l]) /\ WriteTrue(l)
    BY DEF SavesInv
  <2> QED
    BY <2>1, <2>2 DEF WriteTrue, HostStill, Agrees
<1> QED
  BY <1>1

LEMMA ClickTrue ==
  ASSUME Shape, SavesInv, Clicks PROVE SavesInv'
<1>1. PICK w : Rendered /\ Click(w) /\ Intent(w)
  BY Clicked
<1>2. HostStill /\ UNCHANGED <<form, snapshot, reads, regressed>>
  BY <1>1 DEF Click, HostStill
<1>3. PICK n \in Nat : /\ DOMAIN queue = 1..n /\ DOMAIN queue' = 1..(n + 1)
                      /\ (\A i \in DOMAIN queue : queue'[i] = queue[i]) /\ queue'[n + 1] = w
  BY <1>1, ListDomain, ListAppend DEF Shape, Click
<1>4. \A i \in DOMAIN queue' : i = n + 1 \/ i \in DOMAIN queue
  BY <1>3
<1>5. PageTrue' /\ \A i \in DOMAIN reads' : ReadTrue(i)'
  BY <1>2, ReadsTrue, ReadsSame DEF SavesInv, PageTrue, Agrees, HostStill, Shape
<1>6. WriteTrue(n + 1)'
  <2>1. /\ w.answer = "queued" /\ w.expected = form.revision /\ w.snapshot = snapshot
        /\ w.behind = regressed /\ form.ready /\ regressed \in BOOLEAN
    BY <1>1 DEF Click, Rendered, Shape
  <2>2. PageTrue
    BY DEF SavesInv
  <2> QED
    BY <1>2, <1>3, <2>1, <2>2 DEF WriteTrue, PageTrue, Agrees, HostStill
<1>7. ASSUME NEW i \in DOMAIN queue PROVE Intent(queue'[i]) /\ WriteTrue(i)'
  <2>1. Intent(queue[i]) /\ WriteTrue(i)
    BY DEF SavesInv
  <2> QED
    BY <1>2, <1>3, <2>1 DEF WriteTrue, HostStill, Agrees
<1>8. Intent(queue'[n + 1])
  BY <1>1, <1>3
<1>9. \A i \in DOMAIN queue' : Intent(queue'[i]) /\ WriteTrue(i)'
  BY <1>4, <1>6, <1>7, <1>8
<1> QED
  BY <1>5, <1>9 DEF SavesInv

LEMMA ServeTrue ==
  ASSUME Shape, SavesInv, NEW i \in DOMAIN reads, HostServes(i) PROVE SavesInv'
<1>1. /\ DOMAIN reads' = DOMAIN reads /\ \A j \in DOMAIN reads : j # i => reads'[j] = reads[j]
      /\ reads'[i].answer = [value |-> doc, revision |-> rev, offers |-> Offers(doc)]
      /\ UNCHANGED <<doc, rev, form, snapshot, regressed, queue>>
  BY ServedByHost
<1>2. ReadTrue(i)'
  BY <1>1 DEF ReadTrue, Shape
<1>3. ASSUME NEW j \in DOMAIN reads, j # i PROVE ReadTrue(j)'
  BY <1>1, <1>3 DEF ReadTrue, SavesInv
<1>4. PageTrue'
  BY <1>1 DEF SavesInv, PageTrue, Agrees
<1>5. \A j \in DOMAIN queue' : Intent(queue'[j]) /\ WriteTrue(j)'
  BY <1>1, WritesTrue, WritesSame DEF HostStill, Shape
<1> QED
  BY <1>1, <1>2, <1>3, <1>4, <1>5 DEF SavesInv

\* Another writer's change leaves nothing of the page up to date, and the
\* fences know.
LEMMA ForeignTrue ==
  ASSUME Shape, SavesInv, NEW k, NEW v, ForeignWrite(k, v) PROVE SavesInv'
<1>1. rev \in Nat /\ rev' = rev + 1 /\ UNCHANGED <<form, snapshot, regressed, reads, queue>>
  BY DEF ForeignWrite, pageVars, Shape
<1>2. PageTrue'
  BY <1>1 DEF SavesInv, PageTrue, Shape
<1>3. ASSUME NEW i \in DOMAIN reads PROVE ReadTrue(i)'
  BY <1>1, <1>3 DEF SavesInv, ReadTrue, Shape, ReadShape
<1>4. ASSUME NEW i \in DOMAIN queue PROVE Intent(queue'[i]) /\ WriteTrue(i)'
  <2>1. Intent(queue[i]) /\ WriteTrue(i) /\ queue[i].expected \in Nat
    BY DEF SavesInv, Shape, WriteShape
  <2> QED
    BY <1>1, <2>1 DEF WriteTrue
<1> QED
  BY <1>1, <1>2, <1>3, <1>4 DEF SavesInv

\* What a taken write makes of the section is what its page will show, when
\* the page was up to date and nothing went back to its base.
LEMMA WrittenAgrees ==
  ASSUME NEW w, IsSnapshot(w.snapshot), Agrees(w.snapshot.value), UnsetOps(w) = {},
         doc' = Written(w), NEW k \in Editable
  PROVE  Merged(w)[k] = doc'[k]
<1>1. k \in Keys
  BY DEF Keys
<1>2. doc'[k] = IF k \in SetOps(w) THEN w.value[k] ELSE doc[k]
  BY <1>1 DEF Written
<1>3. Merged(w)[k] = IF k \in DOMAIN w.value THEN w.value[k] ELSE w.snapshot.value[k]
  BY <1>1, Overlaid DEF Merged, IsSnapshot
<1>4. k \in SetOps(w) <=> k \in DOMAIN w.value
  BY DEF SetOps
<1> QED
  BY <1>2, <1>3, <1>4 DEF Agrees

LEMMA TakeTrue ==
  ASSUME Shape, SavesInv, NEW i \in DOMAIN queue, HostTakes(i) PROVE SavesInv'
<1>. DEFINE w == queue[i]
            u == queue'[i]
<1>1. /\ DOMAIN queue' = DOMAIN queue /\ (\A j \in DOMAIN queue : j # i => queue'[j] = queue[j])
      /\ SameWrite(w, u)
      /\ \/ FenceHolds(w) /\ doc' = Written(w) /\ rev' = rev + 1 /\ u.answer = "accepted"
         \/ UNCHANGED <<doc, rev>> /\ u.answer = "refused"
  BY TakenByHost
<1>2. UNCHANGED <<form, snapshot, regressed, reads>> /\ w.answer = "queued"
  BY DEF HostTakes, pageVars
<1>3. /\ Intent(w) /\ WriteTrue(i) /\ IsSnapshot(w.snapshot)
      /\ w.expected \in Nat /\ rev \in Nat
  BY DEF SavesInv, Shape, WriteShape
<1>4. Intent(u)
  BY <1>1, <1>3 DEF SameWrite, Intent, SetOps, UnsetOps
<1>5. CASE UNCHANGED <<doc, rev>> /\ u.answer = "refused"
  <2>1. PageTrue' /\ \A j \in DOMAIN reads' : ReadTrue(j)'
    BY <1>2, <1>5 DEF SavesInv, PageTrue, Agrees, ReadTrue
  <2>2. WriteTrue(i)'
    BY <1>1, <1>3, <1>5 DEF WriteTrue, SameWrite
  <2>3. ASSUME NEW j \in DOMAIN queue, j # i PROVE Intent(queue'[j]) /\ WriteTrue(j)'
    <3>1. Intent(queue[j]) /\ WriteTrue(j)
      BY DEF SavesInv
    <3> QED
      BY <1>1, <1>5, <2>3, <3>1 DEF WriteTrue, Agrees
  <2> QED
    BY <1>1, <1>4, <2>1, <2>2, <2>3 DEF SavesInv
<1>6. CASE FenceHolds(w) /\ doc' = Written(w) /\ rev' = rev + 1 /\ u.answer = "accepted"
  <2>1. PageTrue'
    BY <1>2, <1>3, <1>6 DEF SavesInv, PageTrue, Shape
  <2>2. ASSUME NEW j \in DOMAIN reads PROVE ReadTrue(j)'
    BY <1>2, <1>3, <1>6, <2>2 DEF SavesInv, ReadTrue, Shape, ReadShape
  <2>3. w.expected = rev
    BY <1>6 DEF FenceHolds
  <2>4. ~w.behind /\ UnsetOps(w) = {} => \A k \in Editable : Merged(w)[k] = doc'[k]
    BY <1>2, <1>3, <1>6, <2>3, WrittenAgrees DEF WriteTrue
  <2>5. Merged(u) = Merged(w) /\ UnsetOps(u) = UnsetOps(w) /\ u.behind = w.behind /\ u.expected = rev
    BY <1>1, <2>3 DEF SameWrite, Merged, UnsetOps
  <2>6. WriteTrue(i)'
    BY <1>3, <1>6, <2>4, <2>5 DEF WriteTrue, Agrees
  <2>7. ASSUME NEW j \in DOMAIN queue, j # i PROVE Intent(queue'[j]) /\ WriteTrue(j)'
    <3>1. Intent(queue[j]) /\ WriteTrue(j) /\ queue[j].expected \in Nat
      BY DEF SavesInv, Shape, WriteShape
    <3> QED
      BY <1>1, <1>3, <1>6, <2>7, <3>1 DEF WriteTrue
  <2> QED
    BY <1>1, <1>2, <1>4, <2>1, <2>2, <2>6, <2>7 DEF SavesInv
<1> QED
  BY <1>1, <1>5, <1>6

\* A handler that adopts its write knows when the form has overtaken it.
LEMMA AdoptTrue ==
  ASSUME Shape, SavesInv, NEW i \in DOMAIN queue, queue[i].answer = "accepted",
         NEW offers, Adopt(queue[i], offers), UNCHANGED <<doc, rev, form>>
  PROVE  PageTrue'
<1>. DEFINE w == queue[i]
<1>1. /\ w.expected \in Nat /\ w.behind \in BOOLEAN /\ DOMAIN w.snapshot = SnapshotFields
      /\ WriteTrue(i) /\ w.answer = "accepted"
      /\ rev \in Nat /\ form.revision \in Nat /\ form.revision <= rev
  BY DEF Shape, WriteShape, IsSnapshot, SavesInv, PageTrue
<1>2. /\ snapshot'.value = Merged(w)
      /\ regressed' <=> \/ w.behind \/ form.revision > w.expected + 1
                        \/ form.revision > w.expected /\ UnsetOps(w) # {}
  BY <1>1 DEF Adopt, SnapshotFields
<1>3. ASSUME form.revision = rev, ~regressed' PROVE Agrees(snapshot'.value)
  <2>1. ~w.behind /\ ~(rev > w.expected + 1) /\ ~(rev > w.expected /\ UnsetOps(w) # {})
    BY <1>2, <1>3
  <2>2. w.expected < rev
    BY <1>1 DEF WriteTrue
  <2>3. rev = w.expected + 1 /\ UnsetOps(w) = {}
    BY <1>1, <2>1, <2>2
  <2> QED
    BY <1>1, <1>2, <2>1, <2>3 DEF WriteTrue
<1> QED
  BY <1>1, <1>3 DEF PageTrue, Agrees

LEMMA OthersTrue ==
  ASSUME Shape, SavesInv, Others, HostStill PROVE PageTrue'
<1>1. CASE UNCHANGED <<form, snapshot, regressed>>
  BY <1>1 DEF SavesInv, PageTrue, Agrees, HostStill
<1>2. ASSUME NEW i \in DOMAIN reads, ReadArrives(i) PROVE PageTrue'
  <2>1. /\ reads[i].answer # NoAnswer /\ snapshot' = reads[i].answer
        /\ regressed' <=> form.ready /\ reads[i].answer.revision < form.revision
        /\ UNCHANGED form
    BY <1>2 DEF ReadArrives
  <2>2. /\ reads[i].answer.revision \in Nat /\ form.revision \in Nat /\ rev \in Nat
        /\ form.revision <= rev /\ ReadTrue(i)
    BY <2>1 DEF Shape, ReadShape, SavesInv, PageTrue
  <2> QED
    BY <2>1, <2>2 DEF PageTrue, Agrees, ReadTrue, HostStill
<1>3. CASE FormArrives
  <2>1. snapshot'.value = Overlay(snapshot.value, Pick(Editable, doc)) /\ UNCHANGED doc
    BY <1>3 DEF FormArrives, Shape, IsSnapshot, SnapshotFields
  <2>2. Agrees(snapshot'.value)
    BY <2>1 DEF Overlay, Pick, Restrict, Agrees, Shape, IsSnapshot, Keys
  <2> QED
    BY <1>3, <2>1, <2>2 DEF FormArrives, PageTrue, Agrees, Shape
<1>4. CASE FormLeaves
  BY <1>4 DEF FormLeaves, SavesInv, PageTrue, Shape
<1>5. CASE Lands
  <2>1. queue # <<>> /\ Head(queue).answer = "accepted"
    BY <1>5 DEF Lands
  <2>2. 1 \in DOMAIN queue /\ Head(queue) = queue[1]
    BY <2>1, ListTail DEF Shape
  <2>3. \/ SaveLands(queue[1]) \/ ToggleLands(queue[1]) \/ ResetReviewLands(queue[1])
        \/ RestoreLands(queue[1]) \/ ImportLands(queue[1]) \/ UndoLands(queue[1])
        \/ ClearLands(queue[1])
    BY <1>5, <2>2 DEF Lands
  <2>4. UNCHANGED <<doc, rev, form>>
    BY <1>5 DEF Lands, Landed
  <2>5. CASE UndoLands(queue[1]) \/ ClearLands(queue[1])
    BY <1>1, <2>4, <2>5 DEF UndoLands, ClearLands
  <2>6. CASE \E offers : Adopt(queue[1], offers)
    BY <2>1, <2>2, <2>4, <2>6, AdoptTrue
  <2> QED
    BY <2>3, <2>5, <2>6 DEF SaveLands, ToggleLands, ResetReviewLands, RestoreLands, ImportLands
<1>6. ASSUME NEW k, NEW v, ForeignWrite(k, v) \/ Edit(k, v) PROVE PageTrue'
  BY <1>1, <1>6 DEF ForeignWrite, Edit, pageVars
<1>7. ASSUME NEW i \in DOMAIN reads, ReadFails(i) \/ CredentialAnswers(i) PROVE PageTrue'
  BY <1>1, <1>7 DEF ReadFails, CredentialAnswers
<1>8. ASSUME NEW c, Discard(c) \/ ResetCard(c) PROVE PageTrue'
  BY <1>1, <1>8 DEF Discard, ResetCard, Revise
<1>9. CASE Refused \/ UNCHANGED cardVars
  BY <1>1, <1>9 DEF Refused, Landed, cardVars, pageVars
<1> QED
  BY <1>2, <1>3, <1>4, <1>5, <1>6, <1>7, <1>8, <1>9 DEF Others

LEMMA OnlyForeign ==
  ASSUME Others, ~\E k \in Keys, v \in Foreign : ForeignWrite(k, v) PROVE HostStill
BY DEF Others, HostStill, ReadArrives, ReadFails, CredentialAnswers, FormArrives, FormLeaves, Edit,
       Discard, ResetCard, Revise, Lands, Refused, Landed, cardVars

LEMMA SavesStep ==
  ASSUME Shape, SavesInv, [CardNext]_cardVars PROVE SavesInv'
<1>1. CASE Others /\ HostStill
  <2>1. OldReads(reads') /\ OldWrites(queue')
    BY <1>1, OthersKeep DEF Shape, Lists
  <2> QED
    BY <1>1, <2>1, OthersTrue, ReadsTrue, WritesTrue DEF SavesInv
<1> QED
  BY <1>1, OnlyForeign, ForeignTrue, ClickTrue, ServeTrue, TakeTrue, FourKinds
-----------------------------------------------------------------------------
(* The theorems *)

LEMMA EmptyList == IsList(<<>>)
<1>1. <<>> \in Seq({})
  OBVIOUS
<1> QED
  BY <1>1, ListOf

LEMMA ListOfOne ==
  ASSUME NEW e PROVE IsList(<<e>>) /\ DOMAIN <<e>> = {1} /\ <<e>>[1] = e
<1>1. <<e>> \in Seq({e})
  OBVIOUS
<1>2. DOMAIN <<e>> = 1..1 /\ <<e>>[1] = e
  OBVIOUS
<1>3. 1..1 = {1}
  <2>1. \A i \in Int : (1 <= i /\ i <= 1) => i = 1
    OBVIOUS
  <2> QED
    BY <2>1
<1> QED
  BY <1>1, <1>2, <1>3, ListOf

LEMMA InitHolds ==
  ASSUME CardInit PROVE Shape /\ EditsInv /\ SavesInv
<1>. DEFINE r == [kind |-> "first", answer |-> NoAnswer]
<1>1. DOMAIN doc = Keys
  BY SettingsCardAssumption DEF CardInit
<1>2. queue = <<>> /\ DOMAIN queue = {} /\ IsList(queue)
  BY EmptyList DEF CardInit
<1>3. reads = <<r>>
  BY DEF CardInit
<1>4. DOMAIN r = {"kind", "answer"} /\ r.answer = NoAnswer
  OBVIOUS
<1>. HIDE DEF r
<1>5. IsList(reads) /\ DOMAIN reads = {1} /\ reads[1] = r
  BY <1>3, ListOfOne
<1>6. DOMAIN unsaved = {} /\ draft = NoDraft
  BY DEF CardInit, NoOffers, Restrict
<1>7. /\ rev = 0 /\ DOMAIN form = {"ready", "revision"} /\ form.ready = FALSE
      /\ form.revision = 0 /\ IsSnapshot(snapshot) /\ regressed = FALSE
  BY <1>1 DEF CardInit, IsSnapshot, SnapshotFields
<1>8. Shape
  <2>1. \A i \in DOMAIN reads : ReadShape(reads[i])
    BY <1>4, <1>5 DEF ReadShape
  <2>2. \A i \in DOMAIN queue : WriteShape(queue[i])
    BY <1>2
  <2>3. \A k \in DOMAIN unsaved : k \in Keys /\ k \notin TopKeys
    BY <1>6
  <2>4. rev \in Nat /\ form.revision \in Nat
    BY <1>7
  <2>5. form.ready \in BOOLEAN /\ regressed \in BOOLEAN
    BY <1>7, Zenon
  <2>6. DOMAIN doc = Keys /\ DOMAIN form = {"ready", "revision"} /\ IsSnapshot(snapshot)
    BY <1>1, <1>7
  <2>7. IsList(reads) /\ IsList(queue) /\ draft = NoDraft /\ DOMAIN unsaved = {}
    BY <1>2, <1>5, <1>6
  <2> QED
    BY <2>1, <2>2, <2>3, <2>4, <2>5, <2>6, <2>7, Zenon DEF Shape
<1>9. EditsInv
  BY <1>2, <1>6 DEF EditsInv, EditsSurvive
<1>10. SavesInv
  BY <1>2, <1>4, <1>5, <1>7 DEF SavesInv, PageTrue, ReadTrue
<1> QED
  BY <1>8, <1>9, <1>10

CardInv == Shape /\ EditsInv /\ SavesInv

LEMMA InvHolds == CardSpec => []CardInv
<1>1. CardInit => CardInv
  BY InitHolds DEF CardInv
<1>2. CardInv /\ [CardNext]_cardVars => CardInv'
  BY ShapeStep, EditsStep, SavesStep DEF CardInv
<1> QED
  BY <1>1, <1>2, PTL DEF CardSpec

\* What the user has entered in a card stays in its control until the card is
\* saved, discarded or reset: no landing, no refusal that puts a draft back,
\* no route answer and no other card takes it away.
THEOREM EditsAlwaysSurvive == CardSpec => []EditsSurvive
<1>1. CardInv => EditsSurvive
  BY DEF CardInv, EditsInv
<1> QED
  BY <1>1, InvHolds, PTL

\* Only the host's own step accepts a write, and it is the step that took it.
LEMMA AcceptedIsTaken ==
  ASSUME Shape, [CardNext]_cardVars, NEW w, Accepted(w)
  PROVE  \E i \in DOMAIN queue : queue[i] = w /\ HostTakes(i) /\ FenceHolds(w) /\ doc' = Written(w)
<1>1. PICK j \in DOMAIN queue : /\ queue[j] = w /\ w.answer = "queued" /\ rev' # rev
                                /\ Len(queue') = Len(queue) /\ queue'[j].answer = "accepted"
  BY DEF Accepted
<1>2. ~Clicks
  <2>1. SUFFICES ASSUME Clicks PROVE FALSE
    OBVIOUS
  <2>2. rev' = rev
    BY <2>1, Clicked DEF Click
  <2> QED
    BY <1>1, <2>2
<1>3. ~Others
  <2>1. SUFFICES ASSUME Others PROVE FALSE
    OBVIOUS
  <2>2. PICK k \in Keys, v \in Foreign : ForeignWrite(k, v)
    BY <1>1, <2>1, OnlyForeign DEF HostStill
  <2>3. queue' = queue
    BY <2>2 DEF ForeignWrite
  <2> QED
    BY <1>1, <2>3
<1>4. ASSUME NEW i \in DOMAIN reads, HostServes(i) PROVE FALSE
  BY <1>1, <1>4 DEF HostServes
<1>5. PICK i \in DOMAIN queue : HostTakes(i)
  BY <1>2, <1>3, <1>4, FourKinds
<1>6. /\ \A l \in DOMAIN queue : l # i => queue'[l] = queue[l]
      /\ \/ FenceHolds(queue[i]) /\ doc' = Written(queue[i])
         \/ UNCHANGED <<doc, rev>>
  BY <1>5, TakenByHost
<1>7. j = i
  BY <1>1, <1>6
<1> QED
  BY <1>1, <1>5, <1>6, <1>7

LEMMA TakenIsOwn ==
  ASSUME CardInv, NEW i \in DOMAIN queue, HostTakes(i), FenceHolds(queue[i]), doc' = Written(queue[i]),
         ~queue[i].behind, NEW k \in Keys
  PROVE  OwnChange(queue[i], k)
<1>. DEFINE w == queue[i]
<1>1. w.answer = "queued" /\ w.expected = rev
  BY DEF HostTakes, FenceHolds
<1>2. Intent(w) /\ Agrees(w.snapshot.value)
  BY <1>1 DEF CardInv, SavesInv, WriteTrue
<1>3. doc'[k] = IF k \in SetOps(w) THEN w.value[k] ELSE IF k \in UnsetOps(w) THEN Base ELSE doc[k]
  BY DEF Written
<1>. HIDE DEF w
<1>4. CASE k \in SetOps(w)
  <2>1. k \in Editable /\ w.snapshot.value[k] = doc[k]
    BY <1>2, <1>4 DEF SetOps, Agrees
  <2>2. (k \in DOMAIN w.meant /\ w.value[k] = w.meant[k]) \/ w.value[k] = Normal(doc[k])
    BY <1>2, <1>4, <2>1 DEF Intent
  <2>3. OwnChange(w, k)
    BY <1>3, <1>4, <2>1, <2>2 DEF OwnChange, Normal
  <2> QED
    BY <2>3 DEF w
<1>5. CASE k \notin SetOps(w)
  <2>1. OwnChange(w, k)
    BY <1>2, <1>3, <1>5 DEF OwnChange, Intent
  <2> QED
    BY <2>1 DEF w
<1> QED
  BY <1>4, <1>5

\* A save the host accepts makes only changes of its own, whatever was written
\* and read between its click and its turn, unless it was clicked on a
\* snapshot that was behind the form.
THEOREM SavesAlwaysOwn == CardSpec => SavesAreOwn
<1>1. ASSUME CardInv, [CardNext]_cardVars
      PROVE  \A w \in ToSet(queue) : Accepted(w) => w.behind \/ \A k \in Keys : OwnChange(w, k)
  <2>1. ASSUME NEW w, Accepted(w), ~w.behind, NEW k \in Keys PROVE OwnChange(w, k)
    <3>1. PICK i \in DOMAIN queue : /\ queue[i] = w /\ HostTakes(i)
                                    /\ FenceHolds(w) /\ doc' = Written(w)
      BY <1>1, <2>1, AcceptedIsTaken DEF CardInv
    <3>2. OwnChange(queue[i], k)
      BY <1>1, <2>1, <3>1, TakenIsOwn
    <3> QED
      BY <3>1, <3>2
  <2> QED
    BY <2>1
<1> QED
  BY <1>1, InvHolds, PTL DEF CardSpec, SavesAreOwn
=============================================================================

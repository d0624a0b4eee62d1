------------------------------- MODULE Browser --------------------------------
\* One browser tab and the host it watches, for the asks of one session: the
\* poller armed for the ask whose panel is up, the watcher of the session the
\* reader is looking at, the answer that closes a panel the host has settled
\* (src/src/client/approvals/shared.ts, remote.ts, session-watch.ts; the status
\* and reveal routes of src/src/auto/route-installers.ts).
\*
\* Two requests are under way independently, one per source; each carries what
\* the host held when it answered, however late it arrives. The client answers a
\* panel to close it once the host has settled the ask; a countdown the host no
\* longer reports counts as settled, though a reset of all sessions may have
\* dropped it undecided.
\*
\* Bound: MaxFaults failed requests, link drops, lost answers, session changes and
\* resets in a behaviour, in any mix.
EXTENDS ApprovalStore, Sequences, FiniteSets

CONSTANTS StatusLess,   \* asks the host never counts down: manual, breaker, human only
          MaxFaults

\* What the host returned for an ask, and who decided.
Decisions == [action : Outcomes, source : Sources]

ASSUME AsksAssumption ==
    /\ IsFiniteSet(Asks) /\ StatusLess \subseteq Asks
    /\ MaxFaults \in Nat
    /\ Nothing \notin Outcomes \cup Statuses \cup Records \cup Decisions

VARIABLES
    \* the host
    status,       \* reviewStates
    panels,       \* the panels that are up, oldest first
    opened,       \* asks that reached askHuman
    announced,    \* ask -> the action its countdown ends with
    decided,      \* ask -> what the host returned, and who decided
    \* the tab
    linkDown,
    active,       \* asks with a poller
    resolvedKeys, \* asks whose poller detached, while their panel is up
    wire,         \* ask -> its request: none, sent, or the answer under way
    hold,         \* asks whose poller backs off
    meta,         \* ask -> the action of the countdown its poller saw
    grace,        \* asks whose poller waits for a late settlement
    answered,     \* answeredApprovals
    answering,    \* ask -> the answer on its way to the panel
    viewing,      \* the reader looks at the session
    watchWire,    \* the watcher's request
    live,         \* asks the watcher mirrored
    \* history
    dropped,      \* asks whose countdown a reset dropped
    over,         \* asks whose settlement has left the display
    byGrace,      \* asks closed by the grace timer
    lost,         \* asks whose answer did not reach the panel
    left          \* faults that may still happen

hostVars == <<status, panels, opened, announced, decided, dropped>>
pollVars == <<active, resolvedKeys, wire, hold, meta, grace>>
answerVars == <<answered, answering, byGrace, lost>>
watchVars == <<viewing, watchWire, live>>
vars == <<storeVars, hostVars, linkDown, pollVars, answerVars, watchVars, over, left>>

\* A request: idle, sent, or answered with what the host held.
Idle == [at |-> "none", got |-> Nothing]
Sent == [at |-> "sent", got |-> Nothing]
Answer(got) == [at |-> "answered", got |-> got]

Fault == left > 0 /\ left' = left - 1
Visible == IF panels = <<>> THEN {} ELSE {Head(panels)}
Up(c) == \E i \in DOMAIN panels : panels[i] = c
Without(c) == SelectSeq(panels, LAMBDA x : x # c)
\* Settled records that this step takes off the display.
Watched == over' = over \cup {c \in Asks : IsFollow(records, c) /\ ~Shown(records', c)}

--------------------------------------------------------------------------------
\* The host: an ask starts its countdown, its panel follows after a delay or when
\* the reader asks for it, and it is decided once.
HostAsks(c) ==
    /\ c \notin opened /\ opened' = opened \cup {c}
    /\ IF c \in StatusLess THEN UNCHANGED <<status, announced>>
       ELSE \E action \in Outcomes :
              /\ announced' = [announced EXCEPT ![c] = action]
              /\ status' = [status EXCEPT ![c] = Status("countdown", action, "none")]
    /\ UNCHANGED <<panels, decided, dropped, storeVars, linkDown, pollVars, answerVars, watchVars, over, left>>

PanelShows(c) ==
    /\ c \in opened /\ decided[c] = Nothing /\ ~Up(c)
    /\ panels' = Append(panels, c)
    /\ UNCHANGED <<status, opened, announced, decided, dropped, storeVars, linkDown, pollVars, answerVars, watchVars, over, left>>

Decide(c, action, source) ==
    /\ decided' = [decided EXCEPT ![c] = [action |-> action, source |-> source]]
    /\ status' = IF c \in StatusLess THEN status
                 ELSE [status EXCEPT ![c] = Status("follow", action, source)]

\* The timer settles as announced, a reviewer that takes over either way but only
\* while the countdown is listed; the panel stays up until the tab answers it.
HostSettles(c) ==
    /\ c \in opened \ StatusLess /\ decided[c] = Nothing
    /\ \/ Decide(c, announced[c], "timeout")
       \/ status[c] # Nothing /\ \E action \in Outcomes : Decide(c, action, "llm")
    /\ UNCHANGED <<panels, opened, announced, dropped, storeVars, linkDown, pollVars, answerVars, watchVars, over, left>>

\* A human answers the panel, or the ask is cancelled: the panel goes.
HumanAnswers(c) ==
    /\ Up(c) /\ panels' = Without(c)
    /\ IF decided[c] = Nothing THEN \E action \in Outcomes : Decide(c, action, "human")
       ELSE UNCHANGED <<decided, status>>
    /\ UNCHANGED <<opened, announced, dropped, storeVars, linkDown, pollVars, answerVars, watchVars, over, left>>
HostAborts(c) ==
    /\ c \in opened /\ decided[c] = Nothing
    /\ Decide(c, "reject", "abort") /\ panels' = Without(c)
    /\ UNCHANGED <<opened, announced, dropped, storeVars, linkDown, pollVars, answerVars, watchVars, over, left>>

\* The settlement is listed for its retention window only.
HostSweeps(c) ==
    /\ status[c] # Nothing /\ status[c].phase = "follow"
    /\ status' = [status EXCEPT ![c] = Nothing]
    /\ UNCHANGED <<panels, opened, announced, decided, dropped, storeVars, linkDown, pollVars, answerVars, watchVars, over, left>>

\* /approval-reset-all clears every status, settled or not; the asks go on with
\* the timers they have.
HostResets ==
    /\ Fault /\ \E c \in Asks : status[c] # Nothing
    /\ status' = [c \in Asks |-> Nothing]
    /\ dropped' = dropped \cup {c \in Asks : status[c] # Nothing /\ decided[c] = Nothing}
    /\ UNCHANGED <<panels, opened, announced, decided, storeVars, linkDown, pollVars, answerVars, watchVars, over>>

--------------------------------------------------------------------------------
\* check(): reconcile the pollers with the panel the session shows. A poller whose
\* panel is gone is dropped, with what it shows; a panel without one arms one.
Check ==
    LET gone == active \ Visible
        fresh == Visible \ (active \cup resolvedKeys)
        kept(recs) == [c \in Asks |-> IF c \in gone THEN DropPending(recs, c)[c]
                                      ELSE IF c \in fresh THEN ObservePending(recs, c, c \in StatusLess)[c]
                                      ELSE recs[c]] IN
    /\ ~linkDown /\ (gone \cup fresh # {} \/ ~(resolvedKeys \subseteq Visible))
    /\ records' = kept(records) /\ UNCHANGED tombstones
    /\ active' = (active \ gone) \cup fresh
    /\ resolvedKeys' = resolvedKeys \cap Visible
    /\ wire' = [c \in Asks |-> IF c \in gone THEN Idle ELSE IF c \in fresh THEN Sent ELSE wire[c]]
    /\ hold' = hold \ (gone \cup fresh) /\ grace' = grace \ (gone \cup fresh)
    /\ meta' = [c \in Asks |-> IF c \in gone \cup fresh THEN Nothing ELSE meta[c]]
    /\ Watched
    /\ UNCHANGED <<hostVars, linkDown, answerVars, watchVars, left>>

\* The poller: one request at a time, none while it backs off.
PollSends(c) ==
    /\ c \in active \ hold /\ wire[c] = Idle
    /\ wire' = [wire EXCEPT ![c] = Sent]
    /\ UNCHANGED <<active, resolvedKeys, hold, meta, grace, storeVars, hostVars, linkDown, answerVars, watchVars, over, left>>

\* The status route answers with what it holds, at a change or as a heartbeat.
RouteAnswers(c) ==
    /\ wire[c] = Sent /\ ~linkDown
    /\ wire' = [wire EXCEPT ![c] = Answer(status[c])]
    /\ UNCHANGED <<active, resolvedKeys, hold, meta, grace, storeVars, hostVars, linkDown, answerVars, watchVars, over, left>>

\* A failure is never a resolution: the poller backs off and observes again.
PollFails(c) ==
    /\ wire[c] # Idle
    /\ (linkDown /\ UNCHANGED left) \/ (~linkDown /\ Fault)
    /\ wire' = [wire EXCEPT ![c] = Idle] /\ hold' = hold \cup {c}
    /\ UNCHANGED <<active, resolvedKeys, meta, grace, storeVars, hostVars, linkDown, answerVars, watchVars, over>>
HoldEnds(c) ==
    /\ c \in hold /\ hold' = hold \ {c}
    /\ UNCHANGED <<active, resolvedKeys, wire, meta, grace, storeVars, hostVars, linkDown, answerVars, watchVars, over, left>>

Detach(c) == active' = active \ {c} /\ resolvedKeys' = resolvedKeys \cup {c} /\ grace' = grace \ {c}

\* answerOnce: remembered before it is sent, so never sent twice.
AnswerOnce(c, action) ==
    /\ answered' = answered \cup {c}
    /\ answering' = IF c \in answered THEN answering ELSE [answering EXCEPT ![c] = action]

\* Faulty variant: only a timeout is answered, a takeover detaches.
ClosesTimeoutsOnly(source) == source = "timeout"
Closes(source) == source \notin {"human", "abort"}

\* Faulty variant: a status that is missing starts the grace, seen before or not.
MissingIsSettled(c) == TRUE
WasCountedDown(c) == meta[c] # Nothing

\* applyStatus. A settlement closes the panel, unless a human or an abort did; a
\* countdown that is no longer reported waits for its settlement; a status that
\* never was a countdown says nothing.
PollDelivers(c) ==
    LET got == wire[c].got IN
    /\ wire[c].at = "answered"
    /\ wire' = [wire EXCEPT ![c] = Idle] /\ hold' = hold \ {c}
    /\ IF got = Nothing
         THEN /\ grace' = IF WasCountedDown(c) THEN grace \cup {c} ELSE grace
              /\ UNCHANGED <<active, resolvedKeys, meta, storeVars, answered, answering>>
         ELSE IF got.phase = "follow"
         THEN /\ Detach(c)
              /\ records' = Resolve(records, c, got.action, got.source)
              /\ IF Closes(got.source) THEN AnswerOnce(c, got.action) ELSE UNCHANGED <<answered, answering>>
              /\ UNCHANGED <<meta, tombstones>>
         ELSE /\ records' = PublishStatus(records, c, got)
              /\ grace' = grace \ {c} /\ meta' = [meta EXCEPT ![c] = got.action]
              /\ UNCHANGED <<active, resolvedKeys, tombstones, answered, answering>>
    /\ Watched
    /\ UNCHANGED <<hostVars, linkDown, byGrace, lost, watchVars, left>>

\* The grace ends: a panel still up is closed with the action the countdown had.
RecordedAction(c) == IF meta[c] = "allow" THEN "allow" ELSE "reject"
GraceFires(c) ==
    /\ c \in grace
    /\ IF c \in Visible
         THEN /\ records' = DropPending(Resolve(records, c, RecordedAction(c), "timeout"), c)
              /\ AnswerOnce(c, RecordedAction(c))
              /\ byGrace' = byGrace \cup {c}
         ELSE records' = DropPending(records, c) /\ UNCHANGED <<answered, answering, byGrace>>
    /\ Detach(c) /\ wire' = [wire EXCEPT ![c] = Idle]
    /\ Watched
    /\ UNCHANGED <<tombstones, hostVars, linkDown, hold, meta, lost, watchVars, left>>

\* The answer reaches the panel, settled or not; or it is lost, and is not resent.
Respond(c) ==
    /\ answering[c] # Nothing /\ answering' = [answering EXCEPT ![c] = Nothing]
    /\ \/ /\ panels' = Without(c) /\ UNCHANGED <<lost, left>>
          /\ IF Up(c) /\ decided[c] = Nothing THEN Decide(c, answering[c], "human")
             ELSE UNCHANGED <<status, decided>>
       \/ /\ Fault /\ lost' = lost \cup {c} /\ UNCHANGED <<status, panels, decided>>
    /\ UNCHANGED <<opened, announced, dropped, storeVars, linkDown, pollVars, answered, byGrace, watchVars, over>>

--------------------------------------------------------------------------------
\* The watcher of the session: every ask the host holds for it, panel or not.
WatchSends ==
    /\ viewing /\ watchWire = Idle /\ watchWire' = Sent
    /\ UNCHANGED <<viewing, live, storeVars, hostVars, linkDown, pollVars, answerVars, over, left>>
SessionRouteAnswers ==
    /\ watchWire = Sent /\ ~linkDown /\ watchWire' = Answer(status)
    /\ UNCHANGED <<viewing, live, storeVars, hostVars, linkDown, pollVars, answerVars, over, left>>
WatchFails ==
    /\ watchWire # Idle /\ watchWire' = Idle
    /\ (linkDown /\ UNCHANGED left) \/ (~linkDown /\ Fault)
    /\ UNCHANGED <<viewing, live, storeVars, hostVars, linkDown, pollVars, answerVars, over>>

\* Its answer counts while the reader looks at the session; an ask it mirrored and
\* the host no longer lists leaves the display.
WatchDelivers ==
    /\ watchWire.at = "answered" /\ watchWire' = Idle
    /\ LET listed == {c \in Asks : watchWire.got[c] # Nothing} IN
       IF viewing
         THEN /\ records' = [c \in Asks |->
                    IF c \in listed THEN PublishStatus(records, c, watchWire.got[c])[c]
                    ELSE IF c \in live THEN DropPending(records, c)[c] ELSE records[c]]
              /\ live' = listed
         ELSE UNCHANGED <<records, live>>
    /\ Watched
    /\ UNCHANGED <<tombstones, viewing, hostVars, linkDown, pollVars, answerVars, left>>

ReaderLeaves ==
    /\ viewing /\ viewing' = FALSE /\ live' = {} /\ Fault
    /\ ClearSession /\ Watched
    /\ UNCHANGED <<watchWire, hostVars, linkDown, pollVars, answerVars>>
ReaderReturns ==
    /\ ~viewing /\ viewing' = TRUE
    /\ watchWire' = IF watchWire = Idle THEN Sent ELSE watchWire
    /\ UNCHANGED <<live, storeVars, hostVars, linkDown, pollVars, answerVars, over, left>>

PruneRecord(c) ==
    /\ Prune(c) /\ Watched
    /\ UNCHANGED <<hostVars, linkDown, pollVars, answerVars, watchVars, left>>

\* The connection; its return polls every ask at once, back-off or not.
LinkDrops ==
    /\ ~linkDown /\ linkDown' = TRUE /\ Fault
    /\ UNCHANGED <<storeVars, hostVars, pollVars, answerVars, watchVars, over>>
LinkResumes ==
    /\ linkDown /\ linkDown' = FALSE
    /\ wire' = [c \in Asks |-> IF c \in active /\ wire[c] = Idle THEN Sent ELSE wire[c]]
    /\ UNCHANGED <<active, resolvedKeys, hold, meta, grace, storeVars, hostVars, answerVars, watchVars, over, left>>

--------------------------------------------------------------------------------
Init ==
    /\ StoreInit
    /\ status = [c \in Asks |-> Nothing] /\ panels = <<>> /\ opened = {}
    /\ announced = [c \in Asks |-> Nothing] /\ decided = [c \in Asks |-> Nothing]
    /\ dropped = {} /\ linkDown = FALSE
    /\ active = {} /\ resolvedKeys = {} /\ wire = [c \in Asks |-> Idle] /\ hold = {}
    /\ meta = [c \in Asks |-> Nothing] /\ grace = {}
    /\ answered = {} /\ answering = [c \in Asks |-> Nothing] /\ byGrace = {} /\ lost = {}
    /\ viewing = TRUE /\ watchWire = Idle /\ live = {} /\ over = {}
    /\ left = MaxFaults

Host(c) == HostAsks(c) \/ PanelShows(c) \/ HostSettles(c) \/ HumanAnswers(c) \/ HostAborts(c) \/ HostSweeps(c)
Poller(c) == PollSends(c) \/ RouteAnswers(c) \/ PollFails(c) \/ HoldEnds(c) \/ PollDelivers(c) \/ GraceFires(c) \/ Respond(c)
Watcher == WatchSends \/ SessionRouteAnswers \/ WatchFails \/ WatchDelivers \/ ReaderLeaves \/ ReaderReturns

Next ==
    \/ \E c \in Asks : Host(c) \/ Poller(c) \/ PruneRecord(c)
    \/ HostResets \/ Check \/ Watcher \/ LinkDrops \/ LinkResumes

\* The intervals tick, the routes answer within their hold, the link comes back: the
\* poller of an ask always takes its next step.  Only an ask with a countdown needs it.
Polls(c) ==
    \/ PollSends(c) \/ RouteAnswers(c) \/ HoldEnds(c) \/ PollDelivers(c)
    \/ linkDown /\ PollFails(c)
Spec ==
    /\ Init /\ [][Next]_vars
    /\ WF_vars(Check) /\ WF_vars(LinkResumes)
    /\ \A c \in Asks \ StatusLess :
         WF_vars(Polls(c)) /\ WF_vars(GraceFires(c)) /\ WF_vars(Respond(c))

--------------------------------------------------------------------------------
\* A settlement that has left the display does not light up again, though the host
\* goes on listing it and answers arrive late (status-store.ts tombstones).
NeverRevives == \A c \in Asks : c \in over => ~Shown(records, c)

\* The tab answers a panel only after the host decided, and with the host's own
\* decision; or, at the end of its grace, with the action the countdown announced,
\* for an ask that was settled and swept before the tab saw it or that a reset
\* dropped undecided.  It never settles an ask that has no countdown (shared.ts
\* applyStatus).  A chip that says how an ask ended says what the host decided and
\* who did, or the announced timeout under the same exception (status-store.ts
\* chipState).
AnswersFollowTheHost ==
    \A c \in Asks :
      LET settled == decided[c] # Nothing
          chip == ChipState(records[c], linkDown) IN
      /\ c \in byGrace => settled \/ c \in dropped
      /\ answering[c] # Nothing =>
           \/ settled /\ answering[c] = decided[c].action
           \/ /\ c \in byGrace /\ answering[c] = announced[c]
              /\ status[c] = Nothing \/ c \in dropped
      /\ c \in answered => c \notin StatusLess
      /\ chip \in Endings =>
           \/ settled /\ chip = Ending(decided[c].action, decided[c].source)
           \/ c \in byGrace /\ chip = Ending(announced[c], "timeout")

\* shared.ts:381-383: "review-status is never 404 - resolution is signalled by
\* ok:false - so the host resolved".  Refuted by a reset of all sessions: the tab
\* closes the panel of an ask nobody has decided.
GraceMeansSettled == \A c \in Asks : c \in byGrace => decided[c] # Nothing

\* A panel on view whose countdown the host has settled is closed, unless the one answer
\* the tab gives was lost, or the settlement was swept before the tab's poller saw either
\* it or its countdown (shared.ts:15-28, remote.ts check).
PanelCloses ==
    \A c \in Asks \ StatusLess :
      decided[c] # Nothing /\ c \in Visible ~> ~Up(c) \/ lost # {} \/ (status[c] = Nothing /\ meta[c] = Nothing)

\* status-store.ts:27: "Monotonic per-ask revision; an older revision never
\* overwrites a newer one."
OlderNeverOverwrites ==
    [][\A c \in Asks : Shown(records, c) /\ Shown(records', c) => records'[c].revision >= records[c].revision]_vars
=============================================================================

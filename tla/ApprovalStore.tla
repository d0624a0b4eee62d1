---------------------------- MODULE ApprovalStore -----------------------------
\* What one browser tab shows of the approvals: a record for each ask, written
\* from two sources that poll the host independently, and read by the header
\* chip (src/src/client/approvals/status-store.ts).
\*
\* A settled record stays for TERMINAL_TTL_MS and then leaves a tombstone, because
\* the host goes on listing the ask for its own retention window.
\*
\* Bound: fewer asks than MAX_TOMBSTONES settle within that window, so that no
\* tombstone is evicted while the host still lists its ask. The clock behind the
\* remaining seconds is left out; a record holds what was last published.
EXTENDS Integers

CONSTANTS Asks,      \* call ids
          Nothing    \* no record, no status, no outcome

Outcomes == {"allow", "reject"}
Sources  == {"none", "timeout", "llm", "human", "abort"}

VARIABLES
    records,      \* ask -> what is displayed for it
    tombstones    \* asks whose settlement has been shown

storeVars == <<records, tombstones>>

\* What the host answers for an ask: the phase, the action, who settled it, and the
\* revision it gave the countdown. What a tab keeps adds the breaker mark and a panel
\* without a countdown.
Statuses == [phase : {"countdown", "follow"}, action : Outcomes, source : Sources, revision : {1}]
Records == [phase : {"awaiting", "countdown", "follow"}, action : Outcomes, source : Sources,
            revision : Int, breaker : BOOLEAN]
Status(phase, action, source) == [phase |-> phase, action |-> action, source |-> source, revision |-> 1]
Record(phase, action, source, revision, breaker) ==
    [phase |-> phase, action |-> action, source |-> source, revision |-> revision, breaker |-> breaker]

Shown(recs, c) == recs[c] # Nothing
IsFollow(recs, c) == Shown(recs, c) /\ recs[c].phase = "follow"
IsLive(recs, c) == Shown(recs, c) /\ recs[c].phase # "follow"
RevisionOf(recs, c) == IF Shown(recs, c) THEN recs[c].revision ELSE -1

\* The panel of an ask appeared. A published countdown is stronger evidence, and
\* takes only the breaker mark.
ObservePending(recs, c, breaker) ==
    IF c \in tombstones \/ IsFollow(recs, c) THEN recs
    ELSE IF Shown(recs, c) /\ recs[c].phase = "countdown"
    THEN [recs EXCEPT ![c].breaker = @ \/ breaker]
    ELSE [recs EXCEPT ![c] = Record("awaiting", "allow", "none", RevisionOf(recs, c), breaker)]

\* A settlement is written over a countdown, never over a settlement.
Resolve(recs, c, action, source) ==
    IF c \in tombstones \/ IsFollow(recs, c) THEN recs
    ELSE [recs EXCEPT ![c] = Record("follow", action, source, RevisionOf(recs, c) + 1, FALSE)]

\* A payload of the host. Only a countdown on display compares revisions.
PublishStatus(recs, c, status) ==
    IF status.phase = "follow" THEN Resolve(recs, c, status.action, status.source)
    ELSE IF \/ c \in tombstones
            \/ IsLive(recs, c) /\ recs[c].phase = "countdown" /\ status.revision < recs[c].revision
    THEN recs
    ELSE [recs EXCEPT ![c] = Record("countdown", status.action, "none", status.revision,
                                    Shown(recs, c) /\ recs[c].breaker)]

\* The pending left without a settled record.
DropPending(recs, c) == IF IsLive(recs, c) THEN [recs EXCEPT ![c] = Nothing] ELSE recs

\* The reader leaves the session: its records go, its settled asks are remembered.
\* Faulty variant: they are not.
ForgetSettled(recs) == tombstones
RememberSettled(recs) == tombstones \cup {c \in Asks : IsFollow(recs, c)}
ClearSession == records' = [c \in Asks |-> Nothing] /\ tombstones' = RememberSettled(records)

\* Rendering prunes the settled records whose window is over.
Prune(c) ==
    /\ IsFollow(records, c)
    /\ records' = [records EXCEPT ![c] = Nothing]
    /\ tombstones' = tombstones \cup {c}

StoreInit == records = [c \in Asks |-> Nothing] /\ tombstones = {}

\* What the chip makes of a settlement, and of a record: the precedence is settled,
\* breaker, waiting, frozen, counting.
Endings == {"cancelled", "human", "timeout allows", "timeout rejects", "allowed", "rejected"}
Ending(action, source) ==
    CASE source = "abort" -> "cancelled"
      [] source = "human" -> "human"
      [] source = "timeout" -> IF action = "allow" THEN "timeout allows" ELSE "timeout rejects"
      [] OTHER -> IF action = "allow" THEN "allowed" ELSE "rejected"
ChipState(record, linkDown) ==
    IF record = Nothing THEN "empty"
    ELSE IF record.phase = "follow" THEN Ending(record.action, record.source)
    ELSE IF record.breaker THEN "breaker" ELSE IF record.phase = "awaiting" THEN "awaiting"
    ELSE IF linkDown THEN "offline" ELSE "countdown"
=============================================================================

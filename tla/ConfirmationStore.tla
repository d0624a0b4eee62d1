-------------------------- MODULE ConfirmationStore --------------------------
\* The confirmation-learning store next to the other runtime files: its copy in
\* memory, the file it is written to, the tripwire for rewrites from outside, the
\* revoke route and the learned allow (src/src/auto/learning.ts,
\* runtime-stores.ts, the learning-store route, askHuman's bookkeeping and
\* learnAttempt in src/src/index.ts).
\*
\* A settled ask changes the store and writes the file in one go. A revoke yields
\* three times: its section under the key's mutex, the write that follows it, and
\* the route's own write, whose success the answer reports. A learned allow
\* yields while the reviewer checks the call. Anything may run in between.
\*
\* Bounds: Keys, MaxTime (the clock, counted in days), the askers and revokers.
EXTENDS RuntimeStores, Functions

CONSTANTS Keys, Threshold, Ttl, MaxEntries, MaxTime, AllowCap, Askers, Revokers,
          Nobody,
          NoFile, Garbage    \* learning.json absent, and unreadable

ASSUME LearningAssumption ==
    /\ Threshold \in Nat \ {0} /\ Ttl \in Nat /\ MaxEntries \in Nat
    /\ MaxTime \in Nat /\ AllowCap \in Nat \ {0}
    /\ IsFiniteSet(Askers)

VARIABLES
    entries,   \* learningStore.entries: a function on the learned keys
    file,      \* learning.json: such a function, or Garbage, or NoFile
    seen,      \* learningDiskFingerprint
    now,
    asker,     \* the learned allows under review: asker -> key or Nobody
    revoker,   \* the revoke requests: revoker -> [key, at]
    used,      \* sessionLearnedAllows of the one session
    since,     \* history variable: confirmations since the last confirmed revoke
    fresh,     \* history variable: ... since the last revoke or denial
    forged,    \* history variable: the file was rewritten from outside and read
    foreign,   \* history variable: rewritten since the process last looked
    alien,     \* history variable: the file's content comes from outside
    clean      \* history variable: clean reviews since the session began

learnVars == <<entries, file, seen, now, asker, revoker, used, since, fresh, forged, foreign, alien, clean>>
vars == <<storeVars, learnVars>>

Entry(count, last) == [count |-> count, last |-> last]
Nothing == [k \in {} |-> Entry(0, 0)]
NoRequest == [key |-> Nobody, at |-> "idle"]
Day == Line("none", 0)

\* The keys past their age are dropped, then the least recently used ones beyond
\* the cap; among keys of one day the code's order of insertion decides.
EvictLearning(es, time) ==
    LET alive == {k \in DOMAIN es : time - es[k].last <= Ttl}
        kept == {S \in SUBSET alive :
                   /\ Cardinality(S) = (IF Cardinality(alive) < MaxEntries THEN Cardinality(alive) ELSE MaxEntries)
                   /\ \A a \in S, b \in alive \ S : es[a].last >= es[b].last}
    IN  {Restrict(es, S) : S \in kept}

\* An entry from the future is not read back (validateLearningEntry).
Validated(es) == Restrict(es, {k \in DOMAIN es : es[k].last <= now})
LoadLearning == IF file \in {NoFile, Garbage} THEN {Nothing} ELSE EvictLearning(Validated(file), now)

LookupLearning(k) ==
    k \in DOMAIN entries /\ entries[k].count >= Threshold /\ now - entries[k].last <= Ttl

With(es, k, e) == [x \in DOMAIN es \cup {k} |-> IF x = k THEN e ELSE es[x]]
RecordConfirm(k) ==
    EvictLearning(With(entries, k, Entry((IF k \in DOMAIN entries THEN entries[k].count ELSE 0) + 1, now)), now)
ResetConfirmation(k) == IF k \in DOMAIN entries THEN With(entries, k, Entry(0, now)) ELSE entries
RevokeLearning(k) == Restrict(entries, DOMAIN entries \ {k})

--------------------------------------------------------------------------------
\* persistLearningGuarded: compare the file with what was last seen, say so in
\* the audit when it differs, replace it, and look at it again. "for" names the
\* revoke request that waits for the result.
PersistJob(for) == <<Task("tripwire", for, Day), Task("write", for, Day)>>

Tripwire ==
    /\ NextTask("tripwire")
    /\ job' = (IF file # seen THEN <<Task("audit", "audit", Line("tamper", 0))>> ELSE <<>>) \o Tail(job)
    /\ UNCHANGED <<up, mem, disk, audit, written, trail, cleared, left, learnVars>>

\* The revoke route answers 200 with an audit line, or 500 when its own write failed.
\* Faulty variant: a write that failed is answered like one that succeeded.
AnswerAnyway(for, ok) ==
    IF for = Nobody THEN <<>>
    ELSE <<Task("audit", "audit", Line("revoked", 0)), Task("revoked", for, Day)>>
AfterWrite(for, ok) ==
    IF for = Nobody THEN <<>>
    ELSE IF ok THEN <<Task("audit", "audit", Line("revoked", 0)), Task("revoked", for, Day)>>
    ELSE <<Task("failed", for, Day)>>

\* Faulty variant: the file is not looked at again after the write.
KeepSeen(r) == seen
LookAgain(r) == r.file

WriteLearning ==
    /\ NextTask("write")
    /\ \E r \in WriteAtomic(file, entries) :
         /\ file' = r.file /\ seen' = LookAgain(r) /\ alien' = (alien /\ ~r.ok) /\ Charge(r)
         /\ job' = AfterWrite(Head(job).window, r.ok) \o Tail(job)
    /\ foreign' = FALSE
    /\ UNCHANGED <<up, mem, disk, audit, written, trail, cleared,
                   entries, now, asker, revoker, used, since, fresh, forged, clean>>

Outside(content) ==
    /\ Spend("outside")
    /\ file' = content /\ content # file
    /\ foreign' = TRUE /\ alien' = TRUE
    /\ UNCHANGED <<up, mem, disk, audit, job, written, trail, cleared,
                   entries, seen, now, asker, revoker, used, since, fresh, forged, clean>>
OutsideContents == {Garbage} \cup {[k \in {x} |-> Entry(Threshold, t)] : x \in Keys, t \in {now, now + 1}}

--------------------------------------------------------------------------------
\* A settled ask with a learnable call: a human allow counts, a human denial resets.
Learn(k, es, sinceK, freshK) ==
    /\ Idle /\ Spend("learn")
    /\ entries' = es
    /\ since' = [since EXCEPT ![k] = sinceK] /\ fresh' = [fresh EXCEPT ![k] = freshK]
    /\ job' = PersistJob(Nobody)
    /\ UNCHANGED <<up, mem, disk, audit, written, trail, cleared,
                   file, seen, now, asker, revoker, used, forged, foreign, alien, clean>>
Confirm(k) == \E es \in RecordConfirm(k) : Learn(k, es, since[k] + 1, fresh[k] + 1)
Deny(k) == Learn(k, ResetConfirmation(k), since[k], 0)

\* The revoke route. The section removes the entry; nothing to remove is a 404.
RevokeSection(r, k) ==
    /\ Idle /\ revoker[r].at = "idle" /\ Spend("revoke")
    /\ IF k \in DOMAIN entries
         THEN /\ revoker' = [revoker EXCEPT ![r] = [key |-> k, at |-> "then"]]
              /\ fresh' = [fresh EXCEPT ![k] = 0]
         ELSE UNCHANGED <<revoker, fresh>>
    /\ entries' = RevokeLearning(k)
    /\ UNCHANGED <<up, mem, disk, audit, job, written, trail, cleared,
                   file, seen, now, asker, used, since, forged, foreign, alien, clean>>
RevokeWrites(r, from, to, for) ==
    /\ Idle /\ revoker[r].at = from
    /\ revoker' = [revoker EXCEPT ![r].at = to]
    /\ job' = PersistJob(for)
    /\ UNCHANGED <<up, mem, disk, audit, written, trail, cleared, left, entries,
                   file, seen, now, asker, used, since, fresh, forged, foreign, alien, clean>>
RevokeThen(r) == RevokeWrites(r, "then", "reply", Nobody)
RevokeReply(r) == RevokeWrites(r, "reply", "answering", r)
RevokeAnswers ==
    /\ \/ NextTask("revoked")
            /\ since' = [since EXCEPT ![revoker[Head(job).window].key] = fresh[revoker[Head(job).window].key]]
       \/ NextTask("failed") /\ UNCHANGED since
    /\ revoker' = [revoker EXCEPT ![Head(job).window] = NoRequest]
    /\ job' = Tail(job)
    /\ UNCHANGED <<up, mem, disk, audit, written, trail, cleared, left,
                   entries, file, seen, now, asker, used, fresh, forged, foreign, alien, clean>>

--------------------------------------------------------------------------------
\* A learned allow: the signature and the session's allowance are looked up, the
\* reviewer is awaited, and a clean review spends the allowance before the audit
\* line decides.
LearnAttempt(a, k) ==
    /\ Idle /\ asker[a] = Nobody /\ Spend("attempt")
    /\ LookupLearning(k) /\ used < AllowCap
    /\ asker' = [asker EXCEPT ![a] = k]
    /\ UNCHANGED <<up, mem, disk, audit, job, written, trail, cleared, entries,
                   file, seen, now, revoker, used, since, fresh, forged, foreign, alien, clean>>

\* Faulty variant: the count read before the review is written back.
SpendSnapshot(n) == IF n = 0 THEN 1 ELSE n
SpendOne(n) == n + 1

LearnReviewed(a) ==
    /\ Idle /\ asker[a] # Nobody
    /\ used' = SpendOne(used) /\ clean' = clean + 1
    /\ written' = written + 1
    /\ Remember("history", Line("learned", written + 1))
    /\ job' = (IF SpendOne(used) = AllowCap THEN <<Task("audit", "audit", Line("cap", 0))>> ELSE <<>>)
                \o PushJob("history", Line("learned", written + 1))
    /\ asker' = [asker EXCEPT ![a] = Nobody]
    /\ UNCHANGED <<up, disk, audit, trail, cleared, left,
                   entries, file, seen, now, revoker, since, fresh, forged, foreign, alien>>
LearnMissed(a) ==
    /\ Idle /\ asker[a] # Nobody
    /\ asker' = [asker EXCEPT ![a] = Nobody]
    /\ UNCHANGED <<storeVars, entries, file, seen, now, revoker, used, since, fresh, forged, foreign, alien, clean>>
\* The session ends while reviews may still be out.
SessionDisposed ==
    /\ Idle /\ used > 0 /\ Spend("dispose")
    /\ used' = 0 /\ clean' = 0
    /\ UNCHANGED <<up, mem, disk, audit, job, written, trail, cleared, entries,
                   file, seen, now, asker, revoker, since, fresh, forged, foreign, alien>>

--------------------------------------------------------------------------------
Tick ==
    /\ job = <<>> /\ now < MaxTime /\ now' = now + 1 /\ Spend("tick")
    /\ UNCHANGED <<up, mem, disk, audit, job, written, trail, cleared, entries,
                   file, seen, asker, revoker, used, since, fresh, forged, foreign, alien, clean>>

Crash ==
    /\ CrashStores
    /\ entries' = Nothing /\ used' = 0 /\ clean' = 0
    /\ asker' = [a \in Askers |-> Nobody] /\ revoker' = [r \in Revokers |-> NoRequest]
    /\ UNCHANGED <<disk, audit, written, trail, cleared, file, seen, now, since, fresh, forged, foreign, alien>>

Start ==
    /\ LoadRuntimeStores
    /\ entries' \in LoadLearning
    /\ seen' = file
    /\ fresh' = since
    /\ forged' = (forged \/ alien) /\ foreign' = FALSE
    /\ UNCHANGED <<disk, audit, job, written, trail, cleared, left, file, now, asker, revoker, used, since, alien, clean>>

Init ==
    /\ StoresInit
    /\ entries = Nothing /\ file = NoFile /\ seen = NoFile /\ now = 0
    /\ asker = [a \in Askers |-> Nobody] /\ revoker = [r \in Revokers |-> NoRequest]
    /\ used = 0 /\ clean = 0
    /\ since = [k \in Keys |-> 0] /\ fresh = [k \in Keys |-> 0]
    /\ forged = FALSE /\ foreign = FALSE /\ alien = FALSE

Next ==
    \/ StoresNext /\ UNCHANGED learnVars
    \/ Tripwire \/ WriteLearning \/ RevokeAnswers
    \/ \E content \in OutsideContents : Outside(content)
    \/ \E k \in Keys : Confirm(k) \/ Deny(k)
    \/ \E r \in Revokers : RevokeThen(r) \/ RevokeReply(r) \/ \E k \in Keys : RevokeSection(r, k)
    \/ \E a \in Askers : LearnReviewed(a) \/ LearnMissed(a) \/ \E k \in Keys : LearnAttempt(a, k)
    \/ SessionDisposed \/ Tick \/ Crash \/ Start

Spec == Init /\ [][Next]_vars

--------------------------------------------------------------------------------
\* Unless the file was rewritten from outside and read at a boot, a stored count
\* is earned: in memory it never exceeds the human allows since the last revoke
\* or denial, in the file the human allows since the last revoke answered with
\* 200 - across failed writes, evictions, crashes and concurrent revokes (the
\* revoke route answers 500 rather than claim what the next boot would undo).
CountsAreEarned ==
    \/ forged
    \/ /\ \A k \in DOMAIN entries : entries[k].count <= fresh[k]
       /\ alien \/ file \in {NoFile, Garbage} \/ \A k \in DOMAIN file : file[k].count <= since[k]

\* The tripwire never raises a false alarm: a tamper line is only ever due while
\* a rewrite from outside is unseen, whatever writes failed or crashes fell
\* before it (runtime-stores.ts: "one audit line + one warning per divergence").
NoFalseAlarm ==
    up /\ file # seen => foreign

\* The allowance a session has spent is the number of clean reviews it had, even
\* with attempts in parallel, and goes past the cap by no more than the attempts
\* that were already out when it was reached (learnAttempt: "an exact count with
\* a momentary overshoot is honest").
SpendIsExact ==
    /\ used = clean
    /\ used <= AllowCap + Cardinality(Askers) - 1
=============================================================================

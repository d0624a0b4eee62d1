---------------------------- MODULE SettingsCard ----------------------------
(***************************************************************************)
(* The settings page of client/index.ts (SettingsSection) and the write    *)
(* projection of client/row-config.ts, against the host's configuration    *)
(* section.  The page keeps a snapshot of what the host holds and a draft  *)
(* of what the controls show; the snapshot is replaced by route reads, by  *)
(* the form the host pushes and by the page's own writes, in whatever      *)
(* order they arrive, and every handler works on the draft and snapshot it *)
(* was CLICKED with, not on those it finds when the host has answered.     *)
(*                                                                         *)
(* A value is what the properties tell apart: Base is the inherited (or    *)
(* empty) value, Invalid one the schema refuses; draftOf and valueOf       *)
(* together normalise the latter into the former.                          *)
(***************************************************************************)
EXTENDS Naturals, Sequences, FiniteSets, SequencesExt, Functions

CONSTANTS
    Cards,         \* the cards with a save button
    CardKeys,      \* Cards -> the keys a card owns
    ReviewCard,    \* the card whose reset saves at once
    KeptByReset,   \* what the reset of a card leaves in its control (panelDelayMs)
    TopKeys,       \* the rows that save on change
    HostOnly,      \* HOST_ONLY_KEYS: shown, never written
    Optional,      \* REVIEW_PAIR_KEYS: written only while non-empty
    Base, Invalid,
    Typed,         \* what the user enters
    Foreign,       \* what another writer of the section stores
    Legacy,        \* the retired settings document: key -> value
    InitialDocs,   \* the sections a page may open on
    NoDraft, NoUndo, NoAnswer,
    MaxClicks, MaxEdits, MaxForeign

Editable == UNION {CardKeys[c] : c \in Cards} \cup TopKeys
Keys == Editable \cup HostOnly

ASSUME SettingsCardAssumption ==
    /\ ReviewCard \in Cards /\ Optional \subseteq CardKeys[ReviewCard]
    /\ \A c, d \in Cards : c # d => CardKeys[c] \cap CardKeys[d] = {}
    /\ TopKeys \cap UNION {CardKeys[c] : c \in Cards} = {}
    /\ HostOnly \cap Editable = {}
    /\ Invalid # Base /\ Invalid \notin Typed
    /\ \A value \in InitialDocs : DOMAIN value = Keys

VARIABLES
    doc, rev,      \* the host's section and its revision
    form,          \* the form the page was handed: [ready, revision]
    snapshot,      \* the page's baseline: [value, revision, offers]
    draft,         \* what the controls show, or NoDraft while loading
    saving,        \* the flag that disables the buttons
    undo,          \* legacyUndo
    reads,         \* requests under way: [kind, answer]
    queue,         \* the writes handed to form.mutate, oldest first
    unsaved,       \* ghost: what the user entered in a card and has not committed
    raced,         \* ghost: the keys of unsaved entered while a write was out
    regressed,     \* ghost: the snapshot went back behind the form
    clicks, edits, foreign

pageVars == <<form, snapshot, draft, saving, undo, reads, unsaved, raced, regressed>>
cardVars == <<doc, rev, pageVars, queue, clicks, edits, foreign>>

-----------------------------------------------------------------------------
\* What the page computes.

Normal(v) == IF v = Invalid THEN Base ELSE v

DraftOf(value) == [k \in Keys |-> Normal(value[k])]

ValueOf(d) == Restrict(d, {k \in Keys : k \in Optional => d[k] # Base})

Overlay(d, patch) == [k \in DOMAIN d |-> IF k \in DOMAIN patch THEN patch[k] ELSE d[k]]

Pick(keys, d) == Restrict(d, keys)

\* Faulty variant: the card saves the whole draft.
SliceValueOfWholeDraft(keys) == ValueOf(draft)

SliceValueOf(keys) == ValueOf(Overlay(DraftOf(snapshot.value), Pick(keys, draft)))

SliceWithKeys(patch) == ValueOf(Overlay(DraftOf(snapshot.value), patch))

Dirty(c) == \E k \in CardKeys[c] : draft[k] # DraftOf(snapshot.value)[k]

InvalidKeys == {k \in Keys : snapshot.value[k] = Invalid}

\* buildMutateOps: what of a write reaches the host.
SetOps(w) == DOMAIN w.value \cap Editable
UnsetOps(w) == (w.unset \cap Editable) \ DOMAIN w.value

\* legacyImportPlan: the retired values the route offers.
Offers(value) ==
    Restrict(Legacy, {k \in DOMAIN Legacy \cap Editable : value[k] = Base /\ Legacy[k] # value[k]})

NoOffers == Restrict(Legacy, {})

-----------------------------------------------------------------------------
CardInit ==
    /\ doc \in InitialDocs /\ rev = 0
    /\ form = [ready |-> FALSE, revision |-> 0]
    /\ snapshot = [value |-> doc, revision |-> 0, offers |-> NoOffers]
    /\ draft = NoDraft /\ saving = FALSE /\ undo = NoUndo
    /\ reads = <<[kind |-> "first", answer |-> NoAnswer]>>
    /\ queue = <<>>
    /\ unsaved = NoOffers /\ raced = {} /\ regressed = FALSE
    /\ clicks = 0 /\ edits = 0 /\ foreign = 0

Ask(kind) == Append(reads, [kind |-> kind, answer |-> NoAnswer])

-----------------------------------------------------------------------------
\* The host: the configuration plane behind form.mutate and the route.

\* Another tab, the operator's editor or a command writes one key.
ForeignWrite(k, v) ==
    /\ foreign < MaxForeign /\ doc[k] # v
    /\ doc' = [doc EXCEPT ![k] = v] /\ rev' = rev + 1 /\ foreign' = foreign + 1
    /\ UNCHANGED <<pageVars, queue, clicks, edits>>

FenceHolds(w) == w.expected = rev

Written(w) ==
    [k \in Keys |-> IF k \in SetOps(w) THEN w.value[k]
                    ELSE IF k \in UnsetOps(w) THEN Base ELSE doc[k]]

\* One queued mutation is applied whole or refused whole.
HostTakes(i) ==
    /\ queue[i].answer = "queued"
    /\ \A j \in 1..(i - 1) : queue[j].answer # "queued"
    /\ IF FenceHolds(queue[i])
       THEN /\ doc' = Written(queue[i]) /\ rev' = rev + 1
            /\ queue' = [queue EXCEPT ![i].answer = "accepted"]
       ELSE /\ queue' = [queue EXCEPT ![i].answer = "refused"]
            /\ UNCHANGED <<doc, rev>>
    /\ UNCHANGED <<pageVars, clicks, edits, foreign>>

\* describeSettings answers a read with what the section holds then.
HostServes(i) ==
    /\ reads[i].answer = NoAnswer
    /\ reads' = [reads EXCEPT ![i].answer =
                    [value |-> doc, revision |-> rev, offers |-> Offers(doc)]]
    /\ UNCHANGED <<doc, rev, form, snapshot, draft, saving, undo, unsaved, raced, regressed,
                   queue, clicks, edits, foreign>>

-----------------------------------------------------------------------------
\* What arrives at the page.

\* The host pushes the section without the host-only keys, which are not
\* volatile; the effect on hostState merges it over what the page holds.
FormArrives ==
    /\ ~form.ready \/ form.revision # rev
    /\ form' = [ready |-> TRUE, revision |-> rev]
    /\ snapshot' = [snapshot EXCEPT !.value = Overlay(@, Pick(Editable, doc)), !.revision = rev]
    /\ regressed' = FALSE
    /\ UNCHANGED <<doc, rev, draft, saving, undo, reads, unsaved, raced, queue, clicks, edits,
                   foreign>>

\* The entry stops being served (usableForm is undefined): the page is
\* read-only until a form arrives again.
FormLeaves ==
    /\ form.ready /\ foreign < MaxForeign
    /\ form' = [form EXCEPT !.ready = FALSE] /\ foreign' = foreign + 1
    /\ UNCHANGED <<doc, rev, snapshot, draft, saving, undo, reads, unsaved, raced, regressed,
                   queue, clicks, edits>>

\* A route answer: the first one fills the draft too, the one an undo waits
\* for as well, and a re-sync (refreshSnapshot) the snapshot alone.
ReadArrives(i) ==
    LET r == reads[i] IN
    /\ r.answer # NoAnswer /\ r.kind # "forget"
    /\ snapshot' = r.answer
    /\ regressed' = (form.ready /\ r.answer.revision < form.revision)
    /\ IF r.kind = "sync" THEN UNCHANGED <<draft, unsaved, raced>>
       ELSE draft' = DraftOf(r.answer.value) /\ unsaved' = NoOffers /\ raced' = {}
    /\ saving' = (saving /\ r.kind # "undo")
    /\ reads' = RemoveAt(reads, i)
    /\ UNCHANGED <<doc, rev, form, undo, queue, clicks, edits, foreign>>

\* The credential store has answered resetReviewerCard: a failed deletion
\* re-reads the section, either way the buttons come back.
CredentialAnswers(i) ==
    /\ reads[i].kind = "forget"
    /\ \/ reads' = RemoveAt(reads, i)
       \/ reads' = Append(RemoveAt(reads, i), [kind |-> "sync", answer |-> NoAnswer])
    /\ saving' = FALSE
    /\ UNCHANGED <<doc, rev, form, snapshot, draft, undo, unsaved, raced, regressed, queue,
                   clicks, edits, foreign>>

\* A read that fails leaves everything; the undo it belonged to is over.
ReadFails(i) ==
    /\ reads[i].kind \in {"sync", "undo"}
    /\ saving' = (saving /\ reads[i].kind # "undo")
    /\ reads' = RemoveAt(reads, i)
    /\ UNCHANGED <<doc, rev, form, snapshot, draft, undo, unsaved, raced, regressed, queue,
                   clicks, edits, foreign>>

-----------------------------------------------------------------------------
\* The controls.  They are rendered once a draft and a usable form are there.

Rendered == draft # NoDraft /\ form.ready

CardKey(k) == \E c \in Cards : k \in CardKeys[c]

\* The writes whose landing sets the draft they were clicked with.
RestoresDraft(w) == w.op \in {"save", "import", "toggle"}

\* update: a text, number or card capsule; never disabled.
Edit(k, v) ==
    /\ Rendered /\ edits < MaxEdits /\ CardKey(k) /\ draft[k] # v
    /\ draft' = [draft EXCEPT ![k] = v]
    /\ unsaved' = [j \in DOMAIN unsaved \cup {k} |-> IF j = k THEN v ELSE unsaved[j]]
    /\ raced' = IF \E i \in DOMAIN queue : RestoresDraft(queue[i])
                THEN raced \cup {k} ELSE raced \ {k}
    /\ edits' = edits + 1
    /\ UNCHANGED <<doc, rev, form, snapshot, saving, undo, reads, regressed, queue, clicks, foreign>>

\* submit: the write leaves with the form's revision as its fence, and its
\* handler keeps the draft and the snapshot of the click.
Submit(op, value, unset, keys, meant, extra) ==
    /\ clicks < MaxClicks /\ clicks' = clicks + 1
    /\ saving' = TRUE
    /\ queue' = Append(queue,
          [op |-> op, value |-> value, unset |-> unset, keys |-> keys, meant |-> meant,
           expected |-> form.revision, draft |-> draft, snapshot |-> snapshot,
           before |-> extra, behind |-> regressed, answer |-> "queued"])
    /\ UNCHANGED <<doc, rev, form, snapshot, reads, regressed, edits, foreign>>

Forget(keys) == unsaved' = Restrict(unsaved, DOMAIN unsaved \ keys) /\ raced' = raced \ keys

SaveCard(c) ==
    /\ Rendered /\ ~saving /\ Dirty(c)
    /\ Submit("save", SliceValueOf(CardKeys[c]), {}, CardKeys[c], Pick(CardKeys[c], draft), NoOffers)
    /\ UNCHANGED <<draft, undo, unsaved, raced>>

\* instantSaveKeys: a capsule that saves on change; not disabled while saving.
Toggle(k, v) ==
    LET patch == [j \in {k} |-> v] IN
    /\ Rendered /\ draft[k] # v
    /\ draft' = Overlay(draft, patch)
    /\ Submit("toggle", SliceWithKeys(patch), {}, {}, patch, NoOffers)
    /\ UNCHANGED <<undo, unsaved, raced>>

\* resetReviewerCard: factory reset of the model card, saved at once.
ResetReviewer ==
    LET reset == [k \in CardKeys[ReviewCard] |-> Base] IN
    /\ Rendered /\ ~saving
    /\ draft' = Overlay(draft, reset)
    /\ Submit("resetReview", SliceWithKeys(reset), Optional, {}, reset, NoOffers)
    /\ Forget(DOMAIN reset) /\ UNCHANGED undo

\* restoreTopDefaults.
RestoreTop ==
    LET reset == [k \in TopKeys |-> Base] IN
    /\ Rendered /\ ~saving
    /\ draft' = Overlay(draft, reset)
    /\ Submit("restore", SliceWithKeys(reset), {}, {}, reset, NoOffers)
    /\ UNCHANGED <<undo, unsaved, raced>>

\* importLegacySettings; a pending undo replaces the offer.
ImportLegacy ==
    /\ Rendered /\ ~saving /\ undo = NoUndo /\ DOMAIN snapshot.offers # {}
    /\ Submit("import", snapshot.offers, {}, DOMAIN snapshot.offers, snapshot.offers,
              Restrict(snapshot.value, DOMAIN snapshot.offers))
    /\ UNCHANGED <<draft, undo, unsaved, raced>>

\* undoLegacyImport: the section carries every key here, so each goes back to
\* the value it had.
UndoLegacy ==
    /\ Rendered /\ ~saving /\ undo # NoUndo
    /\ Submit("undo", undo, {}, {}, undo, NoOffers)
    /\ UNCHANGED <<draft, undo, unsaved, raced>>

\* clearInvalidKeys; with nothing of the page's own to clear, nothing is sent.
ClearInvalid ==
    /\ Rendered /\ ~saving /\ InvalidKeys \cap Editable # {}
    /\ Submit("clear", NoOffers, InvalidKeys, {}, [k \in InvalidKeys |-> Base], NoOffers)
    /\ UNCHANGED <<draft, undo, unsaved, raced>>

\* discardCard, and the reset of a card that is saved later (resetCard,
\* resetTimerCard): the draft alone.
Revise(keys, d) ==
    /\ Rendered /\ ~saving /\ clicks < MaxClicks
    /\ draft' = Overlay(draft, Pick(keys, d)) /\ Forget(keys)
    /\ clicks' = clicks + 1
    /\ UNCHANGED <<doc, rev, form, snapshot, saving, undo, reads, regressed, queue, edits, foreign>>

Discard(c) == Rendered /\ Dirty(c) /\ Revise(CardKeys[c], DraftOf(snapshot.value))

ResetCard(c) == c # ReviewCard /\ Revise(CardKeys[c] \ KeptByReset, [k \in Keys |-> Base])

-----------------------------------------------------------------------------
\* The host's answer reaches the handler that waits for it.

\* adoptWrite: the clicked snapshot with the written values over it.
Merged(w) == Overlay(w.snapshot.value, w.value)

Adopt(w, offers) ==
    /\ snapshot' = [w.snapshot EXCEPT !.value = Merged(w), !.offers = offers]
    /\ regressed' = \/ w.behind
                    \/ form.revision > w.expected + 1
                    \/ form.revision > w.expected /\ UnsetOps(w) # {}

Keeps == UNCHANGED <<draft, unsaved, raced>>

\* Faulty variant: the whole draft is refreshed from what was written.
SavedDraftWhole(w) == DraftOf(Merged(w))

SavedDraft(w) == Overlay(w.draft, Pick(w.keys, DraftOf(Merged(w))))

Landed == queue' = Tail(queue) /\ UNCHANGED <<doc, rev, form, clicks, edits, foreign>>

SaveLands(w) ==
    /\ w.op = "save"
    /\ Adopt(w, w.snapshot.offers) /\ draft' = SavedDraft(w) /\ Forget(w.keys)
    /\ reads' = Ask("sync") /\ saving' = FALSE /\ UNCHANGED undo

ToggleLands(w) ==
    /\ w.op = "toggle"
    /\ Adopt(w, w.snapshot.offers) /\ Keeps
    /\ reads' = Ask("sync") /\ saving' = FALSE /\ UNCHANGED undo

\* The buttons stay off until the credential store has answered too.
ResetReviewLands(w) ==
    /\ w.op = "resetReview"
    /\ Adopt(w, w.snapshot.offers) /\ Keeps
    /\ reads' = Append(Ask("sync"), [kind |-> "forget", answer |-> NoAnswer])
    /\ UNCHANGED <<saving, undo>>

\* restoreTopDefaults replaces the whole draft, the cards' unsaved edits too.
RestoreLands(w) ==
    /\ w.op = "restore"
    /\ Adopt(w, w.snapshot.offers)
    /\ draft' = DraftOf(Merged(w)) /\ unsaved' = NoOffers /\ raced' = {}
    /\ reads' = Ask("sync") /\ saving' = FALSE /\ UNCHANGED undo

ImportLands(w) ==
    /\ w.op = "import"
    /\ Adopt(w, NoOffers) /\ draft' = SavedDraft(w) /\ Forget(w.keys)
    /\ undo' = w.before
    /\ reads' = Ask("sync") /\ saving' = FALSE

UndoLands(w) ==
    /\ w.op = "undo"
    /\ undo' = NoUndo /\ reads' = Ask("undo")
    /\ Keeps /\ UNCHANGED <<snapshot, regressed, saving>>

ClearLands(w) ==
    /\ w.op = "clear"
    /\ reads' = Ask("sync") /\ saving' = FALSE
    /\ Keeps /\ UNCHANGED <<snapshot, regressed, undo>>

Lands ==
    /\ queue # <<>> /\ Head(queue).answer = "accepted" /\ Landed
    /\ LET w == Head(queue) IN
       \/ SaveLands(w) \/ ToggleLands(w) \/ ResetReviewLands(w) \/ RestoreLands(w)
       \/ ImportLands(w) \/ UndoLands(w) \/ ClearLands(w)

\* Every channel but the two of the import re-reads the section after a
\* refusal; a toggle also puts back the draft it was clicked with.
Refused ==
    /\ queue # <<>> /\ Head(queue).answer = "refused" /\ Landed
    /\ LET w == Head(queue) IN
       /\ reads' = IF w.op \in {"import", "undo"} THEN reads ELSE Ask("sync")
       /\ draft' = IF w.op = "toggle" THEN w.draft ELSE draft
    /\ saving' = FALSE
    /\ UNCHANGED <<snapshot, undo, unsaved, raced, regressed>>

-----------------------------------------------------------------------------
CardNext ==
    \/ \E k \in Keys, v \in Foreign : ForeignWrite(k, v)
    \/ \E i \in DOMAIN queue : HostTakes(i)
    \/ \E i \in DOMAIN reads : \/ HostServes(i) \/ ReadArrives(i) \/ ReadFails(i)
                               \/ CredentialAnswers(i)
    \/ FormArrives \/ FormLeaves
    \/ \E k \in Editable, v \in Typed : Edit(k, v)
    \/ \E k \in TopKeys, v \in Typed : Toggle(k, v)
    \/ \E c \in Cards : SaveCard(c) \/ Discard(c) \/ ResetCard(c)
    \/ ResetReviewer \/ RestoreTop \/ ImportLegacy \/ UndoLegacy \/ ClearInvalid
    \/ Lands \/ Refused

CardSpec == CardInit /\ [][CardNext]_cardVars

-----------------------------------------------------------------------------
\* The host accepts write w now.
Accepted(w) == \E i \in DOMAIN queue : /\ queue[i] = w /\ w.answer = "queued"
                                       /\ rev' # rev /\ Len(queue') = Len(queue)
                                       /\ queue'[i].answer = "accepted"

\* What w does to a key is what its user asked for on this page, or the
\* repair of an invalid value of a key the page owns.
OwnChange(w, k) ==
    \/ doc'[k] = doc[k]
    \/ k \in DOMAIN w.meant /\ doc'[k] = w.meant[k]
    \/ k \in Editable /\ doc[k] = Invalid /\ doc'[k] = Base

\* An accepted save makes only changes of its own: no unsaved edit of another
\* card travels with it (sliceValueOf), no host-only key is touched
\* (buildMutateOps), and another writer's change survives it (the fence of
\* submit).  The exception is a save clicked while the snapshot was behind the
\* form, after a late route answer or after adoptWrite put back the snapshot
\* of an earlier click.
SavesAreOwn ==
    [][\A w \in ToSet(queue) : Accepted(w) => w.behind \/ \A k \in Keys : OwnChange(w, k)]_cardVars

\* What the user has entered in a card stays in its control until that card
\* is saved, discarded or reset, whatever the other cards and toggles do and
\* whatever arrives meanwhile (saveCard: "unsaved edits held in other cards'
\* local drafts are preserved").  Entered while a write was out, it may be
\* put back; restoreTopDefaults and the undo of an import clear it.
EditsSurvive ==
    \A k \in DOMAIN unsaved \ raced : draft[k] = unsaved[k]

\* Violated (ClaimSettingsCard.cfg): saveCard's comment makes no exception
\* for what is typed while the save is out.
EditsSurviveASave ==
    \A k \in DOMAIN unsaved : draft[k] = unsaved[k]

\* Violated (ClaimSettingsCard.cfg): "each save overlays its own card's keys
\* on the fresh baseline anyway" (refreshSnapshot), yet one clicked on a
\* snapshot behind the form writes the older values of every other key.
SavesAreAlwaysOwn ==
    [][\A w \in ToSet(queue) : Accepted(w) => \A k \in Keys : OwnChange(w, k)]_cardVars
=============================================================================

------------------------------ MODULE Sessions -------------------------------
\* The sessions of the host as the plugin follows them: the migration of the
\* retired preset, the restore of the plugin's own spec, the record of the
\* user's permission switches, the review modes, and what the end of a session
\* drops (src/src/auto/preset-migration.ts, permission-change.ts, review-mode.ts
\* and the lifecycle listeners and commands of src/src/index.ts). The loop
\* guard's table is that of the session Looper.
\*
\* A session's permission state has three planes. The host changes a plane only
\* by appending an event, which the plugin's listener sees at once; the plugin
\* itself appends from its lifecycle hooks and from a timer of zero delay.
\*
\* Bounds: Budgets gives the operations of each kind a behaviour may hold.
EXTENDS SettingsPlane, LoopGuard

CONSTANTS Ids,         \* sessions
          Looper,      \* the one whose gated calls are followed
          Pins,        \* what the host pins on a fresh session
          Restored,    \* the states a session may come back with
          Capability,  \* hostCapability: "modern" or "unknown"
          BasePolicy,  \* approval.config.policy
          Budgets

VARIABLES
    up,         \* the plugin is loaded
    live,       \* the sessions that are live
    state,      \* permissionState: session -> planes, "null" where unset
    baseline,   \* permissionBaselines
    timers,     \* specRestoreTimers, per session
    modes,      \* reviewModes
    modeFile,   \* review-mode.json
    recorded,   \* permission-change lines the plugin wrote
    moved,      \* history variable: planes with a value that users moved
    failed,     \* history variable: live sessions whose last restore failed, audited
    unsaved,    \* history variable: the last write of the mode file failed
    left

sessionVars == <<up, live, state, baseline, timers, modes, modeFile, recorded, moved, failed, unsaved, left>>
allVars == <<sessionVars, settingsVars, vars>>

Planes == {"preset", "sandbox", "policy"}
Unset == [p \in Planes |-> "null"]
Planed(preset, sandbox, policy) ==
    [p \in Planes |-> IF p = "preset" THEN preset ELSE IF p = "sandbox" THEN sandbox ELSE policy]
Gated == Planed("auto-approval", "danger-full-access", "ask")
Presets == {Gated, Planed("full", "danger-full-access", "never"), Planed("default", "workspace-write", "ask")}

\* A permission state gives every plane a value.
ASSUME SessionsAssumption == \A st \in Pins \cup Restored : st = [p \in Planes |-> st[p]]

Spend(op) == left[op] > 0 /\ left' = [left EXCEPT ![op] = @ - 1]
\* An append to a session may throw; the failures are charged to the budget.
MayFail == {TRUE} \cup (IF left["fault"] > 0 THEN {FALSE} ELSE {})
Charge(ok) == IF ok THEN left ELSE [left EXCEPT !["fault"] = @ - 1]

EffectiveNever(st) == st["policy"] = "never" \/ (st["policy"] = "null" /\ BasePolicy = "never")
IsGated(st) == st["preset"] = "auto-approval"

--------------------------------------------------------------------------------
\* The migration, on a permission state: only the exact signature is renamed, and
\* nothing but its name changes. One that fails to resolve or to append leaves the
\* state as it was, and on a "modern" host the degradation that follows
\* finds a session that upstream covers; one that fails its verification has
\* renamed already.
Migratable(st) == st = Planed("auto", "danger-full-access", "ask")
RunPresetMigration(st, ok) ==
    IF Capability = "modern" /\ Migratable(st) /\ ok
    THEN [st EXCEPT !["preset"] = "auto-approval"] ELSE st

EnforceOwnSpec(st, ok) ==
    IF IsGated(st) /\ EffectiveNever(st) /\ ok THEN [st EXCEPT !["policy"] = "ask"] ELSE st

\* The lifecycle entry point: migrate, then restore the own spec. No state needs
\* both, so one append may fail.
RestoreFails(st, ok) == IsGated(st) /\ EffectiveNever(st) /\ ~ok
Lifecycle(st, ok) == EnforceOwnSpec(RunPresetMigration(st, ok), ok)
LifecycleFails(st, ok) == RestoreFails(RunPresetMigration(st, ok), ok)

\* What the listener makes of the planes that changed.
Changed(before, after) == {p \in Planes : after[p] # before[p]}
Folded(s, after, planes) == [p \in Planes |-> IF p \in planes THEN after[p] ELSE baseline[s][p]]

\* Faulty variant: the plugin's own appends count as switches.
RecordsAnyMove(s, after, planes, own) ==
    {p \in planes : baseline[s][p] # "null" /\ baseline[s][p] # after[p]}
RecordsOf(s, after, planes, own) ==
    {p \in planes : ~own /\ baseline[s][p] # "null" /\ baseline[s][p] # after[p]}

\* The timer is armed by any event that sets the policy to never, whoever sent it.
\* Faulty variant: only by one that is recorded as a user's switch.
ArmsOnRecord(s, after, planes, own) ==
    after["policy"] = "never" /\ "policy" \in RecordsOf(s, after, planes, own)
Arms(s, after, planes, own) == "policy" \in planes /\ after["policy"] = "never"

\* The planes of s go from their state to "after", one event each.
Publish(s, after, own) ==
    LET planes == Changed(state[s], after) IN
    /\ state' = [state EXCEPT ![s] = after]
    /\ IF up
         THEN /\ baseline' = [baseline EXCEPT ![s] = Folded(s, after, planes)]
              /\ recorded' = recorded + Cardinality(RecordsOf(s, after, planes, own))
              /\ timers' = [timers EXCEPT ![s] = IF Arms(s, after, planes, own) THEN @ + 1 ELSE @]
         ELSE UNCHANGED <<baseline, recorded, timers>>

--------------------------------------------------------------------------------
\* A session appears: fresh, pinned by the host between the plugin's prepended
\* migration and its baseline listener; or back from disk with a state of its own.
SessionCreated(s) ==
    /\ s \notin live /\ Spend("create")
    /\ live' = live \cup {s}
    /\ \E pin \in Pins :
         /\ state' = [state EXCEPT ![s] = pin]
         /\ baseline' = [baseline EXCEPT ![s] = IF up THEN pin ELSE Unset]
         /\ timers' = [timers EXCEPT ![s] = IF up /\ Arms(s, pin, Changed(Unset, pin), FALSE) THEN @ + 1 ELSE @]
         /\ recorded' = recorded +
              (IF up THEN Cardinality(RecordsOf(s, pin, Changed(Unset, pin), FALSE)) ELSE 0)
    /\ UNCHANGED <<up, modes, modeFile, moved, failed, unsaved>>
SessionRestored(s) ==
    /\ s \notin live /\ left["create"] > 0
    /\ live' = live \cup {s}
    /\ \E st \in Restored, ok \in IF up THEN MayFail ELSE {TRUE} :
         /\ state' = [state EXCEPT ![s] = IF up THEN Lifecycle(st, ok) ELSE st]
         /\ baseline' = [baseline EXCEPT ![s] = IF up THEN Lifecycle(st, ok) ELSE Unset]
         /\ failed' = IF LifecycleFails(st, ok) THEN failed \cup {s} ELSE failed
         /\ left' = [Charge(ok) EXCEPT !["create"] = @ - 1]
    /\ UNCHANGED <<up, timers, modes, modeFile, recorded, moved, unsaved>>

\* agent/created, any time later.
AgentCreated(s) ==
    /\ up /\ s \in live /\ left["agent"] > 0
    /\ \E ok \in MayFail :
         /\ Publish(s, Lifecycle(state[s], ok), TRUE)
         /\ failed' = IF LifecycleFails(state[s], ok) THEN failed \cup {s} ELSE failed
         /\ left' = [Charge(ok) EXCEPT !["agent"] = @ - 1]
    /\ UNCHANGED <<up, live, modes, modeFile, moved, unsaved>>

\* A user picks a preset, or overrides the approval policy alone. The host
\* appends only the planes that change.
UserSwitches(s, target) ==
    /\ s \in live /\ target # state[s] /\ Spend("switch")
    /\ Publish(s, target, FALSE)
    /\ moved' = moved + (IF up THEN Cardinality({p \in Changed(state[s], target) : state[s][p] # "null"}) ELSE 0)
    /\ failed' = failed \ {s}
    /\ UNCHANGED <<up, live, modes, modeFile, unsaved>>
UserSwitch(s) ==
    \/ \E target \in Presets : UserSwitches(s, target)
    \/ \E policy \in {"ask", "never"} : UserSwitches(s, [state[s] EXCEPT !["policy"] = policy])

\* The restore timer, one tick after the event: the state is read again.
RestoreTimer(s) ==
    /\ up /\ timers[s] > 0
    /\ \E ok \in IF s \in live THEN MayFail ELSE {FALSE} :
         LET after == EnforceOwnSpec(state[s], ok)
             planes == Changed(state[s], after) IN
         /\ state' = [state EXCEPT ![s] = after]
         /\ baseline' = [baseline EXCEPT ![s] = Folded(s, after, planes)]
         /\ recorded' = recorded + Cardinality(RecordsOf(s, after, planes, TRUE))
         /\ timers' = [timers EXCEPT ![s] = @ - 1]
         /\ failed' = IF RestoreFails(state[s], ok) THEN failed \cup {s} ELSE failed
         /\ left' = IF s \in live THEN Charge(ok) ELSE left
    /\ UNCHANGED <<up, live, modes, modeFile, moved, unsaved>>

--------------------------------------------------------------------------------
\* The review modes: smart is the absence of an entry, and every change writes
\* the file whole.
NoModes == [s \in {} |-> "manual"]
WriteModes(m, ok) ==
    /\ modes' = m
    /\ modeFile' = IF ok THEN m ELSE modeFile
    /\ unsaved' = ~ok
SetReviewMode(s, mode) ==
    /\ up /\ s \in live /\ left["mode"] > 0
    /\ \E ok \in MayFail :
         /\ WriteModes([x \in (DOMAIN modes \cup {s}) \ (IF mode = "smart" THEN {s} ELSE {}) |->
                          IF x = s THEN mode ELSE modes[x]], ok)
         /\ left' = [Charge(ok) EXCEPT !["mode"] = @ - 1]
    /\ UNCHANGED <<up, live, state, baseline, timers, recorded, moved, failed>>

\* Faulty variant: the mode is dropped from memory only.
DropModeInMemory(s, ok) ==
    modes' = [x \in DOMAIN modes \ {s} |-> modes[x]] /\ UNCHANGED <<modeFile, unsaved>>
DropMode(s, ok) ==
    IF s \in DOMAIN modes THEN WriteModes([x \in DOMAIN modes \ {s} |-> modes[x]], ok)
    ELSE UNCHANGED <<modes, modeFile, unsaved>>

\* session/disposed: its baseline, its mode and the state kept under its id go;
\* its restore timers stay armed.
SessionDisposed(s) ==
    /\ s \in live /\ left["dispose"] > 0
    /\ live' = live \ {s}
    /\ state' = [state EXCEPT ![s] = Unset]
    /\ IF up
         THEN \E ok \in MayFail :
                /\ baseline' = [baseline EXCEPT ![s] = Unset]
                /\ DropMode(s, ok)
                /\ left' = [Charge(ok) EXCEPT !["dispose"] = @ - 1]
         ELSE /\ left' = [left EXCEPT !["dispose"] = @ - 1]
              /\ UNCHANGED <<baseline, modes, modeFile, unsaved>>
    /\ IF up /\ s = Looper THEN Dispose ELSE UNCHANGED vars
    /\ failed' = failed \ {s}
    /\ UNCHANGED <<up, timers, recorded, moved>>

--------------------------------------------------------------------------------
\* The plugin stops, its memory with it, and starts again with the startup scan:
\* every live session is migrated and restored before its baseline is taken, and
\* what breaks for one of them does not keep the scan from the next.
PluginStops ==
    /\ up /\ Spend("restart") /\ up' = FALSE
    /\ baseline' = [s \in Ids |-> Unset] /\ timers' = [s \in Ids |-> 0]
    /\ modes' = NoModes
    /\ Dispose
    /\ UNCHANGED <<live, state, modeFile, recorded, moved, failed, unsaved>>
PluginStarts ==
    /\ ~up /\ up' = TRUE
    /\ \E broken \in SUBSET live :
         /\ Cardinality(broken) <= left["fault"]
         /\ left' = [left EXCEPT !["fault"] = @ - Cardinality(broken)]
         /\ state' = [s \in Ids |-> IF s \in live THEN Lifecycle(state[s], s \notin broken) ELSE state[s]]
         /\ baseline' = [s \in Ids |-> IF s \in live THEN Lifecycle(state[s], s \notin broken) ELSE Unset]
         /\ failed' = failed \cup {s \in broken : LifecycleFails(state[s], FALSE)}
    /\ modes' = modeFile /\ unsaved' = FALSE
    /\ UNCHANGED <<live, timers, modeFile, recorded, moved>>

GatedCall(key) == up /\ Looper \in live /\ Spend("call") /\ RecordLoopCall(key)
                  /\ UNCHANGED <<up, live, state, baseline, timers, modes, modeFile, recorded, moved, failed, unsaved>>

SessionsInit ==
    /\ up = TRUE /\ live = {} /\ modes = NoModes /\ modeFile = NoModes
    /\ state = [s \in Ids |-> Unset] /\ baseline = [s \in Ids |-> Unset]
    /\ timers = [s \in Ids |-> 0] /\ recorded = 0 /\ moved = 0 /\ failed = {} /\ unsaved = FALSE
    /\ left \in Budgets
    /\ Init /\ SettingsInit

Lifecycles ==
    /\ \E s \in Ids :
         SessionCreated(s) \/ SessionRestored(s) \/ AgentCreated(s) \/ UserSwitch(s) \/ RestoreTimer(s)
         \/ \E mode \in {"manual", "smart", "unattended"} : SetReviewMode(s, mode)
    /\ UNCHANGED vars
Settings ==
    /\ \/ left["reads"] > 0 /\ (Apply \/ RetryFires \/ DocumentUpdated) /\ UNCHANGED left
       \/ /\ Spend("settings")
          /\ \/ DisposePlugin \/ HostActivates \/ HostLeaves
             \/ \E row \in Rows \cup {Unreadable} : HostStores(row)
       \/ /\ Spend("import")
          /\ \/ \E document \in Documents : Import(document)
             \/ \E k \in ImportKeys, v \in 0..1 : EditKey(k, v)
    /\ UNCHANGED <<up, live, state, baseline, timers, modes, modeFile, recorded, moved, failed, unsaved, vars>>

SessionsNext ==
    \/ /\ \/ Lifecycles \/ PluginStops
          \/ PluginStarts /\ UNCHANGED vars
          \/ \E s \in Ids : SessionDisposed(s)
          \/ \E key \in Keys : GatedCall(key)
       /\ UNCHANGED settingsVars
    \/ Settings

\* Zero-delay and retry timers fire, signals arrive; nothing else is promised.
SessionsSpec ==
    /\ SessionsInit /\ [][SessionsNext]_allVars
    /\ \A s \in Ids : WF_allVars(RestoreTimer(s) /\ UNCHANGED <<vars, settingsVars>>)
    /\ WF_allVars(Settings /\ RetryFires) /\ WF_allVars(Settings /\ DocumentUpdated)

--------------------------------------------------------------------------------
\* The audit holds one user switch for every plane with a value that a user moved
\* while the plugin watched, and none for a pin, a restored state, a migration or
\* a restore of the plugin's own (permission-change.ts:16-29).
SwitchesAreUsers == recorded = moved

\* A gated session does not stay under a policy that never asks: the policy is
\* restored, or the audit says that it could not be, or the session or plugin
\* ended (preset-migration.ts enforceOwnSpec and the deferred timer).
SilentNeverAnswered ==
    \A s \in Ids :
      up /\ s \in live /\ IsGated(state[s]) /\ EffectiveNever(state[s])
        ~> ~up \/ s \notin live \/ s \in failed \/ ~(IsGated(state[s]) /\ EffectiveNever(state[s]))

\* Unless its last write failed, the mode file holds what memory holds, through
\* commands, disposals and restarts (review-mode.ts, index.ts:1871-1953).
ModesOnDisk == up /\ ~unsaved => modeFile = modes
=============================================================================

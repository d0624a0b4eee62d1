---------------------------- MODULE SettingsPlane ----------------------------
\* How the plugin comes by its configuration: the row the host stores for it,
\* read at boot, on the host's signal and by a bounded series of retries, and
\* normalized on every path (src/src/index.ts apply(), config-normalize.ts); and
\* the offer to import the retired settings document (route-installers.ts).
\*
\* The host shows the row only while the plugin's fiber is ACTIVE, which it
\* becomes only after apply() has returned, so the first read usually sees
\* nothing; an empty answer later means the fiber is leaving, never that the
\* operator cleared the settings.
\*
\* Bounds: MaxAttempts stands for SETTINGS_FIRST_READ_MAX_ATTEMPTS; Rows and
\* Documents are the stored rows and retired documents TLC explores.
EXTENDS Naturals, FiniteSets

CONSTANTS MaxAttempts,
          Rows,        \* raw rows an operator may store
          Documents    \* retired documents: partial functions from keys to values

ASSUME SettingsAssumption == MaxAttempts \in Nat

VARIABLES
    plugin,     \* apply() has run and the plugin was not disposed of
    active,     \* the host: the fiber is ACTIVE, its row visible
    stored,     \* the host: the row, or Unreadable when it fails the schema
    signal,     \* settings/document-updated is on its way
    config,     \* the running configuration
    loaded,     \* storedConfigLoaded
    attempts, timer,   \* the retries spent and whether one is armed
    error,      \* configError
    declared    \* the host: the card-owned keys the entry declares

settingsVars == <<plugin, active, stored, signal, config, loaded, attempts, timer, error, declared>>

--------------------------------------------------------------------------------
\* Normalization. A row gives each category a policy, unlocks some locked ones,
\* and opens directories, told apart by why a directory may be refused.
Categories == {"delete", "privilege", "protected", "network"}
Locked == Categories \ {"network"}
TimeoutActions == {"reject", "allow", "low-risk-allow"}
Unreadable == [timeout |-> "unreadable"]
Invalid == [timeout |-> "invalid"]
Base == [timeout |-> "reject", policy |-> [c \in {} |-> "ask"], unlocked |-> {},
         trusted |-> {}, openings |-> {}, maintenance |-> {}, threshold |-> 3]

\* Unknown keys and values are dropped; a locked category accepts only "ask"
\* unless its own switch is on.
ClampPolicy(raw) ==
    [c \in {c \in DOMAIN raw.policy \cap Categories :
              /\ raw.policy[c] \in {"auto", "ask", "deny"}
              /\ (c \in Locked /\ raw.policy[c] # "ask") => c \in raw.unlocked \cap {"privilege", "protected"}}
       |-> raw.policy[c]]

ClampThreshold(n) == IF n < 2 THEN 2 ELSE IF n > 10 THEN 10 ELSE n

\* The retired value means what the LOW branch did under it: reject.
TimeoutActionOf(raw) == IF raw.timeout \in TimeoutActions THEN raw.timeout ELSE "reject"

TrustedDirs(raw)      == raw.trusted \ {"relative", "credential tree", "home", "critical"}
DshSubpaths(raw)      == raw.openings \ {"relative", "outside", "root", "fenced", "critical"}
MaintenancePaths(raw) == raw.maintenance \ {"relative", "outside", "root", "fenced"}

ResolveConfig(raw) ==
    IF raw.timeout \notin TimeoutActions \cup {"llm-low-risk-only"} THEN Invalid
    ELSE [timeout |-> TimeoutActionOf(raw), policy |-> ClampPolicy(raw), unlocked |-> raw.unlocked,
          trusted |-> TrustedDirs(raw), openings |-> DshSubpaths(raw),
          maintenance |-> MaintenancePaths(raw), threshold |-> ClampThreshold(raw.threshold)]

--------------------------------------------------------------------------------
\* Reading the row: nothing while the fiber is not ACTIVE, and nothing but an
\* error while describe() throws.
Visible == active /\ stored # Unreadable
Readable == Visible /\ ResolveConfig(stored) # Invalid

\* A retry is armed unless the row was read, one is armed, or none is left.
\* Faulty variant: the last retry ends without a word.
GiveUpSilently(armed, spent, err) ==
    IF armed \/ spent >= MaxAttempts
    THEN timer' = armed /\ attempts' = spent /\ error' = err
    ELSE timer' = TRUE /\ attempts' = spent + 1 /\ error' = err
ScheduleRetry(armed, spent, err) ==
    IF armed THEN timer' = TRUE /\ attempts' = spent /\ error' = err
    ELSE IF spent >= MaxAttempts THEN timer' = FALSE /\ attempts' = spent /\ error' = "unavailable"
    ELSE timer' = TRUE /\ attempts' = spent + 1 /\ error' = err

ReadError == IF active /\ stored = Unreadable THEN "unreadable"
             ELSE IF Visible THEN "invalid" ELSE error

\* applyHostConfig, and the retry that follows a failure.
ApplyHostConfig(armed, spent) ==
    IF Readable
    THEN /\ config' = ResolveConfig(stored) /\ loaded' = TRUE
         /\ error' = "none" /\ timer' = FALSE /\ attempts' = spent
    ELSE /\ UNCHANGED <<config, loaded>>
         /\ IF loaded THEN timer' = armed /\ attempts' = spent /\ error' = ReadError
            ELSE ScheduleRetry(armed, spent, ReadError)

\* apply(): the first read. What describe() reports is cleared again here, and
\* comes back with the first retry.
Apply ==
    /\ ~plugin /\ plugin' = TRUE
    /\ config' = IF Readable THEN ResolveConfig(stored) ELSE Base
    /\ loaded' = Readable
    /\ IF Readable THEN attempts' = 0 /\ timer' = FALSE /\ error' = "none"
       ELSE ScheduleRetry(FALSE, 0, IF Visible THEN "invalid" ELSE "none")
    /\ UNCHANGED <<active, stored, signal, declared>>

RetryFires ==
    /\ plugin /\ timer
    /\ ApplyHostConfig(FALSE, attempts)
    /\ UNCHANGED <<plugin, active, stored, signal, declared>>

\* settings/document-updated: fresh evidence, so a spent series starts over.
DocumentUpdated ==
    /\ plugin /\ signal /\ signal' = FALSE
    /\ ApplyHostConfig(timer, 0)
    /\ UNCHANGED <<plugin, active, stored, declared>>

\* The plugin is disposed of: no retry outlives it.
DisposePlugin ==
    /\ plugin /\ plugin' = FALSE
    /\ timer' = FALSE /\ signal' = FALSE
    /\ UNCHANGED <<active, stored, config, loaded, attempts, error, declared>>

\* The host. The fiber turns ACTIVE after apply() without a signal; storing a
\* row, and leaving ACTIVE, signal; a fiber that left does not come back itself.
HostActivates ==
    /\ plugin /\ ~active /\ ~loaded /\ active' = TRUE
    /\ UNCHANGED <<plugin, stored, signal, config, loaded, attempts, timer, error, declared>>
HostStores(row) ==
    /\ stored' = row /\ row # stored
    /\ signal' = plugin
    /\ UNCHANGED <<plugin, active, config, loaded, attempts, timer, error, declared>>
HostLeaves ==
    /\ plugin /\ active /\ active' = FALSE
    /\ signal' = TRUE
    /\ UNCHANGED <<plugin, stored, config, loaded, attempts, timer, error, declared>>

--------------------------------------------------------------------------------
\* The offer to import retired values: editable keys that are neither pinned by
\* the shipped layer nor host-owned, not declared at a value of their own, and
\* whose retired value differs from the effective one. Every default is 0.
ImportKeys == {"plain", "pinned", "hostOwned"}
Effective(k) == IF k \in DOMAIN declared THEN declared[k] ELSE 0
LegacyImportPlan(document) ==
    {k \in DOMAIN document \ {"pinned", "hostOwned"} :
       /\ k \in DOMAIN declared => declared[k] = 0
       /\ document[k] # Effective(k)}

\* The settings card writes what was offered.
Import(document) ==
    LET keys == LegacyImportPlan(document) IN
    /\ keys # {}
    /\ declared' = [k \in DOMAIN declared \cup keys |-> IF k \in keys THEN document[k] ELSE declared[k]]
    /\ UNCHANGED <<plugin, active, stored, signal, config, loaded, attempts, timer, error>>
EditKey(k, v) ==
    /\ declared' = [x \in DOMAIN declared \cup {k} |-> IF x = k THEN v ELSE declared[x]]
    /\ declared' # declared
    /\ UNCHANGED <<plugin, active, stored, signal, config, loaded, attempts, timer, error>>

SettingsInit ==
    /\ plugin = FALSE /\ signal = FALSE /\ loaded = FALSE /\ timer = FALSE
    /\ active \in BOOLEAN /\ stored \in Rows
    /\ config = Base /\ attempts = 0 /\ error = "none"
    /\ declared = [k \in {} |-> 0]

--------------------------------------------------------------------------------
\* With no error on display and no signal on its way, a plugin that has read its
\* row runs the normalized row the host stores now, whatever sequence of saves,
\* bad rows, retries and re-applies led there; and what it runs is a fixed point
\* of the normalization (index.ts: one live-config path, an empty describe() is
\* never a downgrade; config-normalize.ts: one normalization on every path).
SettingsHonest ==
    /\ plugin /\ loaded /\ active /\ ~signal /\ error = "none" => config = ResolveConfig(stored)
    /\ ResolveConfig(config) = config

\* A stored row the host shows is read in the end, or the settings card says that
\* it was not: the retries never run out without a word (index.ts:784-815).
FirstReadSettles ==
    plugin /\ active ~> loaded \/ error # "none" \/ ~plugin \/ ~active

\* The row is read, and what was read is what runs.
SettingsTakeForce == []SettingsHonest /\ FirstReadSettles
=============================================================================

# Verification of dsh-auto-approval-llm

TLA+ models, TLC configurations and machine-checked proofs for the approval
plugin in `src/`. The plugin answers the approval requests an agent's tool
calls raise: some from static rules, some by asking the user with a countdown
and, in parallel, an LLM reviewer that may take the decision over.

## 1. The system

| part | state it keeps | operations | talks to |
|---|---|---|---|
| approval answerer (`src/src/index.ts` 1868-3224, `auto/approval-state.ts`, `auto/feedback-maps.ts`) | per-call maps (`reviewStates`, `reviewSessions`, `followExpiry`, `reviewVerdicts`, `resolvedCallIds`, `autoAnsweredCallIds`, `timeoutFeedback`, `decisionFeedback`), per-session maps (`denials`, `totalDenials`, `sessionLearnedAllows`, `reviewModes`) | `approval/request`, `askHuman`, `learnAttempt`, `tools/post-execute`, `sweepFollowPhase`, `/approval-reset`, `/approval-reset-all`, `/approval-mode`, `session/disposed` | host approval chain, reviewer, audit, learning, browser |
| decision rules (`auto/decision.ts`, `auto/session-introspect.ts`) | none | source of a settlement, verdict table, fail-closed rules, breaker, follow status, countdown action | every lane |
| human race (`decision.ts` 121-177, panel gate `index.ts` 513-552) | one promise race, one timer, one held panel | settle, claim, abort, expire, release | host panel, reviewer |
| keyed mutex (`decision.ts` 1005-1052) | promise chain per key | `run` | counters, learning |
| confirmation learning (`auto/learning.ts`) | confirmations per signature, their age, `learning.json` and its fingerprint | lookup, confirm, reset, revoke, evict, tripwire | answerer, routes, disk |
| reviewer pipeline (`auto/retry.ts`, `review-pipeline.ts`, `endpoint-call.ts`, `model-channel.ts`, `trust.ts`) | attempts and a time budget | trust the route, attempt, read the reply, back off, abandon | model endpoint, host model |
| runtime stores (`auto/audit.ts`, `approval-history.ts`, `latency.ts`, `runtime-paths.ts`) | append-only files and the windows in memory they shadow | append, trim, replace, clear, load | disk |
| browser watcher (`client/approvals/*`) | pollers, answered keys, grace timers, display records and tombstones | poll, answer once, show, leave a session | routes, host panel |
| web routes (`auto/route-installers.ts`) | none of its own | feedback, review status, learning store, history, latency, settings | browser |
| tool-call planes (`index.ts` 1103-1700, 2375-2784; `auto/artifacts.ts`) | marks of calls the loop guard fired on, planned and created files per session | guard, pre-execute, classify, request, execute, result | host, static engine, loop guard, answerer |
| loop guard (`auto/loop-guard.ts`) | a bounded table of recent calls per root agent | record, dispose | tool-call planes |
| preset migration, permission observation (`auto/preset-migration.ts`, `permission-change.ts`, `review-mode.ts`) | baselines per session, restore timers, review modes and their file | migrate, restore, observe, record | host sessions |
| notices (`auto/notices.ts`) | queue per session and call, guidance window, last preset | queue, flush, drop, announce | agent |
| settings (`auto/config-normalize.ts`, `index.ts` 640-860) | the live configuration, the retries of its first read | read, retry, replace, refuse | host settings |
| settings page (`client/index.ts`, `client/row-config.ts`) | snapshot, draft, undo | save a card, toggle, reset, import, undo, re-read | settings route |
| static engine (`auto/shell.ts`, `policy.ts`, `category.ts`, `rules.ts`, `paths.ts`) | none | assess and categorize one call | tool-call planes, answerer |

What is hard about it: several parties answer one question (a click, the host
timer, the reviewer, a browser that answers by itself, a cancellation), each
may be late, and what they leave behind is read by others: by the polling
browser, by the next request of the session, by the agent, by the audit log.
Requests of one session run concurrently. File operations fail and processes
end between two of them. Commands, settings and sessions change under asks that
are open. Route answers come out of order. A command line is judged against a
directory the shell may have left. The list with line numbers is under `hazards`
in `PROJECT.json`.

What makes it correct, part by part:

* answerer: no allow takes effect without its audit line; what is recorded,
  published to the browser and told to the agent names the party that really
  decided; pinned and unattended asks fail closed; per-call state follows the
  ask and drains after it; the breaker and the learning layer move only for
  decisions that a human or the reviewer really took; every countdown ends.
* race: decided once, with an honest label, no timer left behind, always ends.
* notices: the agent hears of each call exactly what was queued for it.
* mutex: sections of a key exclude each other, run in order of arrival, all
  run, and the map of chains is pruned.
* tool calls: no call runs unaudited; what the operator forbids or reserves for
  a human stays so over two planes that read the settings separately; deletions,
  disk commands and secrets are never released by a name; a call that fired the
  loop guard meets a human; a session owns only the files it wrote.
* static engine: a line allowed without asking harms nothing wherever the shell
  is; what must never happen is refused from every directory the shell may be in.
* loop guard: fires on exactly the repetitions it promises, whatever its bounded
  table has forgotten.
* stores: what the audit acknowledged stays, a confirmed clear is final, a
  replacement loses nothing but the oldest records, stored confirmations are
  earned.
* reviewer: no attempt near the deadline, only transient failures are sent
  again, a failure is known before the countdown decides, a cancellation stops
  everything, and every review returns.
* browser: the tab repeats the host's decision, or the one the countdown announced
  where the host no longer tells; a settled ask does not light up again, a settled
  panel closes.
* sessions and settings: the plugin's own switches are not taken for the user's,
  review modes survive, a settings row takes force or its absence is shown.
* settings page: a save writes what its card owns, edits of other cards stay.

## 2. Modules

    ApprovalDecisions          pure rules
      Answerer                 the answerer, one action per macrotask
        AnswererProperties     what it must get right
          AnswererClaims       documented statements the code does not keep
            MCAnswerer         instances for TLC
          AnswererProofs       types, counters, safety      (TLAPS)
    OneShotDecision            what a race promises
      HumanRace                raceHumanDecision and the panel gate, per promise job
        AskNotices             the notices of the raced call and of its step
          DecisionProofs       race, notices, mutex         (TLAPS)
    FifoLock                   what the mutex promises
      KeyedMutex               createKeyedMutex
    MCProgress                 MCAnswerer and KeyedMutex, for liveness
    ReviewEndpoint             transports, trust and replies, as operators
      ReviewChannel            one review beside its countdown, in time
        ReviewChannelProofs    its safety                   (TLAPS)
    PolicyRules                static policy of one call
    DeclaredRules              the operator's rule texts
      ToolCalls                both planes, execution, provenance; uses LoopGuard
        MCToolCalls            instance for TLC
        ToolCallsProofs        what may run                 (TLAPS)
    ShellPolicy                one segment of a command line
      ShellLine                a line, its programs and the shell that runs it
        MCShellLine            instance for TLC
        ShellProofs            what a verdict is worth      (TLAPS)
    StreakGuard                what the loop guard promises
      LoopGuard                the bounded table of recent calls
    SettingsPlane              how the configuration is read
      Sessions                 presets, modes and tables of sessions; uses LoopGuard
        MCSessions             instance for TLC
        SessionsProofs         loop table, switches, silence, modes  (TLAPS)
    RuntimeStores              the runtime files, with crashes
      ConfirmationStore        the learning store beside them
        MCRuntimeStores        instance for TLC
        StoresProofs           files, counts, allowance     (TLAPS)
    ApprovalStore              the display records of a tab
      Browser                  one tab, its pollers and the host
        ClientProofs           the tab and the page         (TLAPS)
    SettingsCard               the settings page and the section it edits
      MCSettingsCard           instance for TLC

### ApprovalDecisions

The rules of `decision.ts` and `session-introspect.ts`. A reviewer's answer is
one of ALLOW, ALLOW-CRITICAL (an ALLOW that carries the CRITICAL risk level),
DENY, ESCALATE and FAILURE (an ESCALATE that stands for a reviewer that could
not answer): the rules tell apart nothing else of it.

### Answerer

Node runs one macrotask to completion and drains its microtasks before the
next. One action is one macrotask with every continuation it wakes: `Request`
is the handler up to `askHuman`'s first await (static lanes, the manual mode,
the breaker, the learning query, the LOW, MEDIUM and HIGH branches in their
order), `LearnReturns` the continuation of `learnAttempt`, `HumanAnswers`,
`TimerFires`, `ClientResponds`, `ReviewTakesOver` and `Abort` settle the race
and run `askHuman`'s whole tail (`Settle`: terminal status, source, audit line,
counters, learning, cleanup). `ReviewDiscarded`, `ReviewAdvises` and
`ReviewErrors` are the other ends of a review. A cancellation is the one
macrotask that wakes two continuations of an ask (it rejects the host approval
and aborts the reviewer's fetch); `Abort`, `ReviewTakesOver` with FAILURE and
`AbortAfterClaim` are its orders. That a single settlement has no other
observable order is what `HumanRace` checks at the grain of promise jobs.

| state | code |
|---|---|
| `pc`, `ask`, `reviewing`, `held` | the handler's continuation, `askHuman`'s arguments, the reviewer promise in flight, the panel gate |
| `reviewStates` ... `decisionFeedback` | the maps of `approval-state.ts`, by name |
| `denials`, `totalDenials`, `sessionLearnedAllows`, `reviewModes` | the maps of the same names |
| `learning` | confirmations of a signature |
| `audit` | the lines of a call that reached the log |
| `answering`, `posts` | a browser that decided to answer by itself; its feedback posts on the way |
| `result`, `said`, `wiped`, `posted`, `told` | history, read by properties only |

Inputs: the static verdict, the rule and list hits and the loop guard's verdict
are a free choice of lane; live settings are chosen anew at every read; every
audit write may fail; feedback posts are lost, late or sent by another page of
the same origin.

Simplified: every ask carries a callId; the age limits of the maps are "any
time later"; the size limits of the feedback maps are an expiry that may come
early; the mutex sections of a settlement are part of its step (`KeyedMutex`
shows that they behave as if they were).

### HumanRace, OneShotDecision and AskNotices

`raceHumanDecision` as a queue of promise jobs: every `then` hop, the race's own
hops, the claim, the abort, the timer and the held panel are events that enqueue
jobs. `OneShotDecision` says what the caller relies on: undecided, then decided
once by one party, then returned with a label that belongs to it.

`AskNotices` adds what the agent is told of the raced call and of another call
of its step: the queue per call, the greeting of the first call, guidance after
a refusal with its limit per minute, and the announcements of the gated
presets. The handlers of `tools/result`, `step/end` and `session/disposed` are
macrotasks, taken while no job is queued. Settings are on and the agent is one
that can be told, so the guards of the announcements (`autoModeNoticeEnabled`, a
session without an agent, notices.ts:282-285) always let them through; the cap on
remembered guidance is left out.

### KeyedMutex and FifoLock

`run` chains a section behind the tail of its key and prunes the chain when the
tail settled is its own. `FifoLock` is the abstract lock: a section waits for
those of its key that arrived earlier and have not ended. The section bodies
are the read-modify-write of a counter, split at the await. A section may
reject. `MCProgress` puts the mutex beside the answerer that runs its
settlements in it; they share no state, so a behaviour takes the steps of one.

### ReviewEndpoint and ReviewChannel

`ReviewChannel` is `reviewWithLLM` with `retryReviewLoop`, for the asks a
reviewer's failure settles at once (LOW, and MEDIUM in unattended mode), and the
ask itself reduced to how it ends. Time is a clock that may not pass a timer
that is due, so the order of timers is the one their lengths give; events due at
the same time come in any order.

| state | code |
|---|---|
| `budget`, `retries`, `async` | `budgetMs`, `maxRetries`, `asyncPath` of the call |
| `transport` | what the settings' lane resolves to: host model, raw endpoint, refused |
| `phase`, `due` | what the loop awaits and when its timer fires |
| `deadline`, `n`, `remaining`, `attempts` | the locals of `retryReviewLoop` |
| `cancelled` | the aborted `userSignal` |
| `verdict`, `ask` | what the review resolved to, who settled the ask |
| `throttled`, `started` | history: a Retry-After was waited for, when the snapshot was ready |

`ReviewEndpoint` says how an attempt can end: which lane the settings name and
whether it is complete, which addresses the trust fence lets through, what each
status, redirect, body and event stream of the four protocols is read as, which
of that is retried and which Retry-After is believed. Apart from the code that the
retry loop sees, each ending has a nature, for the properties: an answer, a failure
that passes (a broken connection, a busy provider, a blank text), a timeout, or a
final failure: refused by the provider, FENCED (the fence refuses the target) or
UNREADABLE (the body does not parse). The last two are what the code's comments call
configuration violations and malformed answers; the code throws them as plain errors
and cannot tell them from a broken connection (`Masked` in `ReviewChannel`). The set
`Endings` of each transport is computed from all this over all settings. An attempt
ends when its signal aborts; a provider that ignores the signal is not modelled.
The window ends at the loop's deadline, which starts after the credentials have
resolved, while the countdown started before: `FailureBeatsCountdown` states how
late they may be.

### LoopGuard and StreakGuard

`recordLoopCall`: a table from call keys to run lengths, in the order of their
last use, that forgets the oldest beyond `LOOP_GUARD_MAX_KEYS`, resets a run
that another call interrupted and starts anew where it fired. `StreakGuard`
remembers the current run only. The refinement says that the rest of the table
never matters. A key is abstracted from the hash of name and arguments to its
identity; `seq`, a counter that only grows, is kept as it is. `Sessions`
composes it with the session whose table it is.

### PolicyRules, DeclaredRules and ToolCalls

`PolicyRules` is the static decision as operators over abstract calls. A tool is
a family the source treats alike; a target is where it lies (workspace, trusted
directory, opened `DSH_HOME` subtree, elsewhere) and what it holds (ordinary,
workspace metadata, a git reference, a secret, a critical tree, runtime state);
arguments are readable at the answerer or longer than `maxArgsChars`. `Fused` is
what is denied before anything else of the tools without a file operation of their
own: credentials that leave the host, and a destructive plugin tool on a critical
path. The order of the checks in `assessTool`, `assessShell`, `categoryDirective` and
`nameChannelLockRefusal` is kept. Temporary roots and the plugin's development
zone are left out here; `ShellLine` has the zone.

`DeclaredRules` reads a rule text: the scope prefix with its faults, the lines
that are no rule, whether one fault puts the text out of force, and what the
rules in force say of a call whose scope is known, unknown or another. A
pattern is the set of texts it matches, a tool family stands for the name, and
the workspace of a call is always known.

`ToolCalls` takes a call through its planes. The early returns of a plane are
one ordered list (`PreExecuteReturns`, `AnswererReturns`), each guarded by what
the handler tests there.

| action | code |
|---|---|
| `PreExecute` | the `tools/pre-execute` handler up to the classifier's await |
| `Classified` | its continuation |
| `Request` | the lanes of `approval/request` before an ask opens |
| `Resolve` | the end of that ask |
| `GuardDenies` | the host guard, asked right before execution |
| `Run`, `OutsideEdit` | external: the tool itself, other programs |
| `Result` | `tools/result`, with the sweep of loop marks a minute old |
| `ChangeSettings` | the operator saves settings, which apply at once |

`Request` reads the settings, the registry and (for long arguments) a cut copy
of the arguments again, so the two planes may disagree. `askHuman` and the
learning query are reduced to who may settle an ask: a human alone
(`plain`, `pinned`), or also the timer and the reviewer (`ordinary`);
`Answerer` is the detail. `readings`, `escalated`, `released`, `ran` and `wrote`
are history that no action reads.

### ShellPolicy and ShellLine

The static engine's walk over a command line. `ShellPolicy` judges one segment
against a working directory: the hard deny, readable and opaque words,
redirections, wrappers, changers and whether the directory they lead to may be
trusted. `ShellLine` is `hardDenyShellReason` and `assessShell` over the whole
line: the base that a changer sets and a separator other than `&&` drops, the
changer's own verdict once its successor is known, the opening of the
development zone to a line that is one literal command, and the programs of
nested shells, which are lines of their own. The program of a line that cannot
be decomposed is another matter (`Anew`, `opaqueNestedAssessment`): it is read
with its nesting counted from zero and with the zone's opening, and what it has
inside another unreadable program is not read at all (`Unread`). Beside the
engine runs the shell (`sh`): it stands in a directory, reaches a segment or
not, changes directory or fails to, and the files its literal words name are
touched from wherever it is. What the verdict promises is stated against that
shell, not against the base the engine believes in.

`doubt` names the ways the two may part that the code accepts: another separator
behind segments that followed a changer by `&&` (`stray`), directly behind a
changer, or a changer whose operand cannot be read (`unproven`), a changer
inside a pipe (`piped`), a wrapper that names a directory of its own
(`shifted`), a program inside an unreadable program (`hidden`), the program of an
unreadable line, read with the opening (`inherits`), and, no error by itself, a
base that is not the workspace (`away`). Each property says which doubts it
excludes. Left out: bare operands
that are no paths, more than four wrappers, the patterns of network and
exfiltration commands, output flags of `sort` and `time`, PowerShell, the
targets of `find`, `tar` and `dd`. A segment that cannot change any verdict any
more (after a deny) is not continued.

### RuntimeStores and ConfirmationStore

`RuntimeStores` has the three append-only files and the two windows in memory.
An operation is synchronous, so it is a `job`, the list of file operations it
still has to do; each may fail as the file system fails (refused, torn after
some bytes, a failed rename, a failed truncate), and `CrashStores` falls between
any two. `LoadRuntimeStores` reads back what a boot reads. Lines are abstracted to
a type and a number; a torn line joins the next one and no longer parses.

`ConfirmationStore` adds `learning.json`: entries with counts and ages,
eviction, whole-file writes, the tripwire's fingerprint, rewrites from outside,
the revoke route with its three awaits, and the learned allow, checked against
its session's allowance before the review and charged after it. `since`,
`fresh`, `forged`, `foreign`, `alien` and `clean` are history.

### SettingsPlane and Sessions

`SettingsPlane` is how the plugin comes by its configuration: the row that is
invisible until the plugin is active, a row that fails the schema, the signal
of a change, the bounded retries of the first read, normalization, and the
offer to import the retired document. `Sessions` adds the sessions: permission
planes that change by events only, the migration of the retired preset, the
restore of the plugin's own spec at creation, at start and by a timer of zero delay
(which reads the state again when it fires), the record of user switches, the review
modes and their file, and what `session/disposed` drops. Every append of the plugin's
own may throw. A migration that fails leaves the state as it was, and on a host of
today the degradation that follows finds the session covered already; one that fails
only its verification has renamed the preset all the same; a restore that fails
leaves the session pinned and the failure in the audit. The import
of the retired document and the edits of the keys it may offer (`Import`, `EditKey`)
complete the operations on the settings; no property reads what they declare.

### ApprovalStore and Browser

`ApprovalStore` is the display store: one record per ask, the tombstones that
keep a settled ask from lighting up again, revisions, and the chip's state.
`Browser` is the tab: the poller of the ask whose panel is up (one request at a
time, back-off after a failure, detach after a settlement), the watcher of the
session the reader looks at, the grace timer for a countdown that vanished, the
one answer that closes a settled panel, the connection that drops and returns;
and the host they poll, which announces a countdown to either action, settles,
sweeps and withdraws meanwhile, and whose reset of all sessions (`HostResets`)
drops every status, those of undecided asks too. An answer of a route carries what
the host held when it answered, however late it arrives. `announced` and `dropped`
remember what a countdown said and which undecided asks lost it.

### SettingsCard

The settings page. Every handler works on the snapshot and draft it was clicked
with (`queue[i].draft`, `.before`), its continuation runs when the host has
answered, and in between route reads, pushed forms and other handlers replace
both. The host applies a write whole or refuses it by its revision. Left out:
the security card's forced flag, the reviewer API key (only the answer to its
deletion is there), the fallback revision of the fence, the wording. The form is
pushed as the host's current state without the keys only the host reads, and merged
over what the page has; a first read that fails leaves the page loading. A reset of
the timer card leaves one of its keys (`KeptByReset`, the delay of the panel).

## 3. What the runs check

| run | question | bounds |
|---|---|---|
| `answerer_one_ask` | audit, provenance, fail-closed rules, published maps and notices of one request through every lane, risk, verdict, timeout action, audit failure and outside handler | one call: these properties speak of one call, whose per-call state no other call touches; what another call can change for it (counters, confirmations, mode) only selects its lane, and every lane is an input |
| `answerer_two_asks` | counters and confirmations under two concurrent requests of one session and signature | the breaker trips at one denial, a signature is confirmed by one answer, one learned allow per session: with two calls every counter is raised, read, spent, reset and disposed |
| `progress` | every ask ends and its maps drain; the chain of a key is a first-in first-out lock, every section runs, the map of chains drains | one ask through every lane with a countdown; four sections, three of one key: a queue of two behind a running one, and a second key whose chain must not disturb the first |
| `human_race` | the race implements the one-shot decision and returns; notices reach the agent | `MaxHops` = 3 promise hops of the host's own approval, the longest chain of hops the race itself adds, so both orders of any two arrivals occur; one other call in the step, so that a result of one meets the queue of the other; one guidance per minute and two preset switches reach both limits |
| `review_channel` | attempts, waits and the end of one review against the countdown, the guard and a cancellation, over both transports | half-second ticks; the shipped times (countdowns of 5, 8 and 10 s, 5 s per attempt, back-off 0.5 s, guard 1.5 s) and a countdown shorter than the guard; 0 to 2 retries; Retry-After absent, short, and longer than what an attempt may leave; one status of each class the code tells apart and of its edges (200, 302, 400, 401, 404, 413, 429, 499, 500, 503); credentials within 2 s, which covers both sides of guard minus back-off |
| `tool_calls` | what may run, released by whom, under which record and provenance | two calls, the second a write or a removal of the same file: the shared state (marks, loop table, plans, created files) is touched by pairs of calls. Seventeen kinds for the first call, one per path through the planes; settings that each switch one or more controls against the shipped ones, among them eight rule texts: human, allow, by reason, by agent, hidden behind a fault, mistyped, older; one change of settings or one outside edit between any two steps, enough for any two of the three reads to differ. Threshold 2, one loop key and one plan reach every limit with two calls |
| `runtime_stores` | what the files and windows hold after any failure or crash | caps of 2 lines with 4 pushes exceed every limit twice; two faults and a crash, a clear; two keys of one entry, three confirmations, two concurrent revokes, one outside rewrite; two attempts in parallel at an allowance of 1 |
| `sessions` | whose switch is recorded, modes on disk, settings in force, the loop table of a session | two sessions; six budgets, each spent on one part: permission switches under a disposal, the same across a restart, modes, gated calls, settings, the import; one failed append or write; three rows (values every clamp refuses, values it keeps, and a row the schema refuses), two retries; three keys over a table of two and eight calls, as much as two runs to the threshold of 3 |
| `browser` | the tab against the host | one ask with a countdown, one without, which is every pair the two kinds make but two of one kind; countdowns to either action; one fault of any kind (a failed request, a dropped link, a lost answer, a change of session, a reset of all sessions) at any moment: each of the tab's recoveries is from one |
| `settings_card` | saves and edits of the page | two cards, one of them with a key that its reset leaves, one row that saves on change, one key the page only shows; a section that starts with values no schema accepts; two clicks, so that one handler is out while another starts; two edits; one foreign write |
| `shell` | what an allow and the fuse mean for the shell that runs the line | lines of up to three segments (a changer, its successor and one that follows it by another separator) over 22 segments, two programs in one another, from two workspaces |
| `claim_shell_base` | one documented statement, refuted | see 5 |

Deadlock is not checked in runs where the system may stop: every call answered,
every section ended, every budget spent.

Fairness. The answerer assumes that host timers fire (`TimerFires`, the sweeps)
and nothing else: a human, a reviewer, a browser may be silent for ever. The
race assumes that queued promise jobs run and that an armed countdown expires,
which is the event loop's contract. The mutex assumes the same of its jobs and
that a critical section ends: the bodies in `index.ts` do bounded synchronous
work. The review assumes that time passes, that its timers fire, that the
credentials resolve and that an attempt whose signal aborted ends; no provider
has to answer. A session's restore timer and the settings' retries and signal
are timers and events of the host. The browser's intervals tick, its timers
fire, a lost link comes back, and the routes answer within their hold, for the
pollers of asks with a countdown: `PanelCloses` speaks of no other.

## 4. What is proved

All theorems hold for every set of calls, sessions, keys, tasks, asks and every
limit and duration, under the assumptions the modules name (`AnswererAssumption`,
`MutexAssumption`, `ChannelAssumption`, `LoopGuardAssumption`,
`SessionsAssumption`, `ToolCallsAssumption`, `BoundsAssumption`,
`LearningAssumption`, `AsksAssumption`, `SettingsCardAssumption`,
`SegmentsAssumption`). They give the constants their types, the learning
threshold, countdowns, timeout, back-off and bounds positive values and the loop
threshold at least 2, as `config-normalize.ts` clamps them or the constants have
them. Beyond types they say: the askers of the learning allowance are finitely
many, a session id is no scope keyword of a rule, a `cd` has at most one operand,
and the section the settings page first reads has every key (the host fills in
defaults).

* `TypesHold`, `RailsAlwaysCoincide`: by themselves inductive.
* `AsksAreSafe`: `SafeInv` is `TypeOK` and, for each call, `Safe(c)`: its
  lifecycle (which fields of an ask, verdict and result go with which `pc`),
  its audit trail, its published maps and the two fail-closed rules. The
  fail-closed rule of an unattended ask is not inductive alone: it needs that a
  verdict remembered as said was heard while a countdown of a handled ask was
  published, and that a failure or a refused ALLOW then settles it at once. A
  frame lemma reduces every step to the one call it moves.
  `AuditAlwaysMatches`, `AlwaysFailsClosed` (from `PinnedAlwaysNeedsAHuman` and
  `UnattendedAlwaysFailsClosed`) and `MapsAlwaysFollow` follow from it.
* `AsksAreHonest`: `HonestInv` adds `Honest(c)` to `SafeInv`, in five parts: what
  the mark of the reviewer's take-over says of the settlement (`Marked`), what was
  taught (`Taught`), whom the source and the audit line name (`Named`), what the
  browser was shown (`Shown`) and what the agent was told (`Noticed`). Each action
  has a lemma; for the calls it does not move, a frame lemma asks only that their
  marks are the same. `ProvenanceAlwaysHonest`, `FollowAlwaysTrue` and
  `NoticesAreTrue` follow from the invariant, `BreakerAlwaysHonest` and
  `LearningAlwaysHonest` from the step: a counter moves only in a settlement, and
  `Named` holds of the call after it.
* `RaceDecidesOnce`, `AskDecidesOnce`: the refinement of `OneShotDecision`, and
  the safety half of `RaceIsSound`. `RaceInv` is about the queue of promise
  jobs: what each job may still do (`JobOK`), that a one-time job is queued once
  (`Single`), and what a fired countdown and a decided race leave (`ExpiryOK`,
  `RacedOK`). An action pops one job and pushes some; frame lemmas
  (`PoppedJobs`, `PushedJobs`) leave the others as they were. That is what a
  bounded run cannot say: the number of hops of the host's own approval is
  arbitrary.
* `NoticesAlwaysReach`: `NoticeInv` adds that the raced call waits exactly while
  its decision is open, that the queue holds each notice once, that one call is
  greeted, that a reviewer is heard once, and that presets are announced in
  turns.
* `ChainKeepsOrder`: `ChainInv` says that the links of the chain follow the
  order of arrival, that each queued section waits for the one before it and
  that the tail in the map is the latest. Exclusion (`SectionsExclude`), no lost
  update (`UpdatesKept`) and the refinement of `FifoLock`
  (`ChainImplementsLock`) follow from it. Pruning needs the invariant: it may
  drop the tail only because nobody waits behind it.
* `AttemptsAlwaysKeepGuard`, `OnlyTransientIsResent`,
  `FailureAlwaysBeatsCountdown` and `CancelAlwaysStopsRetries`: the invariant
  adds timing to them. A timer awaited is not behind the clock, an attempt's
  timer keeps the guard, and a wait no provider asked for ends at most one
  back-off after the guard begins, because it follows an attempt. So a review
  still waiting when the countdown runs out started late or was throttled.
  `RetriesAreDisciplined` joins the three about retries. What is sent again is
  stated by the nature of the failure, not by its code: an attempt follows one that
  passes, or one of the two final failures the code takes for a broken connection
  (FENCED, UNREADABLE), which section 5 lists against the comments; never a refusal
  of the provider, nor a timeout on an asynchronous path.
* `TableIsSound`, `GuardIsExact`: the entries of the table have distinct
  positions, so the oldest entry is never the current run unless it is alone, and
  an entry that is not current never becomes so again. The table therefore
  implements `StreakGuard` under every bound of at least one key.
* `RecordsAreUsers`: while the plugin runs, its baseline of every session is that
  session's state, so each recorded switch is a move the plugin did not make.
  `SilentAlwaysWatched` adds the armed timers: a session becomes silent only by an
  event that arms one, or by a restore at creation or start that fails, and every
  restore that fails, of a timer or not, leaves its failure in the audit. It is the safety half of `SilentNeverAnswered`, with one exception the
  run has no instance of: a session the host has just pinned as gated without a
  policy, under a base policy that never asks, waits for its first agent.
  `ModesAreKept`: a failed write of the mode file is the only way memory and file
  part. `SettingsAreHonest`: the safety half of `SettingsTakeForce`, from the fact
  that normalizing twice is normalizing once.
* `AuditIsSound`, `ClearsLast`, `ReplacementIsSafe`: the invariant says of every
  moment inside a file operation that memory covers what the file would load, that
  an appended line is newer than those in the file, that a window to be forgotten
  has an empty file already, and that a fragment stands at the end of the audit
  exactly if the last attempt that moved bytes tore it.
* `CountsEarned`, `TripwireIsHonest`, `SpendingIsExact`: while a revoke's answer is
  due, the file is no richer than what was confirmed since; the file differs from
  the fingerprint only by a foreign rewrite; an allowance spent and the attempts
  out are at most one less than the cap and the askers.
* `CallsAreSafe`: `SafeInv` ties the stage of each call to its record, its mark
  and its release. The order of early returns enters through `FirstReturn` (a
  plane takes the first lane whose condition holds): a call that the category
  asks a human about and that names are refused to reaches no other lane
  (`LockedPreExecute`, `LockedAnswer`), a marked call reaches no automatic lane
  (`PinnedLanes`). `HardLockedNeedsHuman` needs `ProvenanceEarned`: a removal
  escapes the lock only by a path in its session's registry.
  `AlwaysAuditedBeforeRun`, `EscalationAlwaysHolds`, `ProvenanceAlwaysEarned` and
  `LocksAlwaysHold` (from `HardLockedAlwaysNeedsHuman` and `SecretsNeverByName`)
  follow. The proofs use nothing of what a rule text says, so the theorems hold for
  every set of texts.
* `TerminalsAlwaysHold`: here the rule texts count. The loop over the declared
  rules is a fold, shown by induction to find the strictest rule that applies; a
  rule of a line without fault applies exactly to the calls the line was written
  for; and `Obeys(c)`, inductive with `SafeInv`, says that no lane of either plane
  gets past what the settings it read forbid or keep for a human.
* `NothingRevives`, `TabFollowsTheHost`: `IInv` of `ClientProofs` adds to the
  types that what is remembered as settled is not shown (`Remembered`), that every
  payload under way, however old, is true of the host as it now is (`HostTrue`: a
  settlement reported is the decision, an empty report after a countdown means a
  decision that was swept or an undecided ask whose status a reset dropped), and that
  the tab's answers and settled records agree with the decision, or with the action
  announced in those two cases (`TabTrue`). A reset of all sessions is therefore
  the one way the tab closes a panel before the host has decided; it does so with
  the announced action. Late and reordered answers need no case of their
  own: the host never takes a decision back (`HostKeeps`). The proof says nothing
  of which panel is up, so it holds whatever the host does with its panels.
* `EditsAlwaysSurvive`: each write out carries the page it was clicked on. `EditsInv`
  says that the draft shows every unsaved, unraced edit, and so does the draft of
  every write that may put its own back. `SavesAlwaysOwn`: `SavesInv` says that an
  answer on the way is the section of its revision, that the snapshot is the
  section while its revision is the current one and it has not regressed, and that
  a queued write's snapshot is the section while its fence would still hold; so
  what an accepted write merges is the section nobody has written since.

* `AllowedAlwaysHarmless`, `FuseAlwaysCovers`, `OpeningAlwaysStays`: `TrackInv`
  says that, while nothing was doubted, the base is the directory of the shell: of
  the line being read as it stands, and of the lines around it as they will be
  when their program ends, each only if the programs within it are run at all.
  Hence what a segment does, it does where it is judged, so that what passes the
  fuse is denied (`FuseInv`) and what is allowed is harmless (`AllowInv`); a denial
  is passed from a program to the line that runs it (`ReturnsCaught`). The opening
  needs no such fact (`ZoneInv`): from the zone, a write that leaves it is denied
  to every line of several segments, and a line of one starts where its session
  is. Assumed of a segment (`SegmentsAssumption`): its words name directories of
  the model, a `cd` has at most one operand (with two the command fails), and a
  typed segment brings no program of its own, since programs are opened.

`LocksHold` speaks of arguments the answerer can read in full;
`ClaimLostArguments.cfg` shows what happens to the others.

Model-checked only: the liveness properties (the prover has no fairness; of
`RaceIsSound`, `SettingsTakeForce` and `SilentNeverAnswered` the safety halves are
proved), and what the recursive and folded definitions
compute beyond the lemmas named above.

## 5. Where code and documentation disagree

One statement is refuted by a run, `claim_shell_base`: whether a changer's
directory is carried is decided by its immediate successor
(src/src/auto/shell.ts:3578). In `cd elsewhere && cat note; rm ./made` the
changer carries over `&&`, the semicolon drops the base, and the deletion is
resolved in the workspace, where `made` is the session's own: the line is
allowed, and deletes `elsewhere/made`. The comment above (3570-3573) says that
this is what the test prevents.

Others have a configuration to be run by hand (`tlc -config X.cfg Module`), each
with the violation as its result:

| configuration | module | statement | what happens |
|---|---|---|---|
| `ClaimUnattended` | MCAnswerer | `UnattendedNeverRidesTimeout` | a global reset drops the published status of open asks; the reviewer's failure is then discarded, and the countdown of an unattended ask allows the call |
| `ClaimUnaudited` | MCAnswerer | `UnauditedNeverTrains` | the direct human request resets the confirmation of its signature from an outcome that is a rejection only because the audit failed |
| `ClaimRetryAfter` | ReviewChannel | `WaitFitsWindow` | whether a Retry-After fits is decided by the window the attempt started with; after a slow attempt the loop sleeps past its deadline, and the countdown decides an ask whose reviewer has failed |
| `ClaimLostArguments` | MCToolCalls | `NamesNeverUnlock` | the answerer looks arguments up through a copy cut at `maxArgsChars`, which no longer parses. A deletion is then `unknown`, the hard lock does not apply, and an allowlist entry or allow rule releases what pre-execute refused to release by name |
| `ClaimRevision` | Browser | `OlderNeverOverwrites` | only a countdown on display compares revisions (status-store.ts:268), so a late countdown replaces a record with a newer one, where status-store.ts:27 promises a monotonic revision |
| `ClaimRetryAfter`, its invariant replaced | ReviewChannel | `FinalNeverResent` | the fence's refusal (endpoint-call.ts:248-251, thrown at 279-294) and a 2xx body that does not parse are plain errors, which `toLlmFailure` makes TRANSPORT, and are tried again; retry.ts:82-83 says that "auth/config errors must never re-send", review-pipeline.ts:288 that a malformed answer is not retried |
| `ClaimLostArguments`, its invariant replaced | MCToolCalls | `FirstRuleWins` | rules.ts:29 says "First matching rule wins; only one policy is returned" (and docs/15-quality.md:13 names the first hit), while `evaluateRules` (430-460) and docs/03-static-engine.md let the strictest rule that applies win, wherever it stands; `OperatorTerminals` states what the code does |
| `ClaimRevision`, its property replaced by the invariant | Browser | `GraceMeansSettled` | shared.ts:381-383 takes an empty report after a countdown as "so the host resolved"; after a reset of all sessions (index.ts:3150-3156) it means nothing of the kind, and the tab answers, with the action announced, an ask nobody has decided |
| `ClaimSettingsCard` | MCSettingsCard | `SavesAreAlwaysOwn`; without its line `EditsSurviveASave` | a save clicked on a snapshot that fell behind the form writes back older values of other keys (client/index.ts:826-829: "each save overlays its own card's keys on the fresh baseline anyway"); edits typed into another card while a save is out are lost with its answer (1249-1251: "unsaved edits held in other cards' local drafts are preserved") |

Two more of `ShellLine` are refuted with the invariant of `ClaimShellBase.cfg`
replaced and its workspace set to "zone". `FuseReachesPrograms`: a program inside
the program of a line that cannot be decomposed is not read by the fuse
(shell.ts:2716-2720 judges the words only), where shell.ts:3207-3209 asks for "the
SAME per-segment owner ... or a wrapper stops one level short". `ProgramsNeverOpen`:
the program of such a line is judged with the caller's roots (shell.ts:2857), so
with the zone's opening, where 3210-3211 say that "a nested body never inherits
the development-zone opening".

`ApprovedIsNoLie` in `AskNotices` is refuted the same way: the notice that a
review approved a call is queued before the race and the audit decide, and told
although the call was rejected (notices.ts:98-99: "'approved X' would be a lie").

Seen while reading, without a run.

Answerer and notices:

* The audit-failure notice of a learned allow (index.ts:2332) outlives the fall
  through and is shown for a call that was audited and allowed afterwards; the
  notice of a learned allow (2316) is queued before its audit.
* A session set to `smart` has no entry in `reviewModes` (index.ts:1872, 3216):
  under another default it follows that default, although the command confirms
  `smart`.
* A signature revoked during the verification review is still released
  (docs/18-confirm-learning.md:73).
* `/approval-reset` clears the counters and the denial log of its session only,
  where docs/08-breaker.md:30 lists all approval state.
* After `/approval-reset-all` a browser's automatic answer to the orphaned ask
  (`GraceMeansSettled`) is recorded as a human click, where docs/07-human-race.md:20
  says automatic (`ProvenanceHonest` allows it for calls in `wiped` only).
* A status acknowledged by the browser leaves an entry in `reviewSessions` that
  only a global reset removes.
* Guidance for a call that pre-execute refuses is dropped at `step/end` if such a
  call has no result (artifacts.ts:14-19).
* A reviewer that approves after `session/disposed` creates a queue entry that
  nothing clears.

Reviewer: `retryAfterMs` reads seconds only.

Tool calls and rules:

* The planes differ in order and reach. A call on the allowlist whose category
  is set to ask is asked at pre-execute and allowed at the answerer. A write,
  edit or patch with long arguments that pre-execute asks about is denied at the
  answerer. A deny or human rule whose scope cannot be established is skipped at
  pre-execute and forces a human at the answerer. Loop keys are built from the
  arguments object in one plane and from their text in the other, so a repetition
  across planes is not seen.
* One line of a rule text that cannot be read puts all rules out of force
  (README.en.md:31 and 179 say so).
* Whether a file exists is read when its creation is planned. A write that
  overwrites a file created since is promoted like a creation, where the comment
  at artifacts.ts:74 relies on a create that fails. `ProvenanceEarned` therefore
  speaks of paths the session wrote.
* docs/17 (line 72) says that structured tools alone register provenance; mkdir,
  touch and New-Item plan their targets too.
* A subagent's calls share the root's loop table: alternating calls of two agents
  interrupt each other's runs, by intent.

Stores and sessions:

* A torn append of the audit is not completed, so the next line joins it
  (audit.ts:103-105, runtime-paths.ts:153-156); `Legible` in `RuntimeStores`
  states what remains readable.
* An expired confirmation that was not yet evicted goes on counting
  (learning.ts:497).
* The first move of a plane whose state was never set is not recorded as a user's
  switch (permission-change.ts:9).

Browser and settings page:

* A failed `respond` is never sent again; a panel queued behind another whose
  settlement was swept before its poller armed never closes (`PanelCloses`
  excepts both).
* `createBreakerGuard` with one button arms a node that is undefined
  (shared.ts, around 505-560).
* An optional field that was cleared is never written (client/index.ts:355-372):
  the save says "saved" and the old value returns. `resetReviewerCard` keeps the
  old pair in the snapshot until the re-read, and a toggle clicked then writes it
  back; it never clears the credential badge. A failed config save is reported
  as saved when the API key of the same card was (1466-1480). Restoring the top
  defaults and undoing an import wipe every card's unsaved edits.

## 6. Plan

Done: the answerer with its rules and proofs; the race with the notices; the
mutex; the review with its transports, proved; the loop guard, proved; both tool
planes with declared rules, proved; the runtime and confirmation stores; the
sessions, modes and settings; the browser; the settings page; the shell line, proved.

Left, in order of importance:

1. A browser of several sessions with tombstone eviction and the breaker banner;
   the composition of `Browser` with `Answerer` instead of the abstract host.
2. Tool statistics and the locations of the runtime files; the classifier's lane
   with its own retries.
3. The PowerShell plane of the static engine, which repeats the walk of the shell
   plane over other commands.

## 7. Not modelled

Lexing of command lines, patterns and path strings in the static engine, the
prompts of reviewer and classifier, the classifier's reply and the redaction are
sequential transformations of one text: what they find is an input here. Icons,
tool chips, throttles and wording are rendering. The trust checks of the routes
are predicates of one request, the read-only routes copy state out. Tests,
scripts and documents were read as statements of what the program should do.

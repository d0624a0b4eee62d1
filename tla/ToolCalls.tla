------------------------------ MODULE ToolCalls -----------------------------
(***************************************************************************)
(* Tool calls of one Auto session tree (src/src/index.ts): the pre-execute *)
(* plane, the fast classifier it awaits, the lanes of the approval/request *)
(* plane, the host guard, the execution and the tools/result observer,     *)
(* with the loop guard (src/src/auto/loop-guard.ts) and the registry of    *)
(* created files (src/src/auto/artifacts.ts) the calls share.  A root      *)
(* agent and its subagents share the loop guard; each has a registry entry *)
(* of its own.                                                             *)
(*                                                                         *)
(* Settings are live: each plane reads them again.  A handler runs to its  *)
(* next await in one step.  askHuman and the confirmation-learning query   *)
(* are abstracted to who may settle the ask; the module Answerer is their  *)
(* detail.  dsa_request_user is left to that module.                       *)
(***************************************************************************)
EXTENDS PolicyRules, DeclaredRules, FiniteSets

CONSTANTS
  Calls,
  Agents,         \* sessions of the tree
  Origin,         \* what the header of each session says of its agent
  CallsOf,        \* [Calls -> SUBSET MadeCalls]: what a call may be (a bound of a run)
  Configs,        \* settings the operator may choose (a bound of a run)
  RuleTexts,      \* the lines of each rulesText among them
  Threshold,      \* config.loopDetectionThreshold where it is on
  MaxKeys,        \* LOOP_GUARD_MAX_KEYS
  PlanCap,        \* PENDING_PLAN_CAP
  MaxChanges      \* settings changes and outside edits of a run

\* loops: loopDetectionThreshold is not 0.
Settings == [rulesText : DOMAIN RuleTexts, rulesDryRun : BOOLEAN,
             list : {"none", "deny", "allow", "human"},
             policy : {"unset", "auto", "ask", "deny"}, aggressive : BOOLEAN,
             privilegeAutoReview : BOOLEAN, protectedAutoReview : BOOLEAN,
             manual : BOOLEAN, reviews : BOOLEAN, loops : BOOLEAN]

Targets   == [path : STRING, area : Areas, material : Materials]
CallKinds == [tool : Tools, target : Targets, big : BOOLEAN]
MadeCalls == [kind : CallKinds, agent : Agents]

ASSUME ToolCallsAssumption ==
  /\ \A text \in DOMAIN RuleTexts : RuleTexts[text] \in Seq(Lines)
  /\ CallsOf \in [Calls -> SUBSET MadeCalls]
  /\ Origin \in [Agents -> {"main", "subagent", "unknown"}] /\ Configs \subseteq Settings
  /\ Agents \cap {"main", "subagent", "unknown"} = {}  \* the ids the host gives sessions
  /\ Threshold \in Nat \ {0, 1} /\ MaxKeys \in Nat \ {0} /\ PlanCap \in Nat \ {0}
  /\ MaxChanges \in Nat

VARIABLES
  config, changes,
  call,            \* [Calls -> [kind, agent]]
  stage,           \* where each call is
  seq, inner, fired,  \* the loop guard the tree shares
  loopGuardPinned,
  created,         \* the registry's paths per agent
  pending,         \* its planned creations in Map order
  files,           \* the paths that exist
  audit,           \* calls whose allow reached audit.jsonl
  \* History, read by properties only.
  released,        \* which channel let each call run
  readings,        \* what the settings each plane read said of a call
  escalated,       \* calls the loop guard has fired on
  ran,             \* how each execution ended
  wrote            \* per agent, the paths its own executions wrote

guardVars    == <<seq, inner, fired, loopGuardPinned>>
registryVars == <<created, pending>>
vars == <<config, changes, call, stage, guardVars, registryVars, files, audit,
          released, readings, escalated, ran, wrote>>

Kind(c)  == call[c].kind
Agent(c) == call[c].agent
Path(c)  == Kind(c).target.path

Stages == {"idle", "classifying", "asked", "plain", "pinned", "ordinary",
           "allowed", "ran", "settled", "refused"}
Open   == {"plain", "pinned", "ordinary"}

\* The channels that release a call.
Names    == {"rule-allow", "allowlist-allow"}
Gated    == {"static-allow", "classifier-allow", "auto-allow", "allowlist-gated"}
Channels == Names \cup Gated \cup {"human", "timer", "reviewer"}

AnyCall == UNION {CallsOf[c] : c \in Calls}
Paths   == {m.kind.target.path : m \in AnyCall} \ {NoPath}

-----------------------------------------------------------------------------
(* The order of the early returns of each plane *)

Return(when, lane) == [when |-> when, lane |-> lane]
First(returns) ==
  returns[CHOOSE i \in DOMAIN returns :
            returns[i].when /\ \A j \in 1..(i - 1) : ~returns[j].when].lane

\* What each plane knows of a call when it evaluates the rules.  The texts of
\* the arguments are those under the keys a rule looks for, and one text where
\* there are none, or where the answerer reads a text cut at maxArgsChars.  The
\* approval reason is known to the answerer only.
Subject(m, plane) ==
  [tool |-> m.kind.tool,
   targets |-> IF \/ plane = 2 /\ m.kind.big
                  \/ m.kind.tool \in {"lookup", "session", "external-write", "dynamic"}
               THEN <<"envelope">> ELSE <<"primary", "rest">>,
   reason |-> IF plane = 2 THEN "reason" ELSE "nothing",
   agent |-> m.agent, kind |-> Origin[m.agent], workspace |-> "here"]

\* A plane evaluates the rules anew; the same text answers the same call alike.
Verdicts ==
  [m \in AnyCall |-> [plane \in {1, 2} |-> [text \in DOMAIN RuleTexts |-> [dryRun \in BOOLEAN |->
     RuleVerdict(RuleTexts[text], dryRun, Subject(m, plane))]]]]
Verdict(g, m, plane) == Verdicts[m][plane][g.rulesText][g.rulesDryRun]
Ruled(c, plane) == Verdict(config, call[c], plane)

PreExecuteReturns(g, rule, category, a) ==
  LET locked == NameChannelLockRefusal(category, a)
      directive == CategoryDirective(g, category, a)
  IN << Return(a.decision = "deny", "hard-deny"),
        Return(rule = "deny", "rule-deny"),
        Return(rule = "human" \/ (rule = "allow" /\ locked), "ask"),
        Return(rule = "allow", "rule-allow"),
        Return(g.list = "deny", "denyList-deny"),
        Return(g.list = "human", "ask"),
        Return(directive = "deny", "category-deny"),
        Return(directive = "ask" \/ (g.list = "allow" /\ locked), "ask"),
        Return(g.list = "allow", "allowlist-allow"),
        Return(a.decision = "allow", "static-allow"),
        Return(~a.eligible, "ask"),
        Return(TRUE, "classify") >>

PreExecuteLane(g, rule, category, a) == First(PreExecuteReturns(g, rule, category, a))

\* tripped: whether the denial breaker of the session is open.
AnswererReturns(g, rule, category, a, pinned, tripped) ==
  LET locked == NameChannelLockRefusal(category, a)
      directive == CategoryDirective(g, category, a)
      risk == ApplyCategoryDirective(RiskFromAssessment(a), directive, a)
  IN << Return(risk = "DENY", "policy-deny"),
        Return(rule = "deny", "rule-deny"),
        Return(rule = "allow" /\ locked, "pinned"),
        Return(rule = "allow", "rule-allow"),
        Return(rule \in {"human", "unsure"}, "plain"),
        Return(g.list = "deny", "denyList-deny"),
        Return(directive = "deny", "category-deny"),
        Return(pinned, IF g.manual THEN "loop-plain" ELSE "loop-pinned"),
        Return(g.list = "allow" /\ locked, "pinned"),
        Return(g.list = "allow", "allowlist-gated"),
        Return(g.list = "human", "plain"),
        Return(directive = "ask",
               IF IsLockedCategory(g, category, a) THEN "pinned" ELSE "plain"),
        Return(g.manual \/ tripped, "plain"),
        Return(risk = "LOW" /\ ~g.reviews /\ a.decision = "allow", "auto-allow"),
        Return(TRUE, "ordinary") >>

AnswererLane(g, rule, category, a, pinned, tripped) ==
  First(AnswererReturns(g, rule, category, a, pinned, tripped))

-----------------------------------------------------------------------------
(* What the operator's settings say of a call to a plane that reads them,   *)
(* whatever that plane goes on to do: the history variable readings.        *)

\* Whether a line was written for a call: an older line, whose brackets are part
\* of the pattern, for every agent and workspace.
WrittenFor(line, s) ==
  /\ s.tool \in line.tools
  /\ (\A i \in DOMAIN line.prefix : line.prefix[i].key \in {"agent", "workspace"}) =>
       \A i \in DOMAIN line.prefix :
         LET item == line.prefix[i]
             names == IF item.key = "workspace" THEN {s.workspace} ELSE {s.agent, s.kind}
             holds == item.value \in names \ {"unknown"}
             unknown == /\ item.key = "agent" /\ item.value \in {"main", "subagent"}
                        /\ s.kind = "unknown"
         IN IF item.negated THEN ~holds /\ ~unknown ELSE holds
  /\ line.hits \cap
       (CASE line.field = "toolName" -> {"name"}
          [] line.field = "reason"   -> {s.reason}
          [] OTHER -> {s.targets[i] : i \in IF line.policy = "allow" THEN {1}
                                             ELSE DOMAIN s.targets}) # {}

\* "A parse error invalidates the whole block" (README.en.md).
Stated(text, dryRun, s) ==
  LET lines == {RuleTexts[text][i] : i \in DOMAIN RuleTexts[text]}
      stated == {line.policy : line \in {l \in lines : WrittenFor(l, s)}}
  IN CASE dryRun \/ \E line \in lines : Faulty(line) -> "none"
       [] OTHER -> IF "deny" \in stated THEN "deny"
                   ELSE IF "human" \in stated THEN "human"
                   ELSE IF "allow" \in stated THEN "allow" ELSE "none"

Statements ==
  [m \in AnyCall |-> [plane \in {1, 2} |-> [text \in DOMAIN RuleTexts |-> [dryRun \in BOOLEAN |->
     Stated(text, dryRun, Subject(m, plane))]]]]

Reading(g, m, plane) ==
  LET rule == Statements[m][plane][g.rulesText][g.rulesDryRun]
      unsure == plane = 2 /\ Verdict(g, m, plane) = "unsure"
      category == CategorizeTool(m.kind)
      categoryForbids == /\ g.policy = "deny" /\ g.list # "human" /\ ~m.kind.big
                         /\ category \notin Locked \cup {"unknown", "harnessInternal"}
  IN CASE rule = "deny"  -> "forbidden"
       [] rule = "human" -> "human"
       [] rule = "allow" -> "open"
       [] rule = "none" /\ ~unsure /\ (g.list = "deny" \/ categoryForbids) -> "forbidden"
       [] rule = "none" /\ (unsure \/ g.list = "human") -> "human"
       [] OTHER -> "open"

-----------------------------------------------------------------------------
(* What the actions share *)

Guard == INSTANCE LoopGuard WITH Keys <- {"pre-execute", "answerer"} \X CallKinds

Moves(c, to) == stage' = [stage EXCEPT ![c] = to]

Refuse(c) == Moves(c, "refused") /\ UNCHANGED <<audit, released>>

\* Faulty variant: an allow whose audit line is lost takes effect.
ReleaseUnaudited(c, channel) ==
  /\ Moves(c, "allowed") /\ audit' \in {audit, audit \cup {c}}
  /\ released' = [released EXCEPT ![c] = channel]

\* An allow takes effect only when pushHistory could persist it.
Release(c, channel) ==
  \/ /\ Moves(c, "allowed") /\ audit' = audit \cup {c}
     /\ released' = [released EXCEPT ![c] = channel]
  \/ Refuse(c)

NoGate == UNCHANGED <<guardVars, escalated>>

\* Faulty variant: the gate does not leave its mark for the answerer.
GateUnpinned(c, plane, channel, escalation) ==
  \/ ~config.loops /\ Release(c, channel) /\ NoGate
  \/ /\ config.loops /\ Guard!RecordLoopCall(<<plane, Kind(c)>>) /\ UNCHANGED loopGuardPinned
     /\ \/ /\ fired' /\ Moves(c, escalation) /\ escalated' = escalated \cup {c}
           /\ UNCHANGED <<audit, released>>
        \/ ~fired' /\ Release(c, channel) /\ UNCHANGED escalated

\* loopGateFires at an auto-allow site.  The two planes build different keys
\* from one call: the arguments object and the raw JSON text.
Gate(c, plane, channel, escalation) ==
  \/ ~config.loops /\ Release(c, channel) /\ NoGate
  \/ /\ config.loops /\ Guard!RecordLoopCall(<<plane, Kind(c)>>)
     /\ \/ /\ fired' /\ Moves(c, escalation)
           /\ loopGuardPinned' = loopGuardPinned \cup {c}
           /\ escalated' = escalated \cup {c}
           /\ UNCHANGED <<audit, released>>
        \/ ~fired' /\ Release(c, channel) /\ UNCHANGED <<loopGuardPinned, escalated>>

\* artifacts.plan: an allowed creation of a path that does not exist yet, with
\* the oldest plan evicted beyond the cap.
Planned(c, a) ==
  IF a.plans /\ Inside(Kind(c).target) /\ Path(c) \notin files
  THEN LET longer == Append(pending, c)
       IN IF Len(longer) > PlanCap THEN Tail(longer) ELSE longer
  ELSE pending

Judged(c, plane) ==
  readings' = [readings EXCEPT ![c] = Append(@, Reading(config, call[c], plane))]

-----------------------------------------------------------------------------
(* Handlers *)

PreExecute(c) ==
  /\ stage[c] = "idle"
  /\ LET a == AssessTool(Kind(c), created[Agent(c)], config.aggressive)
         lane == PreExecuteLane(config, Ruled(c, 1), CategorizeTool(Kind(c)), a)
     IN /\ pending' = Planned(c, a)
        /\ \/ /\ lane \in {"hard-deny", "rule-deny", "denyList-deny", "category-deny"}
              /\ Refuse(c) /\ NoGate
           \/ lane = "ask" /\ Moves(c, "asked") /\ UNCHANGED <<audit, released>> /\ NoGate
           \/ lane \in Names /\ Release(c, lane) /\ NoGate
           \/ lane = "static-allow" /\ Gate(c, "pre-execute", lane, "asked")
           \/ /\ lane = "classify" /\ Moves(c, "classifying")
              /\ UNCHANGED <<audit, released>> /\ NoGate
  /\ Judged(c, 1)
  /\ UNCHANGED <<config, changes, call, created, files, ran, wrote>>

\* The classifier answers allow, deny or ask, or fails, which asks.
Classified(c) ==
  /\ stage[c] = "classifying"
  /\ \/ Gate(c, "pre-execute", "classifier-allow", "asked")
     \/ Refuse(c) /\ NoGate
     \/ Moves(c, "asked") /\ UNCHANGED <<audit, released>> /\ NoGate
  /\ UNCHANGED <<config, changes, call, registryVars, files, readings, ran, wrote>>

\* A confirmed signature may be released by one review of its own before the
\* unreviewed allow.
Learnable(category) == category \notin Locked \cup {"harnessInternal"}

Request(c) ==
  /\ stage[c] = "asked"
  /\ \E tripped \in BOOLEAN :
       LET seen == Seen(Kind(c))
           category == CategorizeTool(seen)
           a == AssessTool(seen, created[Agent(c)], config.aggressive)
           lane == AnswererLane(config, Ruled(c, 2), category, a, c \in loopGuardPinned, tripped)
           escalation == IF config.manual THEN "plain" ELSE "pinned"
       IN \/ /\ lane \in {"policy-deny", "rule-deny", "denyList-deny", "category-deny"}
             /\ Refuse(c) /\ NoGate
          \/ lane = "rule-allow" /\ Release(c, lane) /\ NoGate
          \/ /\ lane \in Open /\ Moves(c, lane)
             /\ UNCHANGED <<audit, released>> /\ NoGate
          \/ /\ lane \in {"loop-plain", "loop-pinned"} /\ Moves(c, escalation)
             /\ loopGuardPinned' = loopGuardPinned \ {c}
             /\ UNCHANGED <<audit, released, seq, inner, fired, escalated>>
          \/ lane \in {"allowlist-gated", "auto-allow"} /\ Gate(c, "answerer", lane, escalation)
          \/ /\ lane = "auto-allow" /\ Learnable(category)
             /\ Release(c, "reviewer") /\ NoGate
  /\ Judged(c, 2)
  /\ UNCHANGED <<config, changes, call, registryVars, files, ran, wrote>>

\* askHuman returns: by the person, or by the countdown or the reviewer where
\* the shape of the ask lets them.  Each may reject, and so does an abort.
Resolve(c) ==
  /\ stage[c] \in Open
  /\ \/ Release(c, "human")
     \/ stage[c] = "ordinary" /\ \E by \in {"timer", "reviewer"} : Release(c, by)
  /\ NoGate
  /\ UNCHANGED <<config, changes, call, registryVars, files, readings, ran, wrote>>

\* The host guard refuses an allowed call whose target turns out to be a symlink
\* out of its zone.  The fuse it repeats has passed in PreExecute.
GuardDenies(c) ==
  /\ stage[c] = "allowed"
  /\ Kind(c).tool \in Readers \cup Mutators \cup {"shell-mkdir", "shell-remove"}
  /\ Moves(c, "refused")
  /\ UNCHANGED <<config, changes, call, guardVars, registryVars, files, audit,
                 released, readings, escalated, ran, wrote>>

\* What the tools do to the file they name (external).
Overwriters == {"write", "patch", "shell-mkdir"}
Effect(c, outcome, after) ==
  LET k == Kind(c)
      exists == k.target.path \in files
  IN \/ outcome = "failed" /\ after = files
     \/ /\ k.tool \in Overwriters \cup {"create"} /\ ~exists
        /\ outcome = "created" /\ after = files \cup {k.target.path}
     \/ k.tool \in Overwriters \cup {"edit"} /\ exists /\ outcome = "changed" /\ after = files
     \/ /\ k.tool \in {"shell-remove", "risky-remove"} /\ exists
        /\ outcome = "removed" /\ after = files \ {k.target.path}
     \/ /\ k.tool \notin Overwriters \cup {"create", "edit", "shell-remove", "risky-remove"}
        /\ outcome = "done" /\ after = files

Run(c) ==
  /\ stage[c] = "allowed"
  /\ \E outcome \in {"failed", "created", "changed", "removed", "done"},
        after \in {files, files \cup {Path(c)}, files \ {Path(c)}} :
       /\ Effect(c, outcome, after) /\ files' = after
       /\ ran' = [ran EXCEPT ![c] = outcome]
       /\ wrote' = IF outcome \in {"created", "changed"}
                   THEN [wrote EXCEPT ![Agent(c)] = @ \cup {Path(c)}] ELSE wrote
  /\ Moves(c, "ran")
  /\ UNCHANGED <<config, changes, call, guardVars, registryVars, audit, released,
                 readings, escalated>>

Plans == {pending[i] : i \in DOMAIN pending}

\* The registry's plans without the one of this call.
Forgotten(c) ==
  IF c \in Plans
  THEN LET n == CHOOSE i \in DOMAIN pending : pending[i] = c
       IN [i \in 1..(Len(pending) - 1) |-> pending[IF i < n THEN i ELSE i + 1]]
  ELSE pending

\* Faulty variant: a failed execution is promoted like a successful one.
PromotedAlways(c) == c \in Plans

\* artifacts.settle promotes what a planned creation, or a write that reports a
\* creation, succeeded in.
Promoted(c) ==
  /\ ran[c] # "failed"
  /\ \/ c \in Plans
     \/ Kind(c).tool = "write" /\ ran[c] = "created" /\ Inside(Kind(c).target)

\* tools/result and the sweep of tools/post-execute.
Result(c) ==
  /\ stage[c] = "ran" /\ Moves(c, "settled")
  /\ created' = IF Promoted(c) THEN [created EXCEPT ![Agent(c)] = @ \cup {Path(c)}]
                ELSE created
  /\ pending' = Forgotten(c)
  /\ \E swept \in SUBSET {d \in loopGuardPinned : stage[d] # "asked"} :
       loopGuardPinned' = loopGuardPinned \ swept
  /\ UNCHANGED <<config, changes, call, seq, inner, fired, files, audit, released,
                 readings, escalated, ran, wrote>>

\* The operator edits the settings; somebody else changes a file.
ChangeSettings ==
  /\ changes < MaxChanges /\ changes' = changes + 1
  /\ config' \in Configs \ {config}
  /\ UNCHANGED <<call, stage, guardVars, registryVars, files, audit, released,
                 readings, escalated, ran, wrote>>
OutsideEdit ==
  /\ changes < MaxChanges /\ changes' = changes + 1
  /\ \E p \in Paths : files' \in {files \cup {p}, files \ {p}}
  /\ UNCHANGED <<config, call, stage, guardVars, registryVars, audit, released,
                 readings, escalated, ran, wrote>>

Init ==
  /\ config \in Configs /\ changes = 0
  /\ call \in {f \in [Calls -> AnyCall] :
                 \A c \in Calls : f[c] \in CallsOf[c]}
  /\ stage = [c \in Calls |-> "idle"]
  /\ Guard!Init /\ loopGuardPinned = {}
  /\ created = [a \in Agents |-> {}] /\ pending = <<>>
  /\ files \in SUBSET Paths /\ audit = {}
  /\ released = [c \in Calls |-> "none"] /\ readings = [c \in Calls |-> <<>>]
  /\ escalated = {} /\ ran = [c \in Calls |-> "no"] /\ wrote = [a \in Agents |-> {}]

Next ==
  \/ \E c \in Calls :
       \/ PreExecute(c) \/ Classified(c) \/ Request(c) \/ Resolve(c)
       \/ GuardDenies(c) \/ Run(c) \/ Result(c)
  \/ ChangeSettings \/ OutsideEdit

Spec == Init /\ [][Next]_vars

-----------------------------------------------------------------------------
(* Properties *)

TypeOK ==
  /\ config \in Configs /\ changes \in 0..MaxChanges
  /\ DOMAIN call = Calls /\ \A c \in Calls : call[c] \in CallsOf[c]
  /\ stage \in [Calls -> Stages] /\ Guard!TypeOK
  /\ loopGuardPinned \subseteq Calls /\ escalated \subseteq Calls /\ audit \subseteq Calls
  /\ pending \in Seq(Calls) /\ Len(pending) <= PlanCap
  /\ released \in [Calls -> Channels \cup {"none"}]
  /\ ran \in [Calls -> {"no", "failed", "created", "changed", "removed", "done"}]
  /\ \A c \in Calls : Len(readings[c]) <= 2

Ran(c) == ran[c] # "no"

\* No tool call takes effect whose allow did not reach the audit log, whichever
\* plane and channel allowed it (index.ts APPROVAL-07; denyOnAuditFailure).
AuditedBeforeRun == \A c \in Calls : Ran(c) => c \in audit

\* Deletions, disk commands and opaque programs run only after a human's
\* approval, whatever rules, lists, categories, modes and settings changes the
\* two planes meet; the exception is the removal of a path that the same
\* session wrote (category.ts HARD_LOCKED_CATEGORIES).  It is stated for
\* arguments the answerer can read in full.
Destructive(c) ==
  AssessTool(Kind(c), {}, FALSE).opaque \/ CategorizeTool(Kind(c)) \in HardLocked
HardLockedNeedsHuman ==
  \A c \in Calls :
    Ran(c) /\ Destructive(c) /\ ~Kind(c).big
    => \/ released[c] = "human"
       \/ Kind(c).tool = "shell-remove" /\ Path(c) \in wrote[Agent(c)]

\* An allow rule or allowlist entry names a tool, so it never releases a read
\* of key material, in either plane (debug-and-decisions.ts:154-164).
SecretsNotByName ==
  \A c \in Calls :
    Ran(c) /\ Kind(c).tool \in Readers /\ SensitiveName(Kind(c).target) /\ ~Kind(c).big
    => released[c] \notin Names \cup {"allowlist-gated"}

\* What the locks keep for a human, no name, mode or list gives away.
LocksHold == HardLockedNeedsHuman /\ SecretsNotByName

\* A call never runs if either plane judged it under settings that deny it, and
\* if every plane that judged it read human-only settings, a human released it:
\* no static allow, classifier verdict or settings change in between gets past
\* the operator's terminals (index.ts:1296-1310).  Of several lines that match, the
\* strictest is what the settings say (rules.ts:433-435, docs/03-static-engine.md
\* section 3.5); the header of the grammar says otherwise (FirstRuleWins).
OperatorTerminals ==
  \A c \in Calls : Ran(c) =>
    /\ \A i \in DOMAIN readings[c] : readings[c][i] # "forbidden"
    /\ (\A i \in DOMAIN readings[c] : readings[c][i] = "human") => released[c] = "human"

\* A call the loop guard fired on is not allowed by any automatic lane later:
\* a human releases it, or a rule that names it (index.ts:2633-2644).
EscalationHolds ==
  \A c \in escalated : Ran(c) => released[c] \in {"human", "rule-allow"}

\* A session's provenance holds only paths that its own successful executions
\* wrote, across failures, refused plans, evictions and other sessions' calls
\* (artifacts.ts:74-105).
ProvenanceEarned == \A a \in Agents : created[a] \subseteq wrote[a]

\* "No name-based channel pre-authorizes delete/disk in either plane"
\* (src/src/index.ts:1346): refuted when the arguments are longer than
\* config.maxArgsChars, which the answerer then cannot read.
NamesNeverUnlock ==
  \A c \in Calls :
    Ran(c) /\ CategorizeTool(Kind(c)) \in HardLocked
    /\ released[c] \in Names \cup {"allowlist-gated"}
    => Kind(c).tool = "shell-remove" /\ Path(c) \in wrote[Agent(c)]

\* "First matching rule wins; only one policy is returned" (rules.ts:29): refuted
\* when a stricter rule stands further down, for the strictest one wins
\* (rules.ts:433-459).
FirstRuleWins ==
  \A c \in Calls : \A plane \in {1, 2} :
    Ruled(c, plane) \in Policies =>
      LET lines == RuleTexts[config.rulesText]
          matching == {i \in DOMAIN lines : Applies(Rule(lines[i]), Subject(call[c], plane))}
      IN \E i \in matching : /\ \A j \in matching : i <= j
                            /\ Ruled(c, plane) = lines[i].policy
=============================================================================

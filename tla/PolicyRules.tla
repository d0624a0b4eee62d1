---------------------------- MODULE PolicyRules ----------------------------
(***************************************************************************)
(* The static policy of one tool call: assessTool (src/src/auto/policy.ts  *)
(* with assessSegment of src/src/auto/shell.ts), the category layer        *)
(* (src/src/auto/category.ts), the name-channel lock                       *)
(* (src/src/auto/debug-and-decisions.ts) and the operator's lists          *)
(* (src/src/auto/decision.ts).  A call is abstracted to its tool family,   *)
(* the target it names and whether its JSON arguments are longer than      *)
(* config.maxArgsChars; a target to where it lies and what it holds.       *)
(***************************************************************************)
EXTENDS Naturals, Sequences

NoPath == "no path"

\* "opened" is a DSH_HOME subtree the operator opened to the structured tools.
\* Temporary roots and the plugin's own development zone are left out.
Areas     == {"workspace", "trusted", "outside", "opened"}
Materials == {"ordinary", "metadata", "gitRef", "secret", "critical", "state"}

Inside(t)       == t.area = "workspace"
SensitiveName(t)    == t.material = "secret"
ProtectedProject(t) == Inside(t) /\ t.material \in {"metadata", "gitRef", "secret"}
ProtectedRead(t)    == ProtectedProject(t) /\ t.material # "gitRef"
CredentialTarget(t) == t.material \in {"secret", "critical"}

\* The position gate: the aggressive mode accepts every target.
EffectiveRoutine(t, aggressive) ==
  aggressive \/ t.area \in {"workspace", "trusted"}

HardDestructive(t)  == t.material = "critical"
StateInZone(t)      == t.area = "opened" /\ t.material = "state"
ShellFuse(t)        == HardDestructive(t) \/ t.area = "opened"

-----------------------------------------------------------------------------
(* Tool families *)

Readers  == {"read", "view", "shell-read"}
Mutators == {"write", "edit", "create", "patch"}
Creators == {"write", "create", "patch", "shell-mkdir"}
ShellTools == {"shell-read", "shell-mkdir", "shell-remove", "shell-disk",
               "shell-network", "shell-opaque", "shell-privilege"}
Tools    == Readers \cup Mutators \cup ShellTools \cup
            {"shell-lost", "mutation-lost", "lookup", "session", "external-write",
             "risky-remove", "terminal", "unknown", "dynamic"}

Categories == {"delete", "protected", "privilege", "disk", "networkExec", "publish",
               "fileEdit", "readOnly", "dynamicPlugin", "harnessInternal", "unknown"}
Locked            == {"delete", "protected", "privilege", "disk"}
HardLocked        == {"delete", "disk"}
AggressiveBuiltin == {"networkExec", "publish"}

\* What the answerer's lookup of the arguments shows: a text cut at
\* maxArgsChars no longer parses, and the policy then sees no arguments.
Seen(k) ==
  CASE ~k.big -> k
    [] k.big /\ k.tool \in Mutators \cup {"view"} -> [k EXCEPT !.tool = "mutation-lost"]
    [] k.big /\ k.tool \in ShellTools -> [k EXCEPT !.tool = "shell-lost"]
    [] k.big /\ k.tool \in {"read", "lookup", "external-write", "risky-remove"} ->
         [k EXCEPT !.target = [path |-> NoPath, area |-> "workspace", material |-> "ordinary"]]
    [] OTHER -> k

-----------------------------------------------------------------------------
(* assessTool *)

Assessment(decision, eligible, high) ==
  [decision |-> decision, eligible |-> eligible, high |-> high, credential |-> FALSE,
   opaque |-> FALSE, proven |-> FALSE, plans |-> FALSE]

Allowed        == Assessment("allow", FALSE, FALSE)
Denied         == Assessment("deny", FALSE, FALSE)
SemanticReview == Assessment("ask", TRUE, FALSE)
RiskyReview    == Assessment("ask", TRUE, TRUE)
ManualReview   == Assessment("ask", FALSE, FALSE)

ReadAssessment(t, aggressive) ==
  IF \/ ~EffectiveRoutine(t, aggressive)
     \/ ProtectedRead(t)
     \/ ~Inside(t) /\ SensitiveName(t)
  THEN [SemanticReview EXCEPT !.credential = CredentialTarget(t)]
  ELSE Allowed

\* A write records its target as a planned create when it is allowed, the two
\* other creating tools also when they are asked about.
MutationAssessment(tool, t, aggressive) ==
  LET guarded == ProtectedProject(t) \/ SensitiveName(t)
      gated   == \/ ~EffectiveRoutine(t, aggressive)
                 \/ ProtectedProject(t)
                 \/ ~Inside(t) /\ SensitiveName(t)
  IN CASE HardDestructive(t) \/ StateInZone(t) -> Denied
       [] t.area = "opened" /\ ~StateInZone(t) /\ guarded ->
            [SemanticReview EXCEPT !.plans = tool = "patch"]
       [] t.area = "opened" /\ ~StateInZone(t) /\ ~guarded ->
            [Allowed EXCEPT !.plans = tool \in Creators]
       [] t.area # "opened" /\ ~HardDestructive(t) /\ gated ->
            [RiskyReview EXCEPT !.plans = tool \in {"create", "patch"}]
       [] OTHER -> [Allowed EXCEPT !.plans = tool \in Creators]

\* mkdir, touch and New-Item.
CreationAssessment(t, aggressive) ==
  CASE ShellFuse(t) -> Denied
    [] ~ShellFuse(t) /\
       (\/ ~EffectiveRoutine(t, aggressive) \/ ProtectedProject(t)
        \/ ~Inside(t) /\ SensitiveName(t)) -> SemanticReview
    [] OTHER -> [Allowed EXCEPT !.plans = TRUE]

\* own: the paths the registry knows this session to have created.
RemovalAssessment(t, own) ==
  CASE ShellFuse(t) -> Denied
    [] ~ShellFuse(t) /\ Inside(t) /\ t.path \in own -> [Allowed EXCEPT !.proven = TRUE]
    [] OTHER -> SemanticReview

ShellAssessment(k, own, aggressive) ==
  CASE k.tool = "shell-privilege"   -> Denied
    [] k.tool = "shell-opaque"      -> [Assessment("ask", FALSE, TRUE) EXCEPT !.opaque = TRUE]
    [] k.tool = "shell-read"        -> ReadAssessment(k.target, aggressive)
    [] k.tool = "shell-mkdir"       -> CreationAssessment(k.target, aggressive)
    [] k.tool = "shell-remove"      -> RemovalAssessment(k.target, own)
    [] k.tool \in {"shell-disk", "shell-network"} -> SemanticReview

\* The fuse of the tools without a file operation of their own: nothing that leaves
\* the host carries credentials (its target is what it sends), and no destructive
\* plugin tool takes a critical path.
Fused(k) ==
  \/ k.tool \in {"lookup", "external-write"} /\ SensitiveName(k.target)
  \/ k.tool = "risky-remove" /\ HardDestructive(k.target)

AssessTool(k, own, aggressive) ==
  CASE Fused(k)                                    -> Denied
    [] k.tool \in ShellTools                       -> ShellAssessment(k, own, aggressive)
    [] k.tool = "shell-lost"                       -> ManualReview
    [] k.tool = "mutation-lost"                    -> Denied
    [] k.tool \in {"read", "view"}                 -> ReadAssessment(k.target, aggressive)
    [] k.tool \in Mutators                         -> MutationAssessment(k.tool, k.target, aggressive)
    [] k.tool = "terminal"                         -> Assessment("ask", FALSE, TRUE)
    [] k.tool = "session"                          -> Allowed
    [] k.tool = "lookup" /\ ~Fused(k)              -> Allowed
    [] k.tool \in {"external-write", "risky-remove"} /\ ~Fused(k) -> RiskyReview
    [] k.tool \in {"unknown", "dynamic"}           -> SemanticReview

RiskFromAssessment(a) ==
  CASE a.decision = "allow"            -> "LOW"
    [] a.decision = "deny"             -> "DENY"
    [] a.decision = "ask" /\ a.high    -> "HIGH"
    [] a.decision = "ask" /\ ~a.high   -> "MEDIUM"

-----------------------------------------------------------------------------
(* The category layer *)

CategorizeTool(k) ==
  CASE k.tool \in Readers ->
         IF SensitiveName(k.target) \/ ProtectedRead(k.target) THEN "protected" ELSE "readOnly"
    [] k.tool \in Mutators \cup {"shell-mkdir"} ->
         IF SensitiveName(k.target) \/ ProtectedProject(k.target) THEN "protected" ELSE "fileEdit"
    [] k.tool \in {"shell-remove", "risky-remove"}  -> "delete"
    [] k.tool = "shell-disk"                        -> "disk"
    [] k.tool \in {"shell-network", "lookup"}       -> "networkExec"
    [] k.tool \in {"shell-privilege", "terminal"}   -> "privilege"
    [] k.tool = "external-write"                    -> "publish"
    [] k.tool = "dynamic"                           -> "dynamicPlugin"
    [] k.tool = "session"                           -> "harnessInternal"
    [] OTHER                                        -> "unknown"

\* Faulty variant: the deletion exemption is not part of the lifted locks.
UnlockedByOptOut(g, category, a) ==
  \/ category = "privilege" /\ g.privilegeAutoReview
  \/ category = "protected" /\ g.protectedAutoReview
  \/ category = "delete"

\* Whether an opt-out or the registry's provenance lifts the lock of a category.
Unlocked(g, category, a) ==
  \/ category = "privilege" /\ g.privilegeAutoReview
  \/ category = "protected" /\ g.protectedAutoReview /\ ~a.credential
  \/ category = "delete" /\ a.proven

CategoryDirective(g, category, a) ==
  LET explicit == g.policy # "unset"
      lockHolds == category \in Locked /\ ~Unlocked(g, category, a)
      value == CASE explicit -> g.policy
                 [] ~explicit /\ category = "protected" /\ Unlocked(g, category, a) -> "ask"
                 [] ~explicit /\ g.aggressive /\ category \in AggressiveBuiltin -> "auto"
                 [] OTHER -> "inherit"
  IN CASE a.opaque -> "ask"
       [] ~a.opaque /\ category \in {"unknown", "harnessInternal"} -> "inherit"
       [] ~a.opaque /\ lockHolds ->
            IF explicit \/ category \in HardLocked \/ g.aggressive THEN "ask" ELSE "inherit"
       [] ~a.opaque /\ ~lockHolds /\ category \notin {"unknown", "harnessInternal"} ->
            IF value = "auto" /\ ~(a.decision = "ask" /\ a.eligible) THEN "inherit" ELSE value

ApplyCategoryDirective(risk, directive, a) ==
  IF directive = "auto" /\ a.decision = "ask" /\ a.eligible /\ risk \notin {"HIGH", "DENY"}
  THEN "LOW" ELSE risk

\* The answerer's lock predicate.
IsLockedCategory(g, category, a) ==
  a.opaque \/ (category \in Locked /\ ~Unlocked(g, category, a))

\* Why an allowlist entry or an allow rule may not settle the call.
NameChannelLockRefusal(category, a) ==
  \/ a.opaque
  \/ ~(category = "delete" /\ a.proven) /\ (a.credential \/ category \in HardLocked)

=============================================================================

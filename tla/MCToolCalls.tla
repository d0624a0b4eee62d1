---------------------------- MODULE MCToolCalls -----------------------------
(* Instances of the tool-call pipeline for TLC.  One call is of any of the   *)
(* kinds that take a path of their own through the planes; its companion     *)
(* touches the same file.  An operator starts from the shipped settings with *)
(* the loop guard on and changes one or more of them.                        *)
EXTENDS ToolCalls, TLC

CONSTANTS c1, c2

\* Lines of rulesText.
Pair(key, value, negated) == [key |-> key, value |-> value, negated |-> negated, legal |-> TRUE]
Line(prefix, tools, hits, policy, field) ==
  [prefix |-> prefix, tools |-> tools, hits |-> hits, policy |-> policy, field |-> field,
   wellFormed |-> TRUE]
Named(policy) == Line(<<>>, Tools, {"name"}, policy, "toolName")

\* A deny behind an allow, in a text the call carries beside its first one.
Hidden == << Line(<<>>, {"edit", "shell-network"}, {"primary"}, "allow", "arguments"),
             Line(<<>>, Tools, {"rest"}, "deny", "arguments") >>
\* A person for whatever the main agent did not call itself; the allow is for it.
Delegated == << Line(<<Pair("agent", "main", FALSE)>>, Tools, {"primary", "envelope"}, "allow",
                     "arguments"),
                Line(<<Pair("agent", "main", TRUE), Pair("workspace", "here", FALSE)>>, Tools,
                     {"primary"}, "human", "arguments") >>
\* An older line is a pattern; another session's line is not for this one.
Older == << Line(<<[Pair("other", "a-z", FALSE) EXCEPT !.key = "none"]>>, {"write"}, {"primary"},
                 "deny", "arguments"),
            Line(<<Pair("agent", "sub", FALSE)>>, {"edit", "read", "shell-network"}, {"nothing", "reason"},
                 "deny", "reason") >>
\* A key the grammar does not know puts the text out of force.
Mistyped == << Named("allow"), Line(<<Pair("other", "main", FALSE)>>, Tools, Texts, "deny", "arguments") >>

RulesTexts == "none" :> <<>> @@ "human" :> <<Named("human")>> @@ "allow" :> <<Named("allow")>>
  @@ "reasons" :> <<Line(<<>>, Tools, {"reason"}, "allow", "reason")>>
  @@ "delegated" :> Delegated @@ "hidden" :> Hidden @@ "mistyped" :> Mistyped @@ "older" :> Older

Defaults ==
  [rulesText |-> "none", rulesDryRun |-> FALSE, list |-> "none",
   policy |-> "unset", aggressive |-> FALSE, privilegeAutoReview |-> FALSE,
   protectedAutoReview |-> FALSE, manual |-> FALSE, reviews |-> TRUE, loops |-> TRUE]

Operators ==
  { Defaults,
    [Defaults EXCEPT !.rulesText = "human", !.list = "allow"],
    [Defaults EXCEPT !.rulesText = "allow", !.aggressive = TRUE],
    [Defaults EXCEPT !.rulesText = "reasons", !.policy = "ask"],
    [Defaults EXCEPT !.rulesText = "delegated", !.list = "deny"],
    [Defaults EXCEPT !.rulesText = "hidden", !.list = "human", !.manual = TRUE],
    [Defaults EXCEPT !.rulesText = "mistyped", !.list = "allow", !.policy = "deny",
                     !.protectedAutoReview = TRUE],
    [Defaults EXCEPT !.rulesText = "older", !.policy = "auto", !.aggressive = TRUE,
                     !.reviews = FALSE],
    [Defaults EXCEPT !.rulesText = "hidden", !.rulesDryRun = TRUE, !.policy = "deny",
                     !.loops = FALSE] }

At(area, material) == [path |-> "p", area |-> area, material |-> material]
Plain    == At("workspace", "ordinary")
Nowhere  == [Plain EXCEPT !.path = NoPath]
Call(tool, target, big) == [tool |-> tool, target |-> target, big |-> big]

AnyKind ==
  { Call("write", Plain, FALSE), Call("create", Plain, FALSE), Call("edit", Plain, TRUE),
    Call("edit", [Nowhere EXCEPT !.material = "metadata"], FALSE),
    Call("write", [Nowhere EXCEPT !.area = "outside", !.material = "critical"], FALSE),
    Call("read", [Nowhere EXCEPT !.material = "secret"], FALSE),
    Call("shell-remove", Plain, FALSE), Call("shell-remove", Plain, TRUE),
    Call("shell-disk", Nowhere, FALSE), Call("shell-opaque", Nowhere, FALSE),
    Call("shell-network", Nowhere, FALSE), Call("shell-mkdir", Plain, FALSE),
    Call("patch", [Plain EXCEPT !.material = "metadata"], FALSE),
    Call("external-write", Nowhere, FALSE), Call("terminal", Nowhere, FALSE),
    Call("external-write", [Nowhere EXCEPT !.material = "secret"], FALSE),
    Call("risky-remove", [Nowhere EXCEPT !.area = "outside", !.material = "critical"], FALSE) }
Companions == { Call("write", Plain, FALSE), Call("shell-remove", Plain, FALSE) }

\* The companion is the root agent's; a subagent touches the same file, and any
\* agent may be refused by a rule.
Sessions == {"root", "sub", "guest"}
Headers  == "root" :> "main" @@ "sub" :> "subagent" @@ "guest" :> "unknown"
Network  == Call("shell-network", Nowhere, FALSE)
OneOfAnyKind ==
  c1 :> ([kind : AnyKind, agent : {"root"}]
         \cup [kind : {k \in AnyKind : k.target.path # NoPath} \cup {Network}, agent : {"sub"}]
         \cup [kind : {Network}, agent : {"guest"}])
  @@ c2 :> [kind : Companions, agent : {"root"}]
=============================================================================

---------------------------- MODULE DeclaredRules ---------------------------
(***************************************************************************)
(* The declared rules of the operator (src/src/auto/rules.ts): how a line  *)
(* of rulesText is read and what the rules answer about a call.            *)
(*                                                                         *)
(* A line keeps the items of its scope prefix, the shape of the rest and   *)
(* what its pattern matches.  A pattern is the set of texts of a call it   *)
(* matches, of those in Texts; "nothing" is the empty text.                *)
(***************************************************************************)
EXTENDS Naturals, Sequences
LOCAL INSTANCE SequencesExt

Policies == {"allow", "human", "deny"}
Fields   == {"arguments", "toolName", "reason"}
Texts    == {"primary", "rest", "envelope", "name", "reason", "nothing"}

\* An item of a prefix.  The key is "none" where the item is no key:value pair,
\* "blank" where it is empty, "other" where the grammar does not know it.
\* legal: the value is one the grammar accepts.
Keys == {"agent", "workspace", "other", "none", "blank"}
Items == [key : Keys, value : STRING, negated : BOOLEAN, legal : BOOLEAN]

\* tools: the tools it is for; wellFormed: the part behind the prefix has a
\* policy, a field and a pattern the grammar accepts.
Lines == [prefix : Seq(Items), tools : SUBSET STRING, hits : SUBSET Texts,
          policy : Policies, field : Fields, wellFormed : BOOLEAN]

-----------------------------------------------------------------------------
(* parseRulesText *)

Header(kind, scope) == [kind |-> kind, scope |-> scope]

\* parseDimensionHeader: the first item without the shape of a pair decides
\* between a fault and the older reading of the whole line as a pattern; then
\* every pair must be known, new and legal.
ParseDimensionHeader(prefix) ==
  LET shapeless == {i \in DOMAIN prefix : prefix[i].key \in {"none", "blank"}}
      first == CHOOSE i \in shapeless : \A j \in shapeless : i <= j
      faulty == \E i \in DOMAIN prefix :
                  \/ prefix[i].key = "other" \/ ~prefix[i].legal
                  \/ \E j \in 1..(i - 1) : prefix[j].key = prefix[i].key
  IN CASE prefix = <<>> -> Header("none", {})
       [] prefix # <<>> /\ shapeless # {} ->
            Header(IF prefix[first].key = "blank" THEN "error" ELSE "none", {})
       [] prefix # <<>> /\ shapeless = {} ->
            IF faulty THEN Header("error", {})
            ELSE Header("scope", {prefix[i] : i \in DOMAIN prefix})

Faulty(line) == ParseDimensionHeader(line.prefix).kind = "error" \/ ~line.wellFormed

Rule(line) ==
  [tools |-> line.tools, hits |-> line.hits, policy |-> line.policy, field |-> line.field,
   scope |-> ParseDimensionHeader(line.prefix).scope]

-----------------------------------------------------------------------------
(* evaluateRules.  A subject is what one plane knows of a call: its tool,   *)
(* the texts of its arguments in the order of extractRuleTargets, the text  *)
(* of the approval reason, the session and kind of its agent and the        *)
(* workspace root ("unknown" where one cannot be established).              *)

RuleMatches(rule, s) ==
  CASE rule.field = "toolName" -> "name" \in rule.hits
    [] rule.field = "reason"   -> s.reason \in rule.hits
    [] rule.field = "arguments" ->
         IF rule.policy = "allow" THEN s.targets # <<>> /\ Head(s.targets) \in rule.hits
         ELSE \E i \in DOMAIN s.targets : s.targets[i] \in rule.hits

\* What an agent or workspace value is compared with.
Compared(item, s) ==
  CASE item.key = "workspace" -> s.workspace
    [] item.key = "agent" /\ item.value \in {"main", "subagent"} -> s.kind
    [] OTHER -> s.agent

MatchDimensions(scope, s) ==
  \A item \in scope :
    LET known == Compared(item, s)
    IN known # "unknown" /\ (known = item.value) # item.negated

Severity == [none |-> 0, allow |-> 1, human |-> 2, deny |-> 3]

\* Faulty variant: the first rule that matches wins.
StricterFirst(winner, policy) == IF winner = "none" THEN policy ELSE winner

\* The code takes the strictest; rules.ts:29 still promises the first.
Stricter(winner, policy) ==
  IF Severity[policy] > Severity[winner] THEN policy ELSE winner

Applies(rule, s) ==
  MatchDimensions(rule.scope, s) /\ s.tool \in rule.tools /\ RuleMatches(rule, s)

EvaluateRules(rules, s) ==
  FoldLeft(LAMBDA winner, rule : IF Applies(rule, s) THEN Stricter(winner, rule.policy)
                                 ELSE winner,
           "none", rules)

\* How both planes read the text: a faulty line puts the whole text out of
\* force.  "unsure": nothing matched, but a deny or human rule has a scope that
\* cannot be established.
RuleVerdict(lines, dryRun, s) ==
  LET rules == [i \in DOMAIN lines |-> Rule(lines[i])]
      matched == EvaluateRules(rules, s)
  IN CASE \E i \in DOMAIN lines : Faulty(lines[i]) -> "none"
       [] OTHER ->
            IF matched # "none" THEN (IF dryRun THEN "none" ELSE matched)
            ELSE IF /\ s.kind = "unknown" \/ s.workspace = "unknown"
                    /\ \E i \in DOMAIN rules : rules[i].scope # {} /\ rules[i].policy # "allow"
                 THEN "unsure" ELSE "none"
=============================================================================

--------------------------- MODULE ToolCallsProofs --------------------------
(***************************************************************************)
(* The safety of tool calls for every set of calls and agents, every       *)
(* assignment of kinds and settings and every limit: what runs is on       *)
(* record, what the loop guard caught stays with a human, what is          *)
(* destructive or secret is released by no name, and provenance is earned. *)
(*                                                                         *)
(* None of this is inductive.  Lives(c) ties the stage of a call to its    *)
(* record, its mark and its release, and Held(c) leans on Provenance: a    *)
(* removal escapes the lock only through a path of its own session, which  *)
(* a result may register because creating tools report what they wrote.    *)
(* A step moves one call (Frame) and only widens what the others rely on.  *)
(*                                                                         *)
(* The last part is about the operator's settings: the loop over the       *)
(* declared rules finds the strictest that applies, a rule applies to the  *)
(* calls its line was written for, and no lane of either plane gets past   *)
(* what the settings it reads forbid or keep for a human (Obeys).          *)
(***************************************************************************)
EXTENDS ToolCalls, TLAPS
LOCAL W == INSTANCE WellFoundedInduction

\* Every nonempty set of natural numbers has a least one.
LEMMA LeastOne ==
  ASSUME NEW T \in SUBSET Nat, T # {} PROVE \E x \in T : \A y \in T : x <= y
<1>. DEFINE R == W!OpToRel(<, Nat)
<1>1. \A a, b \in Nat : a < b => <<a, b>> \in R
  BY DEF W!OpToRel
<1>2. W!IsWellFoundedOn(R, Nat)
  BY W!NatLessThanWellFounded
<1>. HIDE DEF R
<1>3. PICK x \in T : \A y \in T : <<y, x>> \notin R
  BY <1>2, W!WFMin
<1>4. \A y \in T : ~(y < x)
  BY <1>1, <1>3
<1> QED
  BY <1>4

LOCAL INSTANCE SequencesExt
LOCAL INSTANCE Folds
LOCAL INSTANCE FiniteSetsExt

-----------------------------------------------------------------------------
(* The lanes of the two planes *)

\* A plane takes the lane of its first condition that holds.
LEMMA FirstReturn ==
  ASSUME NEW returns, NEW m \in Nat, DOMAIN returns = 1..m,
         NEW n \in 1..m, returns[n].when
  PROVE  \E i \in 1..n : /\ returns[i].when /\ \A j \in 1..(i - 1) : ~returns[j].when
                         /\ First(returns) = returns[i].lane
<1>. DEFINE T == {j \in 1..m : returns[j].when}
            Taken(j) == returns[j].when /\ \A l \in 1..(j - 1) : ~returns[l].when
            i == CHOOSE j \in DOMAIN returns : Taken(j)
<1>1. PICK x \in T : \A y \in T : x <= y
  <2>1. T \in SUBSET Nat /\ n \in T
    OBVIOUS
  <2>. HIDE DEF T
  <2> QED
    BY <2>1, LeastOne
<1>2. \A j \in 1..(x - 1) : j \in 1..m /\ ~(x <= j)
  BY <1>1
<1>3. x \in DOMAIN returns /\ Taken(x)
  BY <1>1, <1>2
<1>4. i \in 1..m /\ Taken(i)
  BY <1>3
<1>5. First(returns) = returns[i].lane
  BY DEF First
<1>. HIDE DEF i
<1>6. ~(n < i)
  <2>1. n < i => n \in 1..(i - 1)
    BY <1>4
  <2> QED
    BY <1>4, <2>1
<1>7. i \in 1..n
  BY <1>4, <1>6
<1> QED
  BY <1>4, <1>5, <1>7

\* A call the loop guard has pinned reaches no automatic lane but a rule of its
\* own.
LEMMA PinnedLanes ==
  ASSUME NEW g, NEW rule, NEW category, NEW a, NEW tripped, NEW pinned, pinned
  PROVE  AnswererLane(g, rule, category, a, pinned, tripped)
           \notin {"allowlist-gated", "auto-allow", "ordinary"}
<1>. DEFINE R == AnswererReturns(g, rule, category, a, pinned, tripped)
<1>1. 15 \in Nat /\ DOMAIN R = 1..15 /\ 8 \in 1..15 /\ R[8].when
  BY DEF AnswererReturns, Return
<1>2. \A i \in 1..8 : R[i].lane \notin {"allowlist-gated", "auto-allow", "ordinary"}
  BY DEF AnswererReturns, Return
<1>3. \E i \in 1..8 : First(R) = R[i].lane
  <2>. HIDE DEF R
  <2> QED
    BY <1>1, FirstReturn
<1> QED
  BY <1>2, <1>3 DEF AnswererLane

\* What only a human may approve, by directive and by name, reaches no other
\* lane of the answerer.
LEMMA LockedAnswer ==
  ASSUME NEW g, NEW rule, NEW category, NEW a, NEW pinned, NEW tripped,
         CategoryDirective(g, category, a) = "ask", NameChannelLockRefusal(category, a)
  PROVE  AnswererLane(g, rule, category, a, pinned, tripped)
           \notin {"rule-allow", "allowlist-gated", "auto-allow", "ordinary"}
<1>. DEFINE R == AnswererReturns(g, rule, category, a, pinned, tripped)
<1>1. 15 \in Nat /\ DOMAIN R = 1..15 /\ 12 \in 1..15
  BY DEF AnswererReturns, Return
<1>2. R[12].when
  BY DEF AnswererReturns, Return
<1>3. \A i \in 1..12 : i \notin {4, 10} =>
        R[i].lane \notin {"rule-allow", "allowlist-gated", "auto-allow", "ordinary"}
  BY DEF AnswererReturns, Return
<1>4. R[4].when => R[3].when
  BY DEF AnswererReturns, Return
<1>5. R[10].when => R[9].when
  BY DEF AnswererReturns, Return
<1>6. PICK i \in 1..12 : /\ R[i].when /\ \A j \in 1..(i - 1) : ~R[j].when
                         /\ First(R) = R[i].lane
  <2>. HIDE DEF R
  <2> QED
    BY <1>1, <1>2, FirstReturn
<1>7. i \notin {4, 10}
  <2>. HIDE DEF R
  <2>1. 3 \in 1..(4 - 1) /\ 9 \in 1..(10 - 1)
    OBVIOUS
  <2> QED
    BY <1>4, <1>5, <1>6, <2>1
<1> QED
  BY <1>3, <1>6, <1>7 DEF AnswererLane

\* The same of the first plane.
LEMMA LockedPreExecute ==
  ASSUME NEW g, NEW rule, NEW category, NEW a,
         CategoryDirective(g, category, a) = "ask", NameChannelLockRefusal(category, a)
  PROVE  PreExecuteLane(g, rule, category, a)
           \notin {"rule-allow", "allowlist-allow", "static-allow", "classify"}
<1>. DEFINE R == PreExecuteReturns(g, rule, category, a)
<1>1. 12 \in Nat /\ DOMAIN R = 1..12 /\ 8 \in 1..12
  BY DEF PreExecuteReturns, Return
<1>2. R[8].when
  BY DEF PreExecuteReturns, Return
<1>3. \A i \in 1..8 : i # 4 =>
        R[i].lane \notin {"rule-allow", "allowlist-allow", "static-allow", "classify"}
  BY DEF PreExecuteReturns, Return
<1>4. R[4].when => R[3].when
  BY DEF PreExecuteReturns, Return
<1>5. PICK i \in 1..8 : /\ R[i].when /\ \A j \in 1..(i - 1) : ~R[j].when
                        /\ First(R) = R[i].lane
  <2>. HIDE DEF R
  <2> QED
    BY <1>1, <1>2, FirstReturn
<1>6. i # 4
  <2>. HIDE DEF R
  <2>1. 3 \in 1..(4 - 1)
    OBVIOUS
  <2> QED
    BY <1>4, <1>5, <2>1
<1> QED
  BY <1>3, <1>5, <1>6 DEF PreExecuteLane

\* What is refused to every name is released by none, in either plane.
LEMMA RefusedToNames ==
  ASSUME NEW g, NEW rule, NEW category, NEW a, NEW pinned, NEW tripped,
         NameChannelLockRefusal(category, a)
  PROVE  /\ PreExecuteLane(g, rule, category, a) \notin {"rule-allow", "allowlist-allow"}
         /\ AnswererLane(g, rule, category, a, pinned, tripped)
              \notin {"rule-allow", "allowlist-gated"}
<1>1. PreExecuteLane(g, rule, category, a) \notin {"rule-allow", "allowlist-allow"}
  <2>. DEFINE R == PreExecuteReturns(g, rule, category, a)
              m == 12
  <2>1. m \in Nat /\ DOMAIN R = 1..m /\ m \in 1..m /\ R[m].when
    BY DEF PreExecuteReturns, Return
  <2>2. \A i \in 1..12 : i \notin {4, 9} => R[i].lane \notin {"rule-allow", "allowlist-allow"}
    BY DEF PreExecuteReturns, Return
  <2>3. R[4].when => R[3].when
    BY DEF PreExecuteReturns, Return
  <2>4. R[9].when => R[8].when
    BY DEF PreExecuteReturns, Return
  <2>5. First(R) = PreExecuteLane(g, rule, category, a)
    BY DEF PreExecuteLane
  <2>. HIDE DEF R
  <2>6. PICK i \in 1..m : /\ R[i].when /\ \A j \in 1..(i - 1) : ~R[j].when
                          /\ First(R) = R[i].lane
    <3>. HIDE DEF m
    <3> QED
      BY <2>1, FirstReturn
  <2>7. 3 \in 1..(4 - 1) /\ 8 \in 1..(9 - 1)
    OBVIOUS
  <2> QED
    BY <2>2, <2>3, <2>4, <2>5, <2>6, <2>7
<1>2. AnswererLane(g, rule, category, a, pinned, tripped) \notin {"rule-allow", "allowlist-gated"}
  <2>. DEFINE R == AnswererReturns(g, rule, category, a, pinned, tripped)
              m == 15
  <2>1. m \in Nat /\ DOMAIN R = 1..m /\ m \in 1..m /\ R[m].when
    BY DEF AnswererReturns, Return
  <2>2. \A i \in 1..15 : i \notin {4, 10} => R[i].lane \notin {"rule-allow", "allowlist-gated"}
    BY DEF AnswererReturns, Return
  <2>3. R[4].when => R[3].when
    BY DEF AnswererReturns, Return
  <2>4. R[10].when => R[9].when
    BY DEF AnswererReturns, Return
  <2>5. First(R) = AnswererLane(g, rule, category, a, pinned, tripped)
    BY DEF AnswererLane
  <2>. HIDE DEF R
  <2>6. PICK i \in 1..m : /\ R[i].when /\ \A j \in 1..(i - 1) : ~R[j].when
                          /\ First(R) = R[i].lane
    <3>. HIDE DEF m
    <3> QED
      BY <2>1, FirstReturn
  <2>7. 3 \in 1..(4 - 1) /\ 9 \in 1..(10 - 1)
    OBVIOUS
  <2> QED
    BY <2>2, <2>3, <2>4, <2>5, <2>6, <2>7
<1> QED
  BY <1>1, <1>2

-----------------------------------------------------------------------------
(* The static policy *)

\* Only the tools that create files plan a creation, and only the removal of a
\* path of the session itself is proven.
LEMMA AssessmentFacts ==
  ASSUME NEW k \in CallKinds, NEW own, NEW aggressive
  PROVE  LET a == AssessTool(k, own, aggressive)
         IN /\ a.plans => k.tool \in Creators
            /\ a.proven => k.tool = "shell-remove" /\ k.target.path \in own
            /\ a.opaque <=> k.tool = "shell-opaque"
<1>. USE DEF CallKinds, Tools, ShellTools, Readers, Mutators, Creators, Assessment, Allowed,
         Denied, SemanticReview, RiskyReview, ManualReview
<1>1. CASE k.tool \in {"read", "view", "shell-read"}
  BY <1>1 DEF AssessTool, ShellAssessment, ReadAssessment
<1>2. CASE k.tool \in Mutators
  BY <1>2 DEF AssessTool, MutationAssessment
<1>3. CASE k.tool = "shell-mkdir"
  BY <1>3 DEF AssessTool, ShellAssessment, CreationAssessment
<1>4. CASE k.tool = "shell-remove"
  BY <1>4 DEF AssessTool, ShellAssessment, RemovalAssessment
<1>5. CASE k.tool \in {"shell-privilege", "shell-opaque", "shell-disk", "shell-network"}
  BY <1>5 DEF AssessTool, Fused, ShellAssessment
<1>6. CASE k.tool \in {"shell-lost", "mutation-lost", "terminal", "lookup", "session",
                       "external-write", "risky-remove", "unknown", "dynamic"}
  BY <1>6 DEF AssessTool, Fused
<1> QED
  BY <1>1, <1>2, <1>3, <1>4, <1>5, <1>6

\* Without provenance, what is destructive is held for a human by its category
\* and refused to every name.
LEMMA DestructiveIsLocked ==
  ASSUME NEW k \in CallKinds, NEW own, NEW g,
         k.tool = "shell-opaque" \/ CategorizeTool(k) \in HardLocked,
         ~AssessTool(k, own, g.aggressive).proven
  PROVE  LET a == AssessTool(k, own, g.aggressive)
         IN /\ CategoryDirective(g, CategorizeTool(k), a) = "ask"
            /\ NameChannelLockRefusal(CategorizeTool(k), a)
<1>. DEFINE a == AssessTool(k, own, g.aggressive)
<1>1. k.tool = "shell-opaque" => a.opaque
  BY AssessmentFacts
<1>. HIDE DEF a
<1>2. CASE a.opaque
  BY <1>2 DEF a, CategoryDirective, NameChannelLockRefusal
<1>3. CASE ~a.opaque
  <2>1. CategorizeTool(k) \in {"delete", "disk"} /\ ~a.proven
    BY <1>1, <1>3 DEF HardLocked, a
  <2> QED
    BY <1>3, <2>1 DEF a, CategoryDirective, NameChannelLockRefusal, Unlocked, Locked, HardLocked
<1> QED
  BY <1>2, <1>3

\* A read of a secret is credential material, whatever the position gate says.
LEMMA SecretIsRefused ==
  ASSUME NEW k \in CallKinds, NEW own, NEW aggressive,
         k.tool \in Readers, SensitiveName(k.target)
  PROVE  NameChannelLockRefusal(CategorizeTool(k), AssessTool(k, own, aggressive))
<1>1. ReadAssessment(k.target, aggressive).credential
  BY DEF ReadAssessment, SensitiveName, ProtectedRead, ProtectedProject, Inside, CredentialTarget,
         SemanticReview, Assessment
<1>2. AssessTool(k, own, aggressive) = ReadAssessment(k.target, aggressive)
  <2>1. CASE k.tool = "shell-read"
    <3>1. AssessTool(k, own, aggressive) = ShellAssessment(k, own, aggressive)
      BY <2>1 DEF AssessTool, Fused, ShellTools, Mutators
    <3>2. ShellAssessment(k, own, aggressive) = ReadAssessment(k.target, aggressive)
      BY <2>1 DEF ShellAssessment
    <3> QED
      BY <3>1, <3>2
  <2>2. CASE k.tool \in {"read", "view"}
    BY <2>2 DEF AssessTool, Fused, ShellTools, Mutators
  <2> QED
    BY <2>1, <2>2 DEF Readers
<1>3. CategorizeTool(k) = "protected"
  BY DEF CategorizeTool, Readers
<1> QED
  BY <1>1, <1>2, <1>3 DEF NameChannelLockRefusal

-----------------------------------------------------------------------------
(* The inductive invariant *)

Outcomes == {"no", "failed", "created", "changed", "removed", "done"}

\* What the proof needs of the types.
Shapes ==
  /\ \A c \in Calls : Kind(c) \in CallKinds /\ Agent(c) \in Agents
  /\ stage \in [Calls -> Stages] /\ ran \in [Calls -> Outcomes]
  /\ released \in [Calls -> Channels \cup {"none"}]
  /\ created \in [Agents -> SUBSET STRING] /\ wrote \in [Agents -> SUBSET STRING]
  /\ pending \in Seq(Calls) /\ escalated \subseteq Calls

\* A call executes after it was allowed, and once.
Executes(c) == ran[c] # "no" <=> stage[c] \in {"ran", "settled"}

Passed(c) == stage[c] \in {"allowed", "ran", "settled"}

\* What was allowed is on record.
Recorded(c) == Passed(c) => c \in audit

\* A call the loop guard fired on stays with a human: the mark carries it to the
\* answerer, which opens no ask that a timer or a reviewer may settle.
Escalated(c) ==
  c \in escalated =>
    /\ stage[c] \notin {"idle", "classifying", "ordinary"}
    /\ stage[c] = "asked" => c \in loopGuardPinned
    /\ Passed(c) => released[c] \in {"human", "rule-allow"}

\* What a creating tool reports, and whom its file belongs to.
Wrote(c) ==
  /\ ran[c] \in {"created", "changed"} => Path(c) \in wrote[Agent(c)]
  /\ Kind(c).tool \in Creators => ran[c] \in {"no", "failed", "created", "changed"}

\* A destructive call is never on a way that ends without a human, unless it
\* removes a path its session wrote.
Held(c) ==
  (Kind(c).tool = "shell-opaque" \/ CategorizeTool(Kind(c)) \in HardLocked) /\ ~Kind(c).big =>
    \/ Kind(c).tool = "shell-remove" /\ Path(c) \in wrote[Agent(c)]
    \/ /\ stage[c] \notin {"classifying", "ordinary"}
       /\ Passed(c) => released[c] = "human"

Secret(k) == k.tool \in Readers /\ SensitiveName(k.target) /\ ~k.big

\* No name has released a read of a secret.
Unnamed(c) ==
  Secret(Kind(c)) /\ Passed(c) => released[c] \notin Names \cup {"allowlist-gated"}

Lives(c) ==
  Executes(c) /\ Recorded(c) /\ Escalated(c) /\ Wrote(c) /\ Held(c) /\ Unnamed(c)

\* Plans come from creating tools, and provenance from the session itself.
Provenance ==
  /\ \A c \in Plans : Kind(c).tool \in Creators
  /\ ProvenanceEarned

SafeInv == Shapes /\ Provenance /\ \A c \in Calls : Lives(c)

-----------------------------------------------------------------------------
(* Steps *)

\* What a step of one call may leave behind for the others: it moves only that
\* call, and adds to what they rely on.
Frame(c) ==
  /\ call' = call
  /\ \A d \in Calls \ {c} :
       /\ stage'[d] = stage[d] /\ ran'[d] = ran[d] /\ released'[d] = released[d]
       /\ d \in audit => d \in audit'
       /\ d \in escalated' => d \in escalated
       /\ stage[d] = "asked" /\ d \in loopGuardPinned => d \in loopGuardPinned'
  /\ \A a \in Agents : wrote[a] \subseteq wrote'[a]

\* A framed step leaves every other call as it was.
LEMMA OthersLive ==
  ASSUME NEW c \in Calls, NEW d \in Calls \ {c}, Shapes, Lives(d), Frame(c)
  PROVE  Lives(d)'
<1>1. Kind(d)' = Kind(d) /\ Agent(d)' = Agent(d) /\ Path(d)' = Path(d) /\ Agent(d) \in Agents
  BY DEF Frame, Shapes, Kind, Agent, Path
<1>2. /\ stage'[d] = stage[d] /\ ran'[d] = ran[d] /\ released'[d] = released[d]
      /\ wrote[Agent(d)] \subseteq wrote'[Agent(d)]
  BY <1>1 DEF Frame
<1>3. Executes(d)' /\ Recorded(d)' /\ Escalated(d)'
  BY <1>2 DEF Frame, Lives, Executes, Recorded, Escalated, Passed
<1>4. Wrote(d)'
  BY <1>1, <1>2 DEF Lives, Wrote
<1>5. Held(d)'
  BY <1>1, <1>2 DEF Lives, Held, Passed
<1>6. Unnamed(d)'
  BY <1>1, <1>2 DEF Lives, Unnamed, Passed
<1> QED
  BY <1>3, <1>4, <1>5, <1>6 DEF Lives

\* A framed step keeps the invariant if it keeps the parts of its own call.
LEMMA FramedStep ==
  ASSUME NEW c \in Calls, SafeInv, Frame(c), Shapes', Provenance', Lives(c)'
  PROVE  SafeInv'
<1>1. \A d \in Calls \ {c} : Lives(d)'
  BY OthersLive DEF SafeInv
<1> QED
  BY <1>1 DEF SafeInv

\* The gate lets the call go or leaves the mark on it.
LEMMA GateOutcome ==
  ASSUME NEW c, NEW plane, NEW channel, NEW escalation, Gate(c, plane, channel, escalation)
  PROVE  \/ Release(c, channel) /\ UNCHANGED <<loopGuardPinned, escalated>>
         \/ /\ Moves(c, escalation) /\ UNCHANGED <<audit, released>>
            /\ loopGuardPinned' = loopGuardPinned \cup {c} /\ escalated' = escalated \cup {c}
BY DEF Gate, NoGate, guardVars

\* An allowed creation adds at most its own plan.
LEMMA PlannedPlans ==
  ASSUME NEW c \in Calls, NEW a, pending \in Seq(Calls)
  PROVE  /\ Planned(c, a) \in Seq(Calls)
         /\ \A i \in DOMAIN Planned(c, a) :
              Planned(c, a)[i] \in Plans \/ (a.plans /\ Planned(c, a)[i] = c)
<1>. DEFINE longer == Append(pending, c)
<1>1. longer \in Seq(Calls) /\ longer # <<>> /\ Len(longer) = Len(pending) + 1
  OBVIOUS
<1>2. \A i \in DOMAIN longer : longer[i] \in Plans \/ longer[i] = c
  BY DEF Plans
<1>. HIDE DEF longer
<1>3. /\ Tail(longer) \in Seq(Calls)
      /\ \A i \in DOMAIN Tail(longer) : Tail(longer)[i] = longer[i + 1] /\ i + 1 \in DOMAIN longer
  BY <1>1
<1>4. \A i \in DOMAIN pending : pending[i] \in Plans
  BY DEF Plans
<1> QED
  BY <1>1, <1>2, <1>3, <1>4 DEF Planned, longer

\* A settled call leaves the plans of the others.
LEMMA ForgottenPlans ==
  ASSUME NEW c \in Calls, pending \in Seq(Calls)
  PROVE  /\ Forgotten(c) \in Seq(Calls)
         /\ \A i \in DOMAIN Forgotten(c) : Forgotten(c)[i] \in Plans
<1>1. CASE c \notin Plans
  BY <1>1 DEF Forgotten, Plans
<1>2. CASE c \in Plans
  <2>. DEFINE n == CHOOSE i \in DOMAIN pending : pending[i] = c
              rest == [i \in 1..(Len(pending) - 1) |-> pending[IF i < n THEN i ELSE i + 1]]
  <2>1. n \in DOMAIN pending
    BY <1>2 DEF Plans
  <2>. HIDE DEF n
  <2>2. \A i \in 1..(Len(pending) - 1) : rest[i] \in Plans /\ rest[i] \in Calls
    BY <2>1 DEF Plans
  <2>3. Len(pending) - 1 \in Nat
    BY <2>1
  <2>4. rest \in Seq(Calls)
    BY <2>2, <2>3
  <2>5. Forgotten(c) = rest
    BY <1>2 DEF Forgotten, n
  <2> QED
    BY <2>2, <2>3, <2>4, <2>5
<1> QED
  BY <1>1, <1>2

\* Provenance survives a step that only widens what sessions wrote.
LEMMA ProvenanceKept ==
  ASSUME Shapes, Provenance, UNCHANGED <<call, created, pending>>,
         \A a \in Agents : wrote[a] \subseteq wrote'[a]
  PROVE  Provenance'
BY DEF Shapes, Provenance, ProvenanceEarned, Plans, Kind

\* A destructive call finds no unheld lane in either plane, unless it removes a
\* path its session wrote.
LEMMA DestructiveLanes ==
  ASSUME SafeInv, NEW c \in Calls, ~Kind(c).big, NEW pinned, NEW tripped,
         Kind(c).tool = "shell-opaque" \/ CategorizeTool(Kind(c)) \in HardLocked,
         ~(Kind(c).tool = "shell-remove" /\ Path(c) \in wrote[Agent(c)])
  PROVE  LET category == CategorizeTool(Kind(c))
             a == AssessTool(Kind(c), created[Agent(c)], config.aggressive)
         IN /\ PreExecuteLane(config, Ruled(c, 1), category, a)
                 \notin {"rule-allow", "allowlist-allow", "static-allow", "classify"}
            /\ AnswererLane(config, Ruled(c, 2), category, a, pinned, tripped)
                 \notin {"rule-allow", "allowlist-gated", "auto-allow", "ordinary"}
<1>. DEFINE a == AssessTool(Kind(c), created[Agent(c)], config.aggressive)
<1>1. Kind(c) \in CallKinds /\ Agent(c) \in Agents
  BY DEF SafeInv, Shapes
<1>2. created[Agent(c)] \subseteq wrote[Agent(c)]
  BY <1>1 DEF SafeInv, Provenance, ProvenanceEarned
<1>3. ~a.proven
  BY <1>1, <1>2, AssessmentFacts DEF Path
<1>4. /\ CategoryDirective(config, CategorizeTool(Kind(c)), a) = "ask"
      /\ NameChannelLockRefusal(CategorizeTool(Kind(c)), a)
  BY <1>1, <1>3, DestructiveIsLocked
<1>. HIDE DEF a
<1>5. /\ PreExecuteLane(config, Ruled(c, 1), CategorizeTool(Kind(c)), a)
           \notin {"rule-allow", "allowlist-allow", "static-allow", "classify"}
      /\ AnswererLane(config, Ruled(c, 2), CategorizeTool(Kind(c)), a, pinned, tripped)
           \notin {"rule-allow", "allowlist-gated", "auto-allow", "ordinary"}
  BY <1>4, LockedPreExecute, LockedAnswer
<1> QED
  BY <1>5 DEF a

-----------------------------------------------------------------------------
(* One lemma per action *)

LEMMA InitSafe == Init => SafeInv
<1>. SUFFICES ASSUME Init PROVE SafeInv
  OBVIOUS
<1>1. \A c \in Calls : Kind(c) \in CallKinds /\ Agent(c) \in Agents
  BY ToolCallsAssumption DEF Init, Kind, Agent, MadeCalls
<1>2. Shapes
  BY <1>1 DEF Init, Shapes, Stages, Outcomes
<1>3. Provenance
  BY DEF Init, Provenance, ProvenanceEarned, Plans
<1>4. \A c \in Calls : Lives(c)
  BY DEF Init, Lives, Executes, Recorded, Escalated, Wrote, Held, Unnamed, Passed
<1> QED
  BY <1>2, <1>3, <1>4 DEF SafeInv

LEMMA PreExecuteSafe == ASSUME SafeInv, NEW c \in Calls, PreExecute(c) PROVE SafeInv'
<1>. DEFINE k == Kind(c)
            a == AssessTool(k, created[Agent(c)], config.aggressive)
            lane == PreExecuteLane(config, Ruled(c, 1), CategorizeTool(k), a)
<1>. USE DEF SafeInv
<1>1. /\ pending' = Planned(c, a) /\ stage[c] = "idle"
      /\ UNCHANGED <<call, created, ran, wrote>>
  BY DEF PreExecute
<1>2. a.plans => Kind(c).tool \in Creators
  BY AssessmentFacts DEF Shapes
<1>3. \/ /\ stage' \in {[stage EXCEPT ![c] = "refused"], [stage EXCEPT ![c] = "asked"]}
         /\ UNCHANGED <<audit, released, loopGuardPinned, escalated>>
      \/ /\ lane = "classify" /\ stage' = [stage EXCEPT ![c] = "classifying"]
         /\ UNCHANGED <<audit, released, loopGuardPinned, escalated>>
      \/ /\ lane \in {"rule-allow", "allowlist-allow", "static-allow"}
         /\ stage' = [stage EXCEPT ![c] = "allowed"] /\ audit' = audit \cup {c}
         /\ released' = [released EXCEPT ![c] = lane]
         /\ UNCHANGED <<loopGuardPinned, escalated>>
      \/ /\ stage' = [stage EXCEPT ![c] = "asked"] /\ UNCHANGED <<audit, released>>
         /\ loopGuardPinned' = loopGuardPinned \cup {c} /\ escalated' = escalated \cup {c}
  <2>. HIDE DEF a
  <2>1. CASE lane = "static-allow" /\ Gate(c, "pre-execute", lane, "asked")
    <3>. HIDE DEF lane
    <3> QED
      BY <2>1, GateOutcome DEF Release, Refuse, Moves
  <2>2. CASE ~(lane = "static-allow" /\ Gate(c, "pre-execute", lane, "asked"))
    BY <2>2 DEF PreExecute, a, k, lane, Release, Refuse, Moves, NoGate, Names, guardVars
  <2> QED
    BY <2>1, <2>2
<1>. HIDE DEF a, lane
<1>4. Shapes'
  <2>1. pending' \in Seq(Calls)
    BY <1>1, PlannedPlans DEF Shapes
  <2>2. stage' \in [Calls -> Stages] /\ released' \in [Calls -> Channels \cup {"none"}]
    BY <1>3 DEF Shapes, Stages, Channels, Names, Gated
  <2>3. escalated' \subseteq Calls
    BY <1>3 DEF Shapes
  <2> QED
    BY <1>1, <2>1, <2>2, <2>3 DEF Shapes, Kind, Agent
<1>5. Provenance'
  <2>1. ASSUME NEW d \in Plans' PROVE d \in Plans \/ (a.plans /\ d = c)
    <3>1. PICK i \in DOMAIN pending' : pending'[i] = d
      BY DEF Plans
    <3>2. \A j \in DOMAIN Planned(c, a) :
            Planned(c, a)[j] \in Plans \/ (a.plans /\ Planned(c, a)[j] = c)
      BY PlannedPlans DEF Shapes
    <3> QED
      BY <1>1, <3>1, <3>2
  <2> QED
    BY <1>1, <1>2, <2>1 DEF Provenance, ProvenanceEarned, Kind
<1>6. Frame(c)
  BY <1>1, <1>3 DEF Frame, Shapes
<1>7. Executes(c)' /\ Recorded(c)' /\ Escalated(c)'
  <2>1. ran'[c] = "no" /\ c \notin escalated
    BY <1>1 DEF Lives, Executes, Escalated
  <2> QED
    BY <1>3, <2>1 DEF Executes, Recorded, Escalated, Passed, Shapes
<1>8. Wrote(c)'
  BY <1>1 DEF Lives, Wrote, Kind, Agent, Path
<1>9. Held(c)'
  <2>1. (/\ ~k.big /\ (k.tool = "shell-opaque" \/ CategorizeTool(k) \in HardLocked)
         /\ ~(k.tool = "shell-remove" /\ Path(c) \in wrote[Agent(c)]))
        => lane \notin {"rule-allow", "allowlist-allow", "static-allow", "classify"}
    BY DestructiveLanes DEF a, lane
  <2>2. Kind(c)' = k /\ Path(c)' = Path(c) /\ Agent(c)' = Agent(c)
    BY <1>1 DEF Kind, Path, Agent
  <2>. HIDE DEF k
  <2> QED
    BY <1>1, <1>3, <2>1, <2>2 DEF Held, Passed, Shapes
<1>10. Unnamed(c)'
  <2>1. Secret(k) => lane \notin {"rule-allow", "allowlist-allow"}
    BY SecretIsRefused, RefusedToNames DEF a, lane, Secret, Shapes
  <2>2. Kind(c)' = k
    BY <1>1 DEF Kind
  <2>. HIDE DEF k
  <2> QED
    BY <1>1, <1>3, <2>1, <2>2 DEF Unnamed, Passed, Shapes, Names
<1> QED
  BY <1>4, <1>5, <1>6, <1>7, <1>8, <1>9, <1>10, FramedStep DEF Lives

LEMMA ClassifiedSafe == ASSUME SafeInv, NEW c \in Calls, Classified(c) PROVE SafeInv'
<1>. USE DEF SafeInv
<1>1. stage[c] = "classifying" /\ UNCHANGED <<call, created, pending, ran, wrote>>
  BY DEF Classified, registryVars
<1>2. \/ /\ stage' \in {[stage EXCEPT ![c] = "refused"], [stage EXCEPT ![c] = "asked"]}
         /\ UNCHANGED <<audit, released, loopGuardPinned, escalated>>
      \/ /\ stage' = [stage EXCEPT ![c] = "allowed"] /\ audit' = audit \cup {c}
         /\ released' = [released EXCEPT ![c] = "classifier-allow"]
         /\ UNCHANGED <<loopGuardPinned, escalated>>
      \/ /\ stage' = [stage EXCEPT ![c] = "asked"] /\ UNCHANGED <<audit, released>>
         /\ loopGuardPinned' = loopGuardPinned \cup {c} /\ escalated' = escalated \cup {c}
  <2>1. CASE Gate(c, "pre-execute", "classifier-allow", "asked")
    BY <2>1, GateOutcome DEF Release, Refuse, Moves
  <2>2. CASE ~Gate(c, "pre-execute", "classifier-allow", "asked")
    BY <2>2 DEF Classified, Refuse, Moves, NoGate, guardVars
  <2> QED
    BY <2>1, <2>2
<1>3. Shapes'
  <2>1. stage' \in [Calls -> Stages] /\ released' \in [Calls -> Channels \cup {"none"}]
    BY <1>2 DEF Shapes, Stages, Channels, Gated
  <2>2. escalated' \subseteq Calls
    BY <1>2 DEF Shapes
  <2> QED
    BY <1>1, <2>1, <2>2 DEF Shapes, Kind, Agent
<1>4. Provenance'
  BY <1>1, ProvenanceKept
<1>5. Frame(c)
  BY <1>1, <1>2 DEF Frame, Shapes
<1>6. Executes(c)' /\ Recorded(c)' /\ Escalated(c)'
  <2>1. ran'[c] = "no" /\ c \notin escalated
    BY <1>1 DEF Lives, Executes, Escalated
  <2> QED
    BY <1>2, <2>1 DEF Executes, Recorded, Escalated, Passed, Shapes
<1>7. Wrote(c)' /\ Held(c)'
  BY <1>1 DEF Lives, Wrote, Held, Kind, Agent, Path
<1>8. Unnamed(c)'
  BY <1>1, <1>2 DEF Unnamed, Passed, Shapes, Names
<1> QED
  BY <1>3, <1>4, <1>5, <1>6, <1>7, <1>8, FramedStep DEF Lives

\* What the answerer does with a request, by its lane.
LEMMA RequestOutcome ==
  ASSUME NEW c \in Calls, Request(c)
  PROVE  \E tripped \in BOOLEAN :
    LET category == CategorizeTool(Seen(Kind(c)))
        a == AssessTool(Seen(Kind(c)), created[Agent(c)], config.aggressive)
        lane == AnswererLane(config, Ruled(c, 2), category, a, c \in loopGuardPinned, tripped)
    IN \/ /\ \/ stage' = [stage EXCEPT ![c] = "refused"]
             \/ lane \in Open /\ stage' = [stage EXCEPT ![c] = lane]
          /\ UNCHANGED <<audit, released, loopGuardPinned, escalated>>
       \/ /\ stage' \in {[stage EXCEPT ![c] = "plain"], [stage EXCEPT ![c] = "pinned"]}
          /\ UNCHANGED <<audit, released, escalated>>
          /\ loopGuardPinned' = loopGuardPinned \ {c}
       \/ /\ stage' \in {[stage EXCEPT ![c] = "plain"], [stage EXCEPT ![c] = "pinned"]}
          /\ UNCHANGED <<audit, released>>
          /\ lane \in {"allowlist-gated", "auto-allow"}
          /\ loopGuardPinned' = loopGuardPinned \cup {c} /\ escalated' = escalated \cup {c}
       \/ /\ lane \in {"rule-allow", "allowlist-gated", "auto-allow"}
          /\ stage' = [stage EXCEPT ![c] = "allowed"] /\ audit' = audit \cup {c}
          /\ \/ released' = [released EXCEPT ![c] = lane]
             \/ lane = "auto-allow" /\ released' = [released EXCEPT ![c] = "reviewer"]
          /\ UNCHANGED <<loopGuardPinned, escalated>>
<1>. DEFINE category == CategorizeTool(Seen(Kind(c)))
            a == AssessTool(Seen(Kind(c)), created[Agent(c)], config.aggressive)
            lane(tripped) == AnswererLane(config, Ruled(c, 2), category, a, c \in loopGuardPinned, tripped)
            escalation == IF config.manual THEN "plain" ELSE "pinned"
<1>1. PICK tripped \in BOOLEAN :
        \/ Refuse(c) /\ NoGate
        \/ lane(tripped) = "rule-allow" /\ Release(c, "rule-allow") /\ NoGate
        \/ /\ lane(tripped) \in Open /\ Moves(c, lane(tripped))
           /\ UNCHANGED <<audit, released>> /\ NoGate
        \/ /\ Moves(c, escalation) /\ loopGuardPinned' = loopGuardPinned \ {c}
           /\ UNCHANGED <<audit, released, escalated>>
        \/ /\ lane(tripped) \in {"allowlist-gated", "auto-allow"}
           /\ Gate(c, "answerer", lane(tripped), escalation)
        \/ lane(tripped) = "auto-allow" /\ Release(c, "reviewer") /\ NoGate
  <2>. HIDE DEF escalation
  <2> QED
    BY DEF Request, escalation
<1>. HIDE DEF lane
<1>2. CASE Gate(c, "answerer", lane(tripped), escalation)
           /\ lane(tripped) \in {"allowlist-gated", "auto-allow"}
  BY <1>2, GateOutcome DEF Release, Refuse, Moves, lane
<1>3. CASE ~(Gate(c, "answerer", lane(tripped), escalation)
             /\ lane(tripped) \in {"allowlist-gated", "auto-allow"})
  BY <1>1, <1>3 DEF Release, Refuse, Moves, NoGate, guardVars, lane
<1> QED
  BY <1>2, <1>3

LEMMA RequestSafe == ASSUME SafeInv, NEW c \in Calls, Request(c) PROVE SafeInv'
<1>. DEFINE k == Kind(c)
            category == CategorizeTool(Seen(k))
            a == AssessTool(Seen(k), created[Agent(c)], config.aggressive)
            lane(tripped) == AnswererLane(config, Ruled(c, 2), category, a, c \in loopGuardPinned, tripped)
<1>. USE DEF SafeInv
<1>1. stage[c] = "asked" /\ UNCHANGED <<call, created, pending, ran, wrote>>
  BY DEF Request, registryVars
<1>2. PICK tripped \in BOOLEAN :
        \/ /\ \/ stage' = [stage EXCEPT ![c] = "refused"]
              \/ lane(tripped) \in Open /\ stage' = [stage EXCEPT ![c] = lane(tripped)]
           /\ UNCHANGED <<audit, released, loopGuardPinned, escalated>>
        \/ /\ stage' \in {[stage EXCEPT ![c] = "plain"], [stage EXCEPT ![c] = "pinned"]}
           /\ UNCHANGED <<audit, released, escalated>>
           /\ loopGuardPinned' = loopGuardPinned \ {c}
        \/ /\ stage' \in {[stage EXCEPT ![c] = "plain"], [stage EXCEPT ![c] = "pinned"]}
           /\ UNCHANGED <<audit, released>>
           /\ lane(tripped) \in {"allowlist-gated", "auto-allow"}
           /\ loopGuardPinned' = loopGuardPinned \cup {c} /\ escalated' = escalated \cup {c}
        \/ /\ lane(tripped) \in {"rule-allow", "allowlist-gated", "auto-allow"}
           /\ stage' = [stage EXCEPT ![c] = "allowed"] /\ audit' = audit \cup {c}
           /\ \/ released' = [released EXCEPT ![c] = lane(tripped)]
              \/ lane(tripped) = "auto-allow" /\ released' = [released EXCEPT ![c] = "reviewer"]
           /\ UNCHANGED <<loopGuardPinned, escalated>>
  BY RequestOutcome
<1>3. c \in escalated => lane(tripped) \notin {"allowlist-gated", "auto-allow", "ordinary"}
  <2>1. c \in escalated => c \in loopGuardPinned
    BY <1>1 DEF Lives, Escalated
  <2> QED
    BY <2>1, PinnedLanes
<1>4. (/\ ~k.big /\ (k.tool = "shell-opaque" \/ CategorizeTool(k) \in HardLocked)
       /\ ~(k.tool = "shell-remove" /\ Path(c) \in wrote[Agent(c)]))
      => lane(tripped) \notin {"rule-allow", "allowlist-gated", "auto-allow", "ordinary"}
  <2>1. ~k.big => Seen(k) = k
    BY DEF Seen
  <2> QED
    BY <2>1, DestructiveLanes
<1>. HIDE DEF lane
<1>5. Shapes'
  <2>1. stage' \in [Calls -> Stages] /\ released' \in [Calls -> Channels \cup {"none"}]
    BY <1>2 DEF Shapes, Stages, Channels, Names, Gated, Open
  <2>2. escalated' \subseteq Calls
    BY <1>2 DEF Shapes
  <2> QED
    BY <1>1, <2>1, <2>2 DEF Shapes, Kind, Agent
<1>6. Provenance'
  BY <1>1, ProvenanceKept
<1>7. Frame(c)
  BY <1>1, <1>2 DEF Frame, Shapes
<1>8. Executes(c)' /\ Recorded(c)'
  <2>1. ran'[c] = "no"
    BY <1>1 DEF Lives, Executes
  <2> QED
    BY <1>2, <2>1 DEF Executes, Recorded, Passed, Shapes, Open
<1>9. Escalated(c)'
  BY <1>1, <1>2, <1>3 DEF Escalated, Passed, Shapes, Open
<1>10. Wrote(c)'
  BY <1>1 DEF Lives, Wrote, Kind, Agent, Path
<1>11. Held(c)'
  <2>1. Kind(c)' = k /\ Path(c)' = Path(c) /\ Agent(c)' = Agent(c)
    BY <1>1 DEF Kind, Path, Agent
  <2>. HIDE DEF k
  <2> QED
    BY <1>1, <1>2, <1>4, <2>1 DEF Held, Passed, Shapes, Open
<1>12. Unnamed(c)'
  <2>1. Secret(k) => lane(tripped) \notin {"rule-allow", "allowlist-gated"}
    <3>1. Secret(k) => Seen(k) = k
      BY DEF Secret, Seen
    <3> QED
      BY <3>1, SecretIsRefused, RefusedToNames DEF lane, Secret, Shapes
  <2>2. Kind(c)' = k
    BY <1>1 DEF Kind
  <2>. HIDE DEF k
  <2> QED
    BY <1>1, <1>2, <2>1, <2>2 DEF Unnamed, Passed, Shapes, Names, Open
<1> QED
  BY <1>5, <1>6, <1>7, <1>8, <1>9, <1>10, <1>11, <1>12, FramedStep DEF Lives

LEMMA ResolveSafe == ASSUME SafeInv, NEW c \in Calls, Resolve(c) PROVE SafeInv'
<1>. USE DEF SafeInv
<1>1. /\ stage[c] \in Open
      /\ UNCHANGED <<call, created, pending, ran, wrote, loopGuardPinned, escalated>>
  BY DEF Resolve, registryVars, NoGate, guardVars
<1>2. \/ stage' = [stage EXCEPT ![c] = "refused"] /\ UNCHANGED <<audit, released>>
      \/ /\ stage' = [stage EXCEPT ![c] = "allowed"] /\ audit' = audit \cup {c}
         /\ \/ released' = [released EXCEPT ![c] = "human"]
            \/ /\ stage[c] = "ordinary"
               /\ released' \in {[released EXCEPT ![c] = "timer"],
                                 [released EXCEPT ![c] = "reviewer"]}
  BY DEF Resolve, Release, Refuse, Moves
<1>3. Shapes'
  <2>1. stage' \in [Calls -> Stages] /\ released' \in [Calls -> Channels \cup {"none"}]
    BY <1>2 DEF Shapes, Stages, Channels
  <2> QED
    BY <1>1, <2>1 DEF Shapes, Kind, Agent
<1>4. Provenance'
  BY <1>1, ProvenanceKept
<1>5. Frame(c)
  BY <1>1, <1>2 DEF Frame, Shapes
<1>6. Executes(c)' /\ Recorded(c)' /\ Escalated(c)'
  <2>1. ran'[c] = "no"
    BY <1>1 DEF Lives, Executes, Open
  <2> QED
    BY <1>1, <1>2, <2>1 DEF Executes, Recorded, Lives, Escalated, Passed, Shapes
<1>7. Wrote(c)'
  BY <1>1 DEF Lives, Wrote, Kind, Agent, Path
<1>8. Held(c)'
  BY <1>1, <1>2 DEF Lives, Held, Passed, Shapes, Kind, Agent, Path
<1>9. Unnamed(c)'
  BY <1>1, <1>2 DEF Unnamed, Passed, Shapes, Names
<1> QED
  BY <1>3, <1>4, <1>5, <1>6, <1>7, <1>8, <1>9, FramedStep DEF Lives

LEMMA GuardDeniesSafe == ASSUME SafeInv, NEW c \in Calls, GuardDenies(c) PROVE SafeInv'
<1>. USE DEF SafeInv
<1>1. /\ stage[c] = "allowed" /\ stage' = [stage EXCEPT ![c] = "refused"]
      /\ UNCHANGED <<call, created, pending, ran, wrote, audit, released, loopGuardPinned,
                     escalated>>
  BY DEF GuardDenies, Moves, registryVars, guardVars
<1>2. Shapes'
  BY <1>1 DEF Shapes, Stages, Kind, Agent
<1>3. Provenance'
  BY <1>1, ProvenanceKept
<1>4. Frame(c)
  BY <1>1 DEF Frame, Shapes
<1>5. Lives(c)'
  BY <1>1 DEF Lives, Executes, Recorded, Escalated, Wrote, Held, Unnamed, Passed, Shapes,
         Kind, Agent, Path
<1> QED
  BY <1>2, <1>3, <1>4, <1>5, FramedStep

LEMMA RunSafe == ASSUME SafeInv, NEW c \in Calls, Run(c) PROVE SafeInv'
<1>. USE DEF SafeInv
<1>1. /\ stage[c] = "allowed" /\ stage' = [stage EXCEPT ![c] = "ran"]
      /\ UNCHANGED <<call, created, pending, audit, released, loopGuardPinned, escalated>>
  BY DEF Run, Moves, registryVars, guardVars
<1>2. PICK outcome \in {"failed", "created", "changed", "removed", "done"} :
        /\ Kind(c).tool \in Creators => outcome \in {"failed", "created", "changed"}
        /\ ran' = [ran EXCEPT ![c] = outcome]
        /\ wrote' = IF outcome \in {"created", "changed"}
                    THEN [wrote EXCEPT ![Agent(c)] = @ \cup {Path(c)}] ELSE wrote
  BY DEF Run, Effect, Creators, Overwriters
<1>3. Agent(c) \in Agents /\ Path(c) \in STRING
  BY DEF Shapes, CallKinds, Targets, Path
<1>4. /\ \A b \in Agents : wrote[b] \subseteq wrote'[b]
      /\ outcome \in {"created", "changed"} => Path(c) \in wrote'[Agent(c)]
  BY <1>2, <1>3 DEF Shapes
<1>5. Shapes'
  <2>1. ran' \in [Calls -> Outcomes] /\ wrote' \in [Agents -> SUBSET STRING]
    BY <1>2, <1>3 DEF Shapes, Outcomes
  <2> QED
    BY <1>1, <2>1 DEF Shapes, Stages, Kind, Agent
<1>6. Provenance'
  BY <1>1, <1>4, ProvenanceKept
<1>7. Frame(c)
  BY <1>1, <1>2, <1>4 DEF Frame, Shapes
<1>8. Executes(c)' /\ Recorded(c)' /\ Escalated(c)'
  BY <1>1, <1>2 DEF Lives, Executes, Recorded, Escalated, Passed, Shapes
<1>9. Kind(c)' = Kind(c) /\ Path(c)' = Path(c) /\ Agent(c)' = Agent(c)
  BY <1>1 DEF Kind, Path, Agent
<1>10. Wrote(c)'
  BY <1>2, <1>4, <1>9 DEF Wrote, Shapes
<1>11. Held(c)'
  BY <1>1, <1>3, <1>4, <1>9 DEF Lives, Held, Passed, Shapes
<1>12. Unnamed(c)'
  BY <1>1, <1>9 DEF Lives, Unnamed, Passed, Shapes
<1> QED
  BY <1>5, <1>6, <1>7, <1>8, <1>10, <1>11, <1>12, FramedStep DEF Lives

LEMMA ResultSafe == ASSUME SafeInv, NEW c \in Calls, Result(c) PROVE SafeInv'
<1>. USE DEF SafeInv
<1>1. /\ stage[c] = "ran" /\ stage' = [stage EXCEPT ![c] = "settled"]
      /\ pending' = Forgotten(c)
      /\ created' = IF Promoted(c) THEN [created EXCEPT ![Agent(c)] = @ \cup {Path(c)}]
                    ELSE created
      /\ UNCHANGED <<call, ran, wrote, audit, released, escalated>>
  BY DEF Result, Moves
<1>2. \A d \in loopGuardPinned : stage[d] = "asked" => d \in loopGuardPinned'
  BY DEF Result
<1>3. Agent(c) \in Agents /\ Path(c) \in STRING
  BY DEF Shapes, CallKinds, Targets, Path
<1>4. Promoted(c) => Path(c) \in wrote[Agent(c)]
  <2>1. Promoted(c) => Kind(c).tool \in Creators /\ ran[c] # "failed"
    BY DEF Promoted, Provenance, Creators
  <2>2. ran[c] # "no"
    BY <1>1 DEF Lives, Executes
  <2> QED
    BY <2>1, <2>2 DEF Lives, Wrote
<1>5. Shapes'
  <2>1. pending' \in Seq(Calls)
    BY <1>1, ForgottenPlans DEF Shapes
  <2>2. created' \in [Agents -> SUBSET STRING]
    BY <1>1, <1>3 DEF Shapes
  <2> QED
    BY <1>1, <2>1, <2>2 DEF Shapes, Stages, Kind, Agent
<1>6. Provenance'
  <2>1. ASSUME NEW d \in Plans' PROVE d \in Plans
    <3>1. PICK i \in DOMAIN pending' : pending'[i] = d
      BY DEF Plans
    <3>2. \A j \in DOMAIN Forgotten(c) : Forgotten(c)[j] \in Plans
      BY ForgottenPlans DEF Shapes
    <3> QED
      BY <1>1, <3>1, <3>2
  <2>2. \A b \in Agents : created'[b] \subseteq wrote'[b]
    BY <1>1, <1>3, <1>4 DEF Provenance, ProvenanceEarned, Shapes
  <2> QED
    BY <1>1, <2>1, <2>2 DEF Provenance, ProvenanceEarned, Kind
<1>7. Frame(c)
  BY <1>1, <1>2 DEF Frame, Shapes
<1>8. Lives(c)'
  BY <1>1 DEF Lives, Executes, Recorded, Escalated, Wrote, Held, Unnamed, Passed, Shapes,
         Kind, Agent, Path
<1> QED
  BY <1>5, <1>6, <1>7, <1>8, FramedStep

\* Neither the operator, nor another program, nor a stuttering step touches what
\* the invariant speaks of: settings and files are read anew by every plane.
LEMMA OthersSafe ==
  ASSUME SafeInv, ChangeSettings \/ OutsideEdit \/ UNCHANGED vars PROVE SafeInv'
<1>1. UNCHANGED <<call, stage, ran, wrote, created, pending, audit, released, loopGuardPinned,
                  escalated>>
  BY DEF ChangeSettings, OutsideEdit, vars, guardVars, registryVars
<1>2. Shapes'
  BY <1>1 DEF SafeInv, Shapes, Kind, Agent
<1>3. Provenance'
  BY <1>1, ProvenanceKept DEF SafeInv
<1>4. \A c \in Calls : Lives(c)'
  BY <1>1 DEF SafeInv, Lives, Executes, Recorded, Escalated, Wrote, Held, Unnamed, Passed,
         Kind, Agent, Path
<1> QED
  BY <1>2, <1>3, <1>4 DEF SafeInv

-----------------------------------------------------------------------------
(* Theorems *)

LEMMA NextSafe == SafeInv /\ [Next]_vars => SafeInv'
BY PreExecuteSafe, ClassifiedSafe, RequestSafe, ResolveSafe, GuardDeniesSafe, RunSafe,
   ResultSafe, OthersSafe DEF Next

\* The invariant of the planes, index.ts 1208-1620 and 2375-2784.
THEOREM CallsAreSafe == Spec => []SafeInv
BY InitSafe, NextSafe, PTL DEF Spec

\* No call takes effect whose allow did not reach the audit log (index.ts:1487).
THEOREM AlwaysAuditedBeforeRun == Spec => []AuditedBeforeRun
<1>1. SafeInv => AuditedBeforeRun
  BY DEF SafeInv, Lives, Executes, Recorded, Passed, AuditedBeforeRun, Ran
<1> QED
  BY <1>1, CallsAreSafe, PTL

\* A call the loop guard fired on is released by a human or by a rule that names
\* it (index.ts:2633-2644).
THEOREM EscalationAlwaysHolds == Spec => []EscalationHolds
<1>1. SafeInv => EscalationHolds
  <2>. SUFFICES ASSUME SafeInv, NEW c \in escalated, Ran(c)
                PROVE  released[c] \in {"human", "rule-allow"}
    BY DEF EscalationHolds
  <2> QED
    BY DEF SafeInv, Shapes, Lives, Executes, Escalated, Passed, Ran
<1> QED
  BY <1>1, CallsAreSafe, PTL

\* A session's provenance holds only what its own executions wrote
\* (artifacts.ts:74-105).
THEOREM ProvenanceAlwaysEarned == Spec => []ProvenanceEarned
<1>1. SafeInv => ProvenanceEarned
  BY DEF SafeInv, Provenance
<1> QED
  BY <1>1, CallsAreSafe, PTL

\* A deletion, a disk command or an opaque program meets a human unless it
\* removes what its session wrote (category.ts HARD_LOCKED_CATEGORIES).
THEOREM HardLockedAlwaysNeedsHuman == Spec => []HardLockedNeedsHuman
<1>1. SafeInv => HardLockedNeedsHuman
  <2>. SUFFICES ASSUME SafeInv, NEW c \in Calls, Ran(c), Destructive(c), ~Kind(c).big
                PROVE  \/ released[c] = "human"
                       \/ Kind(c).tool = "shell-remove" /\ Path(c) \in wrote[Agent(c)]
    BY DEF HardLockedNeedsHuman
  <2>1. Kind(c).tool = "shell-opaque" \/ CategorizeTool(Kind(c)) \in HardLocked
    BY AssessmentFacts DEF SafeInv, Shapes, Destructive
  <2> QED
    BY <2>1 DEF SafeInv, Lives, Executes, Held, Passed, Ran
<1> QED
  BY <1>1, CallsAreSafe, PTL

\* No allow rule and no allowlist entry releases a read of key material
\* (debug-and-decisions.ts:154-164).
THEOREM SecretsNeverByName == Spec => []SecretsNotByName
<1>1. SafeInv => SecretsNotByName
  <2>. SUFFICES ASSUME SafeInv, NEW c \in Calls, Ran(c), Secret(Kind(c))
                PROVE  released[c] \notin Names \cup {"allowlist-gated"}
    BY DEF SecretsNotByName, Secret
  <2> QED
    BY DEF SafeInv, Lives, Executes, Unnamed, Passed, Ran
<1> QED
  BY <1>1, CallsAreSafe, PTL

\* Hard locks and secrets hold together, over both planes.
THEOREM LocksAlwaysHold == Spec => []LocksHold
BY HardLockedAlwaysNeedsHuman, SecretsNeverByName, PTL DEF LocksHold

-----------------------------------------------------------------------------
(* Declared rules *)

\* The policy that wins among the rules at the given positions.
Hit(rules, s, policy, t) == \E i \in t : Applies(rules[i], s) /\ rules[i].policy = policy
StrictestOf(rules, s, t) ==
  IF Hit(rules, s, "deny", t) THEN "deny"
  ELSE IF Hit(rules, s, "human", t) THEN "human"
  ELSE IF Hit(rules, s, "allow", t) THEN "allow" ELSE "none"

\* The winner after the rule at one more position.
WithRule(rules, s, winner, i) ==
  IF Applies(rules[i], s) THEN Stricter(winner, rules[i].policy) ELSE winner

\* A nonempty set of positions has a last one, which Max finds.
LEMMA GreatestOne ==
  ASSUME NEW n \in Nat, NEW t \in SUBSET (1..n), t # {}
  PROVE  Max(t) \in t /\ \A y \in t : y <= Max(t)
<1>. DEFINE R == {n - y : y \in t}
<1>1. R \in SUBSET Nat /\ R # {}
  <2>1. \A y \in t : n - y \in Nat
    OBVIOUS
  <2>2. PICK y \in t : TRUE
    OBVIOUS
  <2>3. n - y \in R
    OBVIOUS
  <2> QED
    BY <2>1, <2>3, Zenon
<1>2. PICK r \in R : \A q \in R : r <= q
  <2>. HIDE DEF R
  <2> QED
    BY <1>1, LeastOne
<1>3. PICK x \in t : r = n - x
  OBVIOUS
<1>4. \A y \in t : x >= y
  <2>. SUFFICES ASSUME NEW y \in t PROVE x >= y
    OBVIOUS
  <2>1. n - y \in R
    OBVIOUS
  <2>2. n - x <= n - y
    BY <1>2, <1>3, <2>1
  <2> QED
    BY <2>2
<1>5. Max(t) \in t /\ \A y \in t : Max(t) >= y
  BY <1>4 DEF Max
<1> QED
  BY <1>5

\* The loop of evaluateRules finds the strictest policy of all rules that apply,
\* whatever their order: one more position makes the winner stricter or leaves
\* it, and the fold takes the positions one by one.
LEMMA RulesByStrictness ==
  ASSUME NEW rules, NEW s, NEW n \in Nat, DOMAIN rules = 1..n,
         \A i \in 1..n : rules[i].policy \in Policies
  PROVE  EvaluateRules(rules, s) = StrictestOf(rules, s, 1..n)
<1>. DEFINE Body(f, t) ==
              IF t = {} THEN "none" ELSE WithRule(rules, s, f[t \ {Max(t)}], Max(t))
            Rec(f) == f = [t \in SUBSET (1..n) |-> Body(f, t)]
            h == [t \in SUBSET (1..n) |-> StrictestOf(rules, s, t)]
            g == CHOOSE f : Rec(f)
<1>1. EvaluateRules(rules, s) = g[1..n]
  BY DEF EvaluateRules, FoldLeft, MapThenFoldSet, WithRule
<1>2. ASSUME NEW t \in SUBSET (1..n), NEW x \in t
      PROVE  StrictestOf(rules, s, t) = WithRule(rules, s, StrictestOf(rules, s, t \ {x}), x)
  <2>1. \A p : Hit(rules, s, p, t) <=>
                Hit(rules, s, p, t \ {x}) \/ (Applies(rules[x], s) /\ rules[x].policy = p)
    BY DEF Hit
  <2>2. rules[x].policy \in {"allow", "human", "deny"}
    BY DEF Policies
  <2>. DEFINE D == Hit(rules, s, "deny", t \ {x})
              H == Hit(rules, s, "human", t \ {x})
              A == Hit(rules, s, "allow", t \ {x})
  <2>3. StrictestOf(rules, s, t \ {x}) =
          IF D THEN "deny" ELSE IF H THEN "human" ELSE IF A THEN "allow" ELSE "none"
    BY DEF StrictestOf
  <2>4. CASE ~Applies(rules[x], s)
    BY <2>1, <2>4 DEF StrictestOf, WithRule
  <2>5. CASE Applies(rules[x], s)
    <3>1. /\ Hit(rules, s, "deny", t) <=> D \/ rules[x].policy = "deny"
          /\ Hit(rules, s, "human", t) <=> H \/ rules[x].policy = "human"
          /\ Hit(rules, s, "allow", t) <=> A \/ rules[x].policy = "allow"
      BY <2>1, <2>5, Zenon
    <3>2. WithRule(rules, s, StrictestOf(rules, s, t \ {x}), x)
            = Stricter(StrictestOf(rules, s, t \ {x}), rules[x].policy)
      BY <2>5, Zenon DEF WithRule
    <3>. HIDE DEF D, H, A
    <3> QED
      BY <2>2, <2>3, <3>1, <3>2 DEF StrictestOf, Stricter, Severity
  <2> QED
    BY <2>4, <2>5
<1>3. ASSUME NEW t \in SUBSET (1..n), t # {}
      PROVE  StrictestOf(rules, s, t)
               = WithRule(rules, s, StrictestOf(rules, s, t \ {Max(t)}), Max(t))
  <2>1. PICK x \in t : x = Max(t)
    BY <1>3, GreatestOne
  <2> QED
    BY <1>2, <2>1
<1>4. Rec(h)
  <2>. SUFFICES ASSUME NEW t \in SUBSET (1..n) PROVE h[t] = Body(h, t)
    OBVIOUS
  <2>1. CASE t = {}
    BY <2>1 DEF StrictestOf, Hit
  <2>2. CASE t # {}
    <3>1. t \ {Max(t)} \in SUBSET (1..n)
      OBVIOUS
    <3>2. h[t \ {Max(t)}] = StrictestOf(rules, s, t \ {Max(t)}) /\ h[t] = StrictestOf(rules, s, t)
      BY <3>1
    <3>3. Body(h, t) = WithRule(rules, s, h[t \ {Max(t)}], Max(t))
      BY <2>2
    <3>. HIDE DEF h, Body
    <3> QED
      BY <1>3, <2>2, <3>2, <3>3
  <2> QED
    BY <2>1, <2>2
<1>5. Rec(g)
  <2>. HIDE DEF Rec, h
  <2> QED
    BY <1>4
<1>6. \A t \in SUBSET (1..n) : g[t] = Body(g, t)
  <2>. HIDE DEF g
  <2> QED
    BY <1>5
<1>. HIDE DEF g
<1>. DEFINE Wrong == {k \in 0..n : \E t \in SUBSET (1..k) : g[t] # StrictestOf(rules, s, t)}
<1>7. Wrong = {}
  <2>. SUFFICES ASSUME Wrong # {} PROVE FALSE
    OBVIOUS
  <2>1. PICK k \in Wrong : \A j \in Wrong : k <= j
    <3>1. Wrong \in SUBSET Nat
      OBVIOUS
    <3>. HIDE DEF Wrong
    <3> QED
      BY <3>1, LeastOne
  <2>2. PICK t \in SUBSET (1..k) : g[t] # StrictestOf(rules, s, t)
    OBVIOUS
  <2>3. k \in 0..n /\ t \in SUBSET (1..n)
    BY <2>2
  <2>4. t # {}
    BY <1>6, <2>2, <2>3 DEF StrictestOf, Hit
  <2>5. Max(t) \in t /\ \A y \in t : y <= Max(t)
    BY <2>3, <2>4, GreatestOne
  <2>6. k - 1 \in 0..n /\ k - 1 \notin Wrong
    <3>1. 1..0 = {}
      OBVIOUS
    <3>2. k # 0
      BY <2>2, <2>4, <3>1
    <3>3. k - 1 \in 0..n /\ ~(k <= k - 1)
      BY <2>3, <3>2
    <3>. HIDE DEF Wrong
    <3> QED
      BY <2>1, <3>3
  <2>7. t \ {Max(t)} \in SUBSET (1..(k - 1))
    <3>. SUFFICES ASSUME NEW y \in t \ {Max(t)} PROVE y \in 1..(k - 1)
      OBVIOUS
    <3>1. y \in 1..k /\ Max(t) \in 1..k /\ y <= Max(t) /\ y # Max(t)
      BY <2>2, <2>5
    <3> QED
      BY <2>3, <3>1
  <2>8. g[t \ {Max(t)}] = StrictestOf(rules, s, t \ {Max(t)})
    BY <2>6, <2>7
  <2>9. g[t] = WithRule(rules, s, g[t \ {Max(t)}], Max(t))
    BY <1>6, <2>3, <2>4
  <2> QED
    BY <1>3, <2>2, <2>3, <2>4, <2>8, <2>9
<1>8. n \in 0..n /\ 1..n \in SUBSET (1..n)
  OBVIOUS
<1> QED
  BY <1>1, <1>7, <1>8

\* What the planes know of a call: the texts of its arguments, a workspace and
\* an agent whose name is no keyword of a scope.
Readable(s) ==
  /\ s.targets \in {<<"envelope">>, <<"primary", "rest">>} /\ s.workspace = "here"
  /\ s.kind \in {"main", "subagent", "unknown"} /\ s.agent \notin {"main", "subagent", "unknown"}

\* What a plane knows of a call of the tree is such a subject.
LEMMA SubjectIsReadable ==
  ASSUME NEW m, m.agent \in Agents, NEW plane PROVE Readable(Subject(m, plane))
BY ToolCallsAssumption DEF Readable, Subject

Scoped(line) == \A i \in DOMAIN line.prefix : line.prefix[i].key \in {"agent", "workspace"}

\* The scope of a sound line is its prefix, or nothing where that is a pattern.
LEMMA ScopeOfLine ==
  ASSUME NEW line \in Lines, ~Faulty(line)
  PROVE  Rule(line).scope = IF Scoped(line) THEN {line.prefix[i] : i \in DOMAIN line.prefix}
                            ELSE {}
<1>. DEFINE p == line.prefix
<1>1. \A i \in DOMAIN p : p[i].key \in Keys
  <2>1. \A i \in DOMAIN p : p[i] \in Items
    BY DEF Lines
  <2> QED
    BY <2>1 DEF Items
<1>2. Rule(line).scope = ParseDimensionHeader(p).scope /\ ParseDimensionHeader(p).kind # "error"
  BY DEF Rule, Faulty
<1>. HIDE DEF p
<1>3. CASE p = <<>>
  BY <1>2, <1>3 DEF ParseDimensionHeader, Header, p, Scoped
<1>4. CASE p # <<>> /\ \E i \in DOMAIN p : p[i].key \in {"none", "blank"}
  <2>1. ParseDimensionHeader(p).scope = {}
    BY <1>4 DEF ParseDimensionHeader, Header
  <2>2. ~Scoped(line)
    BY <1>4 DEF p, Scoped
  <2> QED
    BY <1>2, <2>1, <2>2
<1>5. CASE p # <<>> /\ ~\E i \in DOMAIN p : p[i].key \in {"none", "blank"}
  <2>1. \A i \in DOMAIN p : p[i].key # "other"
    BY <1>2, <1>5 DEF ParseDimensionHeader, Header
  <2>2. \A i \in DOMAIN p : p[i].key \in {"agent", "workspace"}
    BY <1>1, <1>5, <2>1 DEF Keys
  <2>3. ParseDimensionHeader(p).scope = {p[i] : i \in DOMAIN p}
    BY <1>2, <1>5 DEF ParseDimensionHeader, Header
  <2> QED
    BY <1>2, <2>2, <2>3 DEF p, Scoped
<1> QED
  BY <1>3, <1>4, <1>5

\* A sound line applies to the calls it was written for.
LEMMA LineApplies ==
  ASSUME NEW line \in Lines, ~Faulty(line), NEW s, Readable(s)
  PROVE  Applies(Rule(line), s) <=> WrittenFor(line, s)
<1>. DEFINE Holds(item) ==
              LET names == IF item.key = "workspace" THEN {s.workspace} ELSE {s.agent, s.kind}
                  holds == item.value \in names \ {"unknown"}
                  unknown == /\ item.key = "agent" /\ item.value \in {"main", "subagent"}
                             /\ s.kind = "unknown"
              IN IF item.negated THEN ~holds /\ ~unknown ELSE holds
            Said(item) == LET known == Compared(item, s)
                          IN known # "unknown" /\ (known = item.value) # item.negated
<1>1. ASSUME NEW item \in Items, item.key \in {"agent", "workspace"}
      PROVE  Said(item) <=> Holds(item)
  <2>1. item.negated \in BOOLEAN
    BY DEF Items
  <2>2. CASE item.negated = TRUE
    BY <1>1, <2>2 DEF Compared, Readable
  <2>3. CASE item.negated = FALSE
    BY <1>1, <2>3 DEF Compared, Readable
  <2> QED
    BY <2>1, <2>2, <2>3
<1>2. \A i \in DOMAIN line.prefix : line.prefix[i] \in Items
  BY DEF Lines
<1>3. MatchDimensions(Rule(line).scope, s)
        <=> (Scoped(line) => \A i \in DOMAIN line.prefix : Holds(line.prefix[i]))
  <2>1. MatchDimensions(Rule(line).scope, s) <=> \A item \in Rule(line).scope : Said(item)
    BY DEF MatchDimensions
  <2>2. Rule(line).scope = IF Scoped(line) THEN {line.prefix[i] : i \in DOMAIN line.prefix} ELSE {}
    BY ScopeOfLine
  <2>. HIDE DEF Said, Holds
  <2>3. CASE Scoped(line)
    <3>1. \A i \in DOMAIN line.prefix : Said(line.prefix[i]) <=> Holds(line.prefix[i])
      BY <1>1, <1>2, <2>3 DEF Scoped
    <3> QED
      BY <2>1, <2>2, <2>3, <3>1
  <2>4. CASE ~Scoped(line)
    BY <2>1, <2>2, <2>4
  <2> QED
    BY <2>3, <2>4
<1>4. RuleMatches(Rule(line), s) <=>
        line.hits \cap
          (CASE line.field = "toolName" -> {"name"}
             [] line.field = "reason"   -> {s.reason}
             [] OTHER -> {s.targets[i] : i \in IF line.policy = "allow" THEN {1}
                                                ELSE DOMAIN s.targets}) # {}
  <2>1. line.field \in {"arguments", "toolName", "reason"}
    BY DEF Lines, Fields
  <2>2. CASE line.field = "toolName"
    BY <2>2 DEF RuleMatches, Rule
  <2>3. CASE line.field = "reason"
    BY <2>3 DEF RuleMatches, Rule
  <2>4. CASE line.field = "arguments"
    BY <2>4 DEF RuleMatches, Rule, Readable
  <2> QED
    BY <2>1, <2>2, <2>3, <2>4
<1>5. Rule(line).tools = line.tools
  BY DEF Rule
<1> QED
  BY <1>3, <1>4, <1>5 DEF Applies, WrittenFor, Scoped

\* What the rules answer is what the lines written for the call state: they name
\* a policy exactly when one is stated, and then the strictest.
LEMMA VerdictIsStated ==
  ASSUME NEW text \in DOMAIN RuleTexts, NEW dryRun \in BOOLEAN, NEW s, Readable(s)
  PROVE  LET v == RuleVerdict(RuleTexts[text], dryRun, s)
             w == Stated(text, dryRun, s)
         IN /\ w \in Policies => v = w
            /\ w \notin Policies => w = "none" /\ v \in {"none", "unsure"}
<1>. DEFINE lines == RuleTexts[text]
            n == Len(lines)
            rules == [i \in DOMAIN lines |-> Rule(lines[i])]
            v == RuleVerdict(lines, dryRun, s)
            w == Stated(text, dryRun, s)
            matched == EvaluateRules(rules, s)
            Says(policy) == \E i \in DOMAIN lines : WrittenFor(lines[i], s) /\ lines[i].policy = policy
<1>1. lines \in Seq(Lines)
  BY ToolCallsAssumption
<1>. HIDE DEF lines
<1>2. n \in Nat /\ DOMAIN lines = 1..n /\ \A i \in 1..n : lines[i] \in Lines
  BY <1>1
<1>3. CASE \E i \in DOMAIN lines : Faulty(lines[i])
  <2>1. v = "none"
    BY <1>3 DEF RuleVerdict
  <2>2. w = "none"
    BY <1>3 DEF Stated, lines
  <2> QED
    BY <2>1, <2>2 DEF lines, Policies
<1>4. CASE ~\E i \in DOMAIN lines : Faulty(lines[i])
  <2>1. \A i \in 1..n : rules[i].policy = lines[i].policy /\ lines[i].policy \in Policies
    BY <1>2 DEF Rule, Lines
  <2>2. DOMAIN rules = 1..n /\ \A i \in 1..n : rules[i].policy \in Policies
    BY <1>2, <2>1
  <2>3. \A i \in 1..n : Applies(rules[i], s) <=> WrittenFor(lines[i], s)
    BY <1>2, <1>4, LineApplies
  <2>4. \A policy : Hit(rules, s, policy, 1..n) <=> Says(policy)
    BY <1>2, <2>1, <2>3 DEF Hit
  <2>5. matched = StrictestOf(rules, s, 1..n)
    <3>. HIDE DEF rules, n
    <3> QED
      BY <1>2, <2>2, RulesByStrictness
  <2>6. matched = IF Says("deny") THEN "deny" ELSE IF Says("human") THEN "human"
                  ELSE IF Says("allow") THEN "allow" ELSE "none"
    <3>. HIDE DEF Says, matched, rules
    <3> QED
      BY <2>4, <2>5 DEF StrictestOf
  <2>7. w = IF dryRun THEN "none"
            ELSE IF Says("deny") THEN "deny" ELSE IF Says("human") THEN "human"
            ELSE IF Says("allow") THEN "allow" ELSE "none"
    <3>. DEFINE sayings == {line.policy : line \in {l \in {lines[i] : i \in DOMAIN lines} : WrittenFor(l, s)}}
    <3>1. \A policy : policy \in sayings <=> Says(policy)
      OBVIOUS
    <3>2. ~\E line \in {lines[i] : i \in DOMAIN lines} : Faulty(line)
      BY <1>4
    <3>3. w = IF dryRun THEN "none"
              ELSE IF "deny" \in sayings THEN "deny" ELSE IF "human" \in sayings THEN "human"
              ELSE IF "allow" \in sayings THEN "allow" ELSE "none"
      BY <3>2 DEF Stated, lines
    <3>. HIDE DEF sayings, Says, w
    <3> QED
      BY <3>1, <3>3
  <2>8. v = IF matched # "none" THEN (IF dryRun THEN "none" ELSE matched)
            ELSE IF /\ s.kind = "unknown" \/ s.workspace = "unknown"
                    /\ \E i \in DOMAIN rules : rules[i].scope # {} /\ rules[i].policy # "allow"
                 THEN "unsure" ELSE "none"
    BY <1>4 DEF RuleVerdict
  <2>9. v \in {"none", "unsure"} \/ (v = matched /\ matched # "none" /\ ~dryRun)
    BY <2>8
  <2>10. matched # "none" /\ ~dryRun => v = matched
    BY <2>8
  <2>. HIDE DEF v, w, matched, Says
  <2>11. /\ w \in Policies => v = w
         /\ w \notin Policies => w = "none" /\ v \in {"none", "unsure"}
    BY <2>6, <2>7, <2>9, <2>10 DEF Policies
  <2> QED
    BY <2>11 DEF v, w, lines
<1> QED
  BY <1>3, <1>4

-----------------------------------------------------------------------------
(* The operator's terminals in the lanes *)

Denials   == {"hard-deny", "policy-deny", "rule-deny", "denyList-deny", "category-deny"}

\* What forbids a call, and what keeps it for a human, by the verdict of the
\* rules, the lists and the categories.
Forbidding(g, rule, directive) ==
  \/ rule = "deny"
  \/ rule = "none" /\ (g.list = "deny" \/ (directive = "deny" /\ g.list # "human"))
Reserving(g, rule) == rule \in {"human", "unsure"} \/ (rule = "none" /\ g.list = "human")

\* A plane takes no lane behind a condition that holds.
LEMMA ReturnBy ==
  ASSUME NEW returns, NEW m \in Nat, DOMAIN returns = 1..m,
         NEW k \in 1..m, returns[k].when
  PROVE  \E i \in 1..k : returns[i].when /\ First(returns) = returns[i].lane
<1>1. \E i \in 1..k : /\ returns[i].when /\ \A j \in 1..(i - 1) : ~returns[j].when
                      /\ First(returns) = returns[i].lane
  BY FirstReturn
<1> QED
  BY <1>1, Zenon

\* The first plane refuses what is forbidden and asks about what is reserved; it
\* never answers "unsure".
LEMMA PreExecuteObeys ==
  ASSUME NEW g, NEW rule, NEW category, NEW a
  PROVE  LET directive == CategoryDirective(g, category, a)
             lane == PreExecuteLane(g, rule, category, a)
             read == IF rule = "unsure" THEN "none" ELSE rule
         IN /\ Forbidding(g, read, directive) => lane \in Denials
            /\ Reserving(g, read) => lane \in Denials \cup {"ask"}
<1>. DEFINE R == PreExecuteReturns(g, rule, category, a)
            directive == CategoryDirective(g, category, a)
            read == IF rule = "unsure" THEN "none" ELSE rule
<1>1. 12 \in Nat /\ DOMAIN R = 1..12 /\ First(R) = PreExecuteLane(g, rule, category, a)
  BY DEF PreExecuteReturns, Return, PreExecuteLane
<1>2. /\ R[2].when <=> rule = "deny"
      /\ R[3].when => rule \in {"human", "allow"}
      /\ rule = "human" => R[3].when
      /\ R[4].when => rule = "allow"
      /\ R[5].when <=> g.list = "deny"
      /\ R[6].when <=> g.list = "human"
      /\ R[7].when <=> directive = "deny"
  BY DEF PreExecuteReturns, Return
<1>3. /\ \A i \in {1, 2, 5, 7} : R[i].lane \in Denials
      /\ \A i \in {3, 6} : R[i].lane = "ask"
  BY DEF PreExecuteReturns, Return, Denials
<1>4. ASSUME Forbidding(g, read, directive) PROVE First(R) \in Denials
  <2>. HIDE DEF R, directive
  <2>1. PICK k \in {2, 5, 7} : R[k].when /\ (rule = "deny" => k = 2) /\ (k = 7 => g.list # "human")
    BY <1>2, <1>4 DEF Forbidding
  <2>2. PICK i \in 1..k : R[i].when /\ First(R) = R[i].lane
    <3>1. k \in 1..12
      OBVIOUS
    <3> QED
      BY <1>1, <2>1, <3>1, ReturnBy
  <2>3. rule \notin {"human", "allow"}
    BY <1>4 DEF Forbidding
  <2>4. i \in {1, 2, 5, 7}
    BY <1>2, <2>1, <2>2, <2>3
  <2> QED
    BY <1>3, <2>2, <2>4
<1>5. ASSUME Reserving(g, read) PROVE First(R) \in Denials \cup {"ask"}
  <2>. HIDE DEF R, directive
  <2>1. PICK k \in {3, 6} : R[k].when
    BY <1>2, <1>5 DEF Reserving
  <2>2. PICK i \in 1..k : R[i].when /\ First(R) = R[i].lane
    <3>1. k \in 1..12
      OBVIOUS
    <3> QED
      BY <1>1, <2>1, <3>1, ReturnBy
  <2>3. i # 4
    BY <1>2, <1>5, <2>2 DEF Reserving
  <2>4. i \in {1, 2, 3, 5, 6}
    BY <2>1, <2>3
  <2> QED
    BY <1>3, <2>2, <2>4
<1> QED
  BY <1>1, <1>4, <1>5

\* The answerer refuses what is forbidden and opens only an ask that a human must
\* settle for what is reserved.
LEMMA AnswererObeys ==
  ASSUME NEW g, NEW rule, NEW category, NEW a, NEW pinned, NEW tripped
  PROVE  LET directive == CategoryDirective(g, category, a)
             lane == AnswererLane(g, rule, category, a, pinned, tripped)
         IN /\ Forbidding(g, rule, directive) => lane \in Denials
            /\ Reserving(g, rule) => lane \in Denials \cup {"plain", "loop-plain", "loop-pinned"}
<1>. DEFINE R == AnswererReturns(g, rule, category, a, pinned, tripped)
            directive == CategoryDirective(g, category, a)
<1>1. 15 \in Nat /\ DOMAIN R = 1..15
      /\ First(R) = AnswererLane(g, rule, category, a, pinned, tripped)
  BY DEF AnswererReturns, Return, AnswererLane
<1>2. /\ R[2].when <=> rule = "deny"
      /\ R[3].when \/ R[4].when => rule = "allow"
      /\ R[5].when <=> rule \in {"human", "unsure"}
      /\ R[6].when <=> g.list = "deny"
      /\ R[7].when <=> directive = "deny"
      /\ R[9].when \/ R[10].when => g.list = "allow"
      /\ R[11].when <=> g.list = "human"
  BY DEF AnswererReturns, Return
<1>3. /\ \A i \in {1, 2, 6, 7} : R[i].lane \in Denials
      /\ \A i \in {5, 8, 11} : R[i].lane \in {"plain", "loop-plain", "loop-pinned"}
  BY DEF AnswererReturns, Return, Denials
<1>4. ASSUME Forbidding(g, rule, directive) PROVE First(R) \in Denials
  <2>. HIDE DEF R, directive
  <2>1. PICK k \in {2, 6, 7} : R[k].when
    BY <1>2, <1>4 DEF Forbidding
  <2>2. PICK i \in 1..k : R[i].when /\ First(R) = R[i].lane
    <3>1. k \in 1..15
      OBVIOUS
    <3> QED
      BY <1>1, <2>1, <3>1, ReturnBy
  <2>3. rule \notin {"human", "unsure", "allow"}
    BY <1>4 DEF Forbidding
  <2>4. i \in {1, 2, 6, 7}
    BY <1>2, <2>1, <2>2, <2>3
  <2> QED
    BY <1>3, <2>2, <2>4
<1>5. ASSUME Reserving(g, rule)
      PROVE  First(R) \in Denials \cup {"plain", "loop-plain", "loop-pinned"}
  <2>. HIDE DEF R, directive
  <2>1. PICK k \in {5, 11} : R[k].when /\ (k = 11 => g.list = "human")
    BY <1>2, <1>5 DEF Reserving
  <2>2. PICK i \in 1..k : R[i].when /\ First(R) = R[i].lane
    <3>1. k \in 1..15
      OBVIOUS
    <3> QED
      BY <1>1, <2>1, <3>1, ReturnBy
  <2>3. i \notin {3, 4, 9, 10}
    <3>1. i \in {9, 10} => k = 11
      BY <2>1, <2>2
    <3> QED
      BY <1>2, <1>5, <2>1, <2>2, <3>1 DEF Reserving
  <2>4. i \in {1, 2, 5, 6, 7, 8, 11}
    BY <2>1, <2>2, <2>3
  <2> QED
    BY <1>3, <2>2, <2>4
<1> QED
  BY <1>1, <1>4, <1>5

\* What a plane reads of a call is what its lanes are held to.
LEMMA ReadingMeans ==
  ASSUME NEW g \in Settings, NEW m \in AnyCall, m.agent \in Agents, NEW plane \in {1, 2}
  PROVE  LET v == Verdict(g, m, plane)
             read == IF plane = 1 /\ v = "unsure" THEN "none" ELSE v
         IN /\ Reading(g, m, plane) = "forbidden" =>
                 \/ v = "deny"
                 \/ /\ read = "none"
                    /\ \/ g.list = "deny"
                       \/ /\ g.policy = "deny" /\ g.list # "human" /\ ~m.kind.big
                          /\ CategorizeTool(m.kind) \notin Locked \cup {"unknown", "harnessInternal"}
            /\ Reading(g, m, plane) = "human" => Reserving(g, read)
<1>. DEFINE v == Verdict(g, m, plane)
            w == Statements[m][plane][g.rulesText][g.rulesDryRun]
            s == Subject(m, plane)
<1>1. g.rulesText \in DOMAIN RuleTexts /\ g.rulesDryRun \in BOOLEAN
  BY DEF Settings
<1>2. v = RuleVerdict(RuleTexts[g.rulesText], g.rulesDryRun, s)
  BY <1>1 DEF Verdict, Verdicts
<1>3. w = Stated(g.rulesText, g.rulesDryRun, s)
  BY <1>1 DEF Statements
<1>4. /\ w \in Policies => v = w
      /\ w \notin Policies => w = "none" /\ v \in {"none", "unsure"}
  <2>1. Readable(s)
    BY SubjectIsReadable
  <2>. HIDE DEF s
  <2> QED
    BY <1>1, <1>2, <1>3, <2>1, VerdictIsStated
<1>5. Reading(g, m, plane) \in {"forbidden", "human"} =>
        w \in {"deny", "human"} \/ w = "none"
  BY <1>4 DEF Reading, Policies
<1>. DEFINE unsure == plane = 2 /\ v = "unsure"
            categoryForbids == /\ g.policy = "deny" /\ g.list # "human" /\ ~m.kind.big
                               /\ CategorizeTool(m.kind) \notin Locked \cup {"unknown", "harnessInternal"}
<1>6. Reading(g, m, plane) =
        CASE w = "deny"  -> "forbidden"
          [] w = "human" -> "human"
          [] w = "allow" -> "open"
          [] w = "none" /\ ~unsure /\ (g.list = "deny" \/ categoryForbids) -> "forbidden"
          [] w = "none" /\ (unsure \/ g.list = "human") -> "human"
          [] OTHER -> "open"
  BY DEF Reading
<1>. HIDE DEF v, w, categoryForbids
<1>7. CASE w = "deny"
  <2>1. v = "deny" /\ Reading(g, m, plane) = "forbidden"
    BY <1>4, <1>6, <1>7 DEF Policies
  <2> QED
    BY <2>1 DEF v
<1>8. CASE w = "human"
  <2>1. v = "human" /\ Reading(g, m, plane) = "human"
    BY <1>4, <1>6, <1>8 DEF Policies
  <2> QED
    BY <2>1 DEF v, Reserving
<1>9. CASE w = "none"
  <2>1. v \in {"none", "unsure"}
    BY <1>4, <1>9 DEF Policies
  <2>2. Reading(g, m, plane) = "forbidden" => ~unsure /\ (g.list = "deny" \/ categoryForbids)
    BY <1>6, <1>9
  <2>3. Reading(g, m, plane) = "human" => unsure \/ g.list = "human"
    BY <1>6, <1>9
  <2> QED
    BY <2>1, <2>2, <2>3 DEF v, categoryForbids, Reserving
<1>10. CASE w \notin {"deny", "human", "none"}
  <2>1. Reading(g, m, plane) \notin {"forbidden", "human"}
    BY <1>5, <1>10
  <2> QED
    BY <2>1
<1> QED
  BY <1>7, <1>8, <1>9, <1>10

\* Where the categories forbid a call, their directive denies it.
LEMMA CategoryForbids ==
  ASSUME NEW g, NEW k \in CallKinds, NEW own, g.policy = "deny",
         CategorizeTool(k) \notin Locked \cup {"unknown", "harnessInternal"}
  PROVE  CategoryDirective(g, CategorizeTool(k), AssessTool(k, own, g.aggressive)) = "deny"
<1>. DEFINE a == AssessTool(k, own, g.aggressive)
<1>1. k.tool # "shell-opaque"
  BY DEF CategorizeTool, Readers, Mutators
<1>2. ~a.opaque
  BY <1>1, AssessmentFacts
<1>. HIDE DEF a
<1>3. CategoryDirective(g, CategorizeTool(k), a) = "deny"
  BY <1>2 DEF CategoryDirective
<1> QED
  BY <1>3 DEF a

-----------------------------------------------------------------------------
(* The operator's terminals over both planes *)

Judgements == {"forbidden", "human", "open"}

\* A call that a plane found forbidden is refused, and one that every plane so
\* far kept for a human is on no way that ends without one.
Obeys(c) ==
  /\ stage[c] = "idle" => readings[c] = <<>>
  /\ (\E i \in DOMAIN readings[c] : readings[c][i] = "forbidden") => stage[c] = "refused"
  /\ stage[c] # "idle" /\ (\A i \in DOMAIN readings[c] : readings[c][i] = "human") =>
       stage[c] \notin {"classifying", "ordinary"} /\ (Passed(c) => released[c] = "human")

TermsTyped ==
  /\ config \in Configs /\ \A c \in Calls : call[c] \in AnyCall
  /\ readings \in [Calls -> Seq(Judgements)]

TermInv == SafeInv /\ TermsTyped /\ \A c \in Calls : Obeys(c)

\* What is read, and what a reading adds to the earlier ones.
LEMMA ReadingIsJudgement ==
  ASSUME NEW g, NEW m, NEW plane PROVE Reading(g, m, plane) \in Judgements
BY DEF Reading, Judgements

LEMMA AppendedReading ==
  ASSUME NEW q \in Seq(Judgements), NEW r \in Judgements
  PROVE  /\ Append(q, r) \in Seq(Judgements) /\ Append(q, r) # <<>>
         /\ (\E i \in DOMAIN Append(q, r) : Append(q, r)[i] = "forbidden")
              => (\E i \in DOMAIN q : q[i] = "forbidden") \/ r = "forbidden"
         /\ (\A i \in DOMAIN Append(q, r) : Append(q, r)[i] = "human")
              => (\A i \in DOMAIN q : q[i] = "human") /\ r = "human"
<1>1. /\ Append(q, r) \in Seq(Judgements) /\ Len(Append(q, r)) = Len(q) + 1 /\ Len(q) \in Nat
      /\ DOMAIN Append(q, r) = 1..(Len(q) + 1) /\ DOMAIN q = 1..Len(q)
      /\ \A i \in 1..Len(q) : Append(q, r)[i] = q[i]
      /\ Append(q, r)[Len(q) + 1] = r
  OBVIOUS
<1>2. \A i \in DOMAIN Append(q, r) : i \in DOMAIN q \/ i = Len(q) + 1
  BY <1>1
<1>3. \A i \in DOMAIN q : i \in DOMAIN Append(q, r) /\ Append(q, r)[i] = q[i]
  BY <1>1
<1>4. Len(q) + 1 \in DOMAIN Append(q, r)
  BY <1>1
<1>5. Append(q, r) # <<>>
  BY <1>4
<1> QED
  BY <1>1, <1>2, <1>3, <1>4, <1>5

\* A step that reads the settings for a call obeys them if its own call does.
LEMMA ReadingObeys ==
  ASSUME TermInv, NEW c \in Calls, NEW r \in Judgements,
         readings' = [readings EXCEPT ![c] = Append(@, r)],
         stage[c] \in {"idle", "asked"}, stage'[c] # "idle",
         r = "forbidden" => stage'[c] = "refused",
         r = "human" => stage'[c] \in {"refused", "asked", "plain", "pinned"}
  PROVE  Obeys(c)'
<1>1. readings[c] \in Seq(Judgements) /\ readings'[c] = Append(readings[c], r)
  BY DEF TermInv, TermsTyped
<1>2. ~\E i \in DOMAIN readings[c] : readings[c][i] = "forbidden"
  BY DEF TermInv, Obeys
<1>3. /\ (\E i \in DOMAIN readings'[c] : readings'[c][i] = "forbidden") => r = "forbidden"
      /\ (\A i \in DOMAIN readings'[c] : readings'[c][i] = "human") => r = "human"
  BY <1>1, <1>2, AppendedReading
<1> QED
  BY <1>3 DEF Obeys, Passed

\* Each plane obeys the settings it reads.
LEMMA PreExecuteTerms ==
  ASSUME TermInv, NEW c \in Calls, PreExecute(c)
  PROVE  Obeys(c)'
<1>. DEFINE k == Kind(c)
            a == AssessTool(k, created[Agent(c)], config.aggressive)
            lane == PreExecuteLane(config, Ruled(c, 1), CategorizeTool(k), a)
            r == Reading(config, call[c], 1)
<1>1. /\ stage[c] = "idle" /\ readings' = [readings EXCEPT ![c] = Append(@, r)]
      /\ \/ lane \in Denials /\ stage' = [stage EXCEPT ![c] = "refused"]
         \/ lane = "ask" /\ stage' = [stage EXCEPT ![c] = "asked"]
         \/ lane \in {"rule-allow", "allowlist-allow", "static-allow", "classify"}
            /\ stage' \in {[stage EXCEPT ![c] = "refused"], [stage EXCEPT ![c] = "asked"],
                           [stage EXCEPT ![c] = "allowed"], [stage EXCEPT ![c] = "classifying"]}
  <2>1. CASE lane = "static-allow" /\ Gate(c, "pre-execute", lane, "asked")
    <3>1. stage[c] = "idle" /\ readings' = [readings EXCEPT ![c] = Append(@, r)]
      BY DEF PreExecute, Judged
    <3>. HIDE DEF lane
    <3> QED
      BY <2>1, <3>1, GateOutcome DEF Release, Refuse, Moves
  <2>2. CASE ~(lane = "static-allow" /\ Gate(c, "pre-execute", lane, "asked"))
    <3>. HIDE DEF a
    <3> QED
      BY <2>2 DEF PreExecute, Judged, a, k, lane, Release, Refuse, Moves, Names, Denials
  <2> QED
    BY <2>1, <2>2
<1>2. stage \in [Calls -> Stages] /\ k \in CallKinds /\ config \in Settings
      /\ call[c] \in AnyCall /\ call[c].agent \in Agents
  BY ToolCallsAssumption DEF TermInv, SafeInv, Shapes, TermsTyped, Agent
<1>3. k = call[c].kind
  BY DEF Kind
<1>4. /\ r = "forbidden" => lane \in Denials
      /\ r = "human" => lane \in Denials \cup {"ask"}
  <2>. DEFINE v == Verdict(config, call[c], 1)
              read == IF v = "unsure" THEN "none" ELSE v
              directive == CategoryDirective(config, CategorizeTool(k), a)
  <2>1. /\ r = "forbidden" =>
             \/ v = "deny"
             \/ /\ read = "none"
                /\ \/ config.list = "deny"
                   \/ /\ config.policy = "deny" /\ config.list # "human"
                      /\ CategorizeTool(k) \notin Locked \cup {"unknown", "harnessInternal"}
        /\ r = "human" => Reserving(config, read)
    BY <1>2, <1>3, ReadingMeans
  <2>2. (config.policy = "deny" /\ CategorizeTool(k) \notin Locked \cup {"unknown", "harnessInternal"})
        => directive = "deny"
    BY <1>2, CategoryForbids
  <2>3. /\ Forbidding(config, read, directive) => lane \in Denials
        /\ Reserving(config, read) => lane \in Denials \cup {"ask"}
    BY PreExecuteObeys DEF Ruled
  <2>. HIDE DEF directive, v, lane, r, k, a
  <2>4. r = "forbidden" => Forbidding(config, read, directive)
    BY <2>1, <2>2 DEF Forbidding
  <2> QED
    BY <2>1, <2>3, <2>4
<1>5. r \in Judgements
  BY ReadingIsJudgement
<1>. HIDE DEF lane, r, k, a
<1>6. /\ stage'[c] # "idle"
      /\ r = "forbidden" => stage'[c] = "refused"
      /\ r = "human" => stage'[c] \in {"refused", "asked", "plain", "pinned"}
  BY <1>1, <1>2, <1>4 DEF Denials
<1> QED
  BY <1>1, <1>5, <1>6, ReadingObeys

LEMMA RequestTerms ==
  ASSUME TermInv, NEW c \in Calls, Request(c)
  PROVE  Obeys(c)'
<1>. DEFINE k == Seen(Kind(c))
            a == AssessTool(k, created[Agent(c)], config.aggressive)
            lane(tripped) == AnswererLane(config, Ruled(c, 2), CategorizeTool(k), a,
                                          c \in loopGuardPinned, tripped)
            r == Reading(config, call[c], 2)
            escalation == IF config.manual THEN "plain" ELSE "pinned"
<1>1. stage[c] = "asked" /\ readings' = [readings EXCEPT ![c] = Append(@, r)]
  BY DEF Request, Judged
<1>2. PICK tripped \in BOOLEAN :
        \/ lane(tripped) \in Denials /\ stage' = [stage EXCEPT ![c] = "refused"]
        \/ lane(tripped) \in Open /\ stage' = [stage EXCEPT ![c] = lane(tripped)]
        \/ lane(tripped) \in {"loop-plain", "loop-pinned"} /\ stage' = [stage EXCEPT ![c] = escalation]
        \/ lane(tripped) = "rule-allow" /\ Release(c, "rule-allow")
        \/ lane(tripped) = "auto-allow" /\ Release(c, "reviewer")
        \/ lane(tripped) \in {"allowlist-gated", "auto-allow"}
           /\ Gate(c, "answerer", lane(tripped), escalation)
  <2>. HIDE DEF escalation
  <2> QED
    BY DEF Request, escalation, Refuse, Moves, Denials
<1>3. stage \in [Calls -> Stages] /\ Kind(c) \in CallKinds /\ config \in Settings
      /\ call[c] \in AnyCall /\ call[c].agent \in Agents
  BY ToolCallsAssumption DEF TermInv, SafeInv, Shapes, TermsTyped, Agent
<1>4. /\ r = "forbidden" => lane(tripped) \in Denials
      /\ r = "human" => lane(tripped) \in Denials \cup {"plain", "loop-plain", "loop-pinned"}
  <2>. DEFINE v == Verdict(config, call[c], 2)
              directive == CategoryDirective(config, CategorizeTool(k), a)
  <2>1. /\ r = "forbidden" =>
             \/ v = "deny"
             \/ /\ v = "none"
                /\ \/ config.list = "deny"
                   \/ /\ config.policy = "deny" /\ config.list # "human" /\ ~Kind(c).big
                      /\ CategorizeTool(Kind(c)) \notin Locked \cup {"unknown", "harnessInternal"}
        /\ r = "human" => Reserving(config, v)
    BY <1>3, ReadingMeans DEF Kind
  <2>2. ~Kind(c).big => k = Kind(c)
    BY DEF Seen
  <2>3. (/\ config.policy = "deny" /\ ~Kind(c).big
         /\ CategorizeTool(Kind(c)) \notin Locked \cup {"unknown", "harnessInternal"})
        => directive = "deny"
    BY <1>3, <2>2, CategoryForbids
  <2>4. /\ Forbidding(config, v, directive) => lane(tripped) \in Denials
        /\ Reserving(config, v) => lane(tripped) \in Denials \cup {"plain", "loop-plain", "loop-pinned"}
    <3>. HIDE DEF k, a
    <3> QED
      BY AnswererObeys DEF Ruled
  <2>. HIDE DEF directive, v, lane, r, k, a
  <2>5. r = "forbidden" => Forbidding(config, v, directive)
    BY <2>1, <2>3 DEF Forbidding
  <2> QED
    BY <2>1, <2>4, <2>5
<1>5. r \in Judgements
  BY ReadingIsJudgement
<1>6. escalation \in {"plain", "pinned"}
  OBVIOUS
<1>. HIDE DEF lane, r, k, a, escalation
<1>7. stage'[c] # "idle"
  <2>1. ASSUME NEW channel, Release(c, channel) PROVE stage'[c] # "idle"
    BY <1>3, <2>1 DEF Release, Refuse, Moves
  <2>2. ASSUME NEW channel, Gate(c, "answerer", channel, escalation) PROVE stage'[c] # "idle"
    BY <1>3, <1>6, <2>1, <2>2, GateOutcome DEF Moves
  <2> QED
    BY <1>2, <1>3, <1>6, <2>1, <2>2 DEF Open
<1>8. /\ r = "forbidden" => stage'[c] = "refused"
      /\ r = "human" => stage'[c] \in {"refused", "asked", "plain", "pinned"}
  BY <1>2, <1>3, <1>4, <1>6 DEF Denials, Open
<1> QED
  BY <1>1, <1>5, <1>7, <1>8, ReadingObeys

\* The other handlers read no settings; they move a call along a way its
\* readings allow.
LEMMA HandlerTerms ==
  ASSUME TermInv, NEW c \in Calls,
         Classified(c) \/ Resolve(c) \/ GuardDenies(c) \/ Run(c) \/ Result(c)
  PROVE  Obeys(c)'
<1>1. readings' = readings /\ stage \in [Calls -> Stages] /\ released \in [Calls -> Channels \cup {"none"}]
  BY DEF TermInv, SafeInv, Shapes, Classified, Resolve, GuardDenies, Run, Result
<1>2. CASE Classified(c)
  <2>1. stage[c] = "classifying"
    BY <1>2 DEF Classified
  <2>2. stage'[c] # "idle"
    <3>1. CASE Gate(c, "pre-execute", "classifier-allow", "asked")
      BY <1>1, <3>1, GateOutcome DEF Release, Refuse, Moves
    <3>2. CASE ~Gate(c, "pre-execute", "classifier-allow", "asked")
      BY <1>1, <1>2, <3>2 DEF Classified, Refuse, Moves
    <3> QED
      BY <3>1, <3>2
  <2> QED
    BY <1>1, <2>1, <2>2 DEF TermInv, Obeys
<1>3. CASE Resolve(c)
  <2>1. /\ stage[c] \in Open
        /\ \/ stage'[c] = "refused"
           \/ stage'[c] = "allowed" /\ (released'[c] = "human" \/ stage[c] = "ordinary")
    BY <1>1, <1>3 DEF Resolve, Release, Refuse, Moves
  <2> QED
    BY <1>1, <2>1 DEF TermInv, Obeys, Passed, Open
<1>4. CASE GuardDenies(c)
  BY <1>1, <1>4 DEF GuardDenies, Moves, TermInv, Obeys, Passed
<1>5. CASE Run(c) \/ Result(c)
  <2>1. stage[c] \in {"allowed", "ran"} /\ stage'[c] \in {"ran", "settled"} /\ released' = released
    BY <1>1, <1>5 DEF Run, Result, Moves
  <2> QED
    BY <1>1, <2>1 DEF TermInv, Obeys, Passed
<1> QED
  BY <1>2, <1>3, <1>4, <1>5

LEMMA InitTerms == Init => TermInv
<1>. SUFFICES ASSUME Init PROVE TermInv
  OBVIOUS
<1>1. \A c \in Calls : call[c] \in AnyCall
  BY DEF Init
<1>2. TermsTyped
  BY <1>1 DEF Init, TermsTyped
<1>3. \A c \in Calls : Obeys(c)
  BY DEF Init, Obeys
<1> QED
  BY <1>2, <1>3, InitSafe DEF TermInv

\* A handler touches the readings, the way and the release of its own call only.
LEMMA HandlerFrame ==
  ASSUME TermInv, NEW c \in Calls,
         \/ PreExecute(c) \/ Classified(c) \/ Request(c) \/ Resolve(c)
         \/ GuardDenies(c) \/ Run(c) \/ Result(c)
  PROVE  /\ config' = config /\ call' = call
         /\ \E r \in Judgements : readings' \in {readings, [readings EXCEPT ![c] = Append(@, r)]}
         /\ \A d \in Calls \ {c} : stage'[d] = stage[d] /\ released'[d] = released[d]
<1>1. config' = config /\ call' = call
  BY DEF PreExecute, Classified, Request, Resolve, GuardDenies, Run, Result
<1>2. \E r \in Judgements : readings' \in {readings, [readings EXCEPT ![c] = Append(@, r)]}
  <2>1. \A plane : Reading(config, call[c], plane) \in Judgements
    BY ReadingIsJudgement
  <2> QED
    BY <2>1 DEF PreExecute, Classified, Request, Resolve, GuardDenies, Run, Result, Judged
<1>3. \A d \in Calls \ {c} : stage'[d] = stage[d] /\ released'[d] = released[d]
  <2>. SUFFICES ASSUME NEW d \in Calls \ {c} PROVE stage'[d] = stage[d] /\ released'[d] = released[d]
    OBVIOUS
  <2>1. stage \in [Calls -> Stages] /\ released \in [Calls -> Channels \cup {"none"}]
    BY DEF TermInv, SafeInv, Shapes
  <2>2. ASSUME NEW channel, Release(c, channel) PROVE stage'[d] = stage[d] /\ released'[d] = released[d]
    BY <2>1, <2>2 DEF Release, Refuse, Moves
  <2>3. ASSUME NEW to, Moves(c, to), released' = released
        PROVE  stage'[d] = stage[d] /\ released'[d] = released[d]
    BY <2>1, <2>3 DEF Moves
  <2>4. ASSUME NEW plane, NEW channel, NEW to, Gate(c, plane, channel, to)
        PROVE  stage'[d] = stage[d] /\ released'[d] = released[d]
    BY <2>2, <2>3, <2>4, GateOutcome
  <2>5. ASSUME Refuse(c) PROVE stage'[d] = stage[d] /\ released'[d] = released[d]
    BY <2>3, <2>5 DEF Refuse
  <2>6. CASE PreExecute(c)
    BY <2>2, <2>3, <2>4, <2>5, <2>6 DEF PreExecute
  <2>7. CASE Classified(c)
    BY <2>3, <2>4, <2>5, <2>7 DEF Classified
  <2>8. CASE Request(c)
    BY <2>2, <2>3, <2>4, <2>5, <2>8 DEF Request
  <2>9. CASE Resolve(c)
    BY <2>2, <2>9 DEF Resolve
  <2>10. CASE GuardDenies(c) \/ Run(c) \/ Result(c)
    BY <2>3, <2>10 DEF GuardDenies, Run, Result
  <2> QED
    BY <2>6, <2>7, <2>8, <2>9, <2>10
<1> QED
  BY <1>1, <1>2, <1>3

LEMMA NextTerms == TermInv /\ [Next]_vars => TermInv'
<1>. SUFFICES ASSUME TermInv, [Next]_vars PROVE TermInv'
  OBVIOUS
<1>1. SafeInv'
  BY NextSafe DEF TermInv
<1>2. ASSUME NEW c \in Calls,
             \/ PreExecute(c) \/ Classified(c) \/ Request(c) \/ Resolve(c)
             \/ GuardDenies(c) \/ Run(c) \/ Result(c)
      PROVE  TermInv'
  <2>1. PICK r \in Judgements : readings' \in {readings, [readings EXCEPT ![c] = Append(@, r)]}
    BY <1>2, HandlerFrame
  <2>2. /\ config' = config /\ call' = call
        /\ \A d \in Calls \ {c} : stage'[d] = stage[d] /\ released'[d] = released[d]
    BY <1>2, HandlerFrame
  <2>3. readings \in [Calls -> Seq(Judgements)]
    BY DEF TermInv, TermsTyped
  <2>4. TermsTyped'
    <3>1. Append(readings[c], r) \in Seq(Judgements)
      BY <2>3, AppendedReading
    <3>2. readings' \in [Calls -> Seq(Judgements)]
      BY <2>1, <2>3, <3>1
    <3> QED
      BY <2>2, <3>2 DEF TermInv, TermsTyped
  <2>5. Obeys(c)'
    BY <1>2, PreExecuteTerms, RequestTerms, HandlerTerms
  <2>6. ASSUME NEW d \in Calls \ {c} PROVE Obeys(d)'
    <3>1. readings'[d] = readings[d] /\ stage'[d] = stage[d] /\ released'[d] = released[d]
      BY <2>1, <2>2, <2>3
    <3> QED
      BY <3>1 DEF TermInv, Obeys, Passed
  <2> QED
    BY <1>1, <2>4, <2>5, <2>6 DEF TermInv
<1>3. CASE ChangeSettings \/ OutsideEdit \/ UNCHANGED vars
  <2>1. config' \in Configs /\ UNCHANGED <<call, readings, stage, released>>
    BY <1>3 DEF TermInv, TermsTyped, ChangeSettings, OutsideEdit, vars
  <2> QED
    BY <1>1, <2>1 DEF TermInv, TermsTyped, Obeys, Passed
<1> QED
  BY <1>2, <1>3 DEF Next

\* No call gets past what the operator's settings forbid or keep for a human at
\* the time a plane reads them (index.ts:1296-1310).
THEOREM TerminalsAlwaysHold == Spec => []OperatorTerminals
<1>1. TermInv => OperatorTerminals
  <2>. SUFFICES ASSUME TermInv, NEW c \in Calls, Ran(c)
                PROVE  /\ \A i \in DOMAIN readings[c] : readings[c][i] # "forbidden"
                       /\ (\A i \in DOMAIN readings[c] : readings[c][i] = "human")
                            => released[c] = "human"
    BY DEF OperatorTerminals
  <2>1. stage[c] \in {"ran", "settled"}
    BY DEF TermInv, SafeInv, Lives, Executes, Ran
  <2> QED
    BY <2>1 DEF TermInv, Obeys, Passed
<1> QED
  BY <1>1, InitTerms, NextTerms, PTL DEF Spec
=============================================================================

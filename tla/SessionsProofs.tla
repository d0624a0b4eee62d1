--------------------------- MODULE SessionsProofs ---------------------------
\* For every set of sessions, of states the host may pin or restore, of stored
\* rows and retired documents, and every size of the loop guard: the audit holds
\* the users' permission switches and no others, the mode file holds the modes,
\* the running configuration is the stored one, and the loop guard of a session
\* implements StreakGuard.
\*
\* SwitchInv is the invariant of the switches: a baseline is the state the plugin
\* has last seen, so the planes that change are those the listener sees change.
\* IInv, of the loop guard, adds to TypeOK and TableInv that the table is finite,
\* which the cardinalities need. The other two are inductive as they stand.
EXTENDS Sessions, WellFoundedInduction, FiniteSetTheorems, TLAPS

IInv == TypeOK /\ TableInv /\ IsFiniteSet(DOMAIN inner)

\* The empty table.
LEMMA EmptyInv ==
  ASSUME seq' = 0, inner' = [k \in {} |-> 0], fired' = FALSE PROVE IInv'
<1>1. DOMAIN inner' = {} /\ inner' \in [DOMAIN inner' -> Entries]
  OBVIOUS
<1>2. IsFiniteSet({}) /\ Cardinality({}) = 0
  BY FS_EmptySet
<1>3. TypeOK'
  BY <1>1 DEF TypeOK
<1>4. Cardinality(DOMAIN inner') <= MaxKeys
  BY <1>1, <1>2, LoopGuardAssumption
<1>5. TableInv'
  BY <1>1, <1>4 DEF TableInv
<1> QED
  BY <1>1, <1>2, <1>3, <1>5 DEF IInv

LEMMA InitInv == Init => IInv
<1>. SUFFICES ASSUME Init PROVE IInv
  OBVIOUS
<1>1. DOMAIN inner = {} /\ inner \in [DOMAIN inner -> Entries]
  BY DEF Init
<1>2. IsFiniteSet({}) /\ Cardinality({}) = 0
  BY FS_EmptySet
<1>3. TypeOK
  BY <1>1 DEF TypeOK, Init
<1>4. Cardinality(DOMAIN inner) <= MaxKeys
  BY <1>1, <1>2, LoopGuardAssumption
<1>5. TableInv
  BY <1>1, <1>4 DEF TableInv
<1> QED
  BY <1>1, <1>2, <1>3, <1>5 DEF IInv

\* Every nonempty set of natural numbers has a least one.
LEMMA LeastOne ==
  ASSUME NEW T \in SUBSET Nat, T # {} PROVE \E x \in T : \A y \in T : x <= y
<1>. DEFINE R == OpToRel(<, Nat)
<1>1. \A a, b \in Nat : a < b => <<a, b>> \in R
  BY DEF OpToRel
<1>2. IsWellFoundedOn(R, Nat)
  BY NatLessThanWellFounded
<1>. HIDE DEF R
<1>3. PICK x \in T : \A y \in T : <<y, x>> \notin R
  BY <1>2, WFMin
<1>4. \A y \in T : ~(y < x)
  BY <1>1, <1>3
<1> QED
  BY <1>4

-----------------------------------------------------------------------------
(* One call of the guard *)

LEMMA ConsecutiveType ==
  ASSUME IInv, NEW key \in Keys
  PROVE  /\ Consecutive(key) \in Nat \ {0}
         /\ key \in DOMAIN inner => inner[key] \in Entries
BY LoopGuardAssumption DEF IInv, TypeOK, TableInv, Entries, Consecutive

\* The entry just stored is the newest, so the eviction, which happens only
\* when another entry is there, never takes it.
LEMMA StoredTable ==
  ASSUME IInv, NEW key \in Keys, NEW n \in Nat \ {0}, n < Threshold,
         NEW t, t = Stored(key, n), NEW b, b = Bounded(t)
  PROVE  /\ DOMAIN b \subseteq DOMAIN inner \cup {key} /\ key \in DOMAIN b
         /\ b[key] = [lastSeq |-> seq + 1, count |-> n]
         /\ \A k \in DOMAIN b : k # key => k \in DOMAIN inner /\ b[k] = inner[k]
         /\ b \in [DOMAIN b -> Entries]
         /\ IsFiniteSet(DOMAIN b) /\ Cardinality(DOMAIN b) <= MaxKeys
<1>. DEFINE D == DOMAIN inner
<1>. USE LoopGuardAssumption
<1>1. /\ DOMAIN t = D \cup {key} /\ t \in [D \cup {key} -> Entries]
      /\ t[key] = [lastSeq |-> seq + 1, count |-> n]
      /\ \A k \in D : k # key => t[k] = inner[k]
  BY DEF Stored, IInv, TypeOK, Entries
<1>2. /\ IsFiniteSet(DOMAIN t) /\ Cardinality(DOMAIN t) \in Nat
      /\ Cardinality(DOMAIN t) <= MaxKeys + 1
  <2>1. IsFiniteSet(D) /\ Cardinality(D) \in Nat /\ Cardinality(D) <= MaxKeys
    BY FS_CardinalityType DEF IInv, TableInv
  <2>2. /\ IsFiniteSet(D \cup {key})
        /\ Cardinality(D \cup {key})
             = IF key \in D THEN Cardinality(D) ELSE Cardinality(D) + 1
    BY <2>1, FS_AddElement
  <2> QED
    BY <1>1, <2>1, <2>2
<1>3. CASE Cardinality(DOMAIN t) <= MaxKeys
  <2>1. b = t
    BY <1>2, <1>3 DEF Bounded
  <2> QED
    BY <1>1, <1>2, <1>3, <2>1
<1>4. CASE Cardinality(DOMAIN t) > MaxKeys
  <2>. DEFINE old == Oldest(t)
              T == {t[k].lastSeq : k \in DOMAIN t}
  <2>1. b = [k \in DOMAIN t \ old |-> t[k]]
    BY <1>4 DEF Bounded, Without
  <2>2. key \notin old
    <3>1. \E k \in D : k # key
      <4>1. SUFFICES ASSUME DOMAIN t = {key} PROVE FALSE
        BY <1>1
      <4>2. Cardinality({key}) = 1
        BY FS_Singleton
      <4> QED
        BY <4>1, <4>2, <1>4
    <3>2. PICK k \in D : k # key
      BY <3>1
    <3>3. t[k].lastSeq \in 1..seq
      BY <1>1, <3>2 DEF IInv, TableInv
    <3> QED
      BY <1>1, <3>2, <3>3 DEF Oldest, IInv, TypeOK
  <2>3. PICK oldest \in DOMAIN t : oldest \in old
    <3>1. T \in SUBSET Nat /\ T # {}
      BY <1>1 DEF Entries
    <3>2. PICK x \in T : \A y \in T : x <= y
      BY <3>1, LeastOne
    <3> QED
      BY <3>2 DEF Oldest
  <2>4. /\ IsFiniteSet(DOMAIN t \ {oldest})
        /\ Cardinality(DOMAIN t \ {oldest}) = Cardinality(DOMAIN t) - 1
    BY <1>2, <2>3, FS_RemoveElement
  <2>5. IsFiniteSet(DOMAIN b) /\ Cardinality(DOMAIN b) <= Cardinality(DOMAIN t \ {oldest})
    <3>1. DOMAIN b \subseteq DOMAIN t \ {oldest}
      BY <2>1, <2>3
    <3> QED
      BY <2>4, <3>1, FS_Subset
  <2>6. Cardinality(DOMAIN b) \in Nat
    BY <2>5, FS_CardinalityType
  <2> QED
    BY <1>1, <1>2, <2>1, <2>2, <2>4, <2>5, <2>6
<1> QED
  BY <1>2, <1>3, <1>4

\* What one call does to the table, whatever its verdict.
LEMMA RecordTable ==
  ASSUME IInv, NEW key \in Keys, RecordLoopCall(key)
  PROVE  /\ DOMAIN inner' \subseteq DOMAIN inner \cup {key}
         /\ key \in DOMAIN inner' <=> ~fired'
         /\ ~fired' => inner'[key] = [lastSeq |-> seq + 1, count |-> Consecutive(key)]
         /\ \A k \in DOMAIN inner' : k # key => k \in DOMAIN inner /\ inner'[k] = inner[k]
         /\ inner' \in [DOMAIN inner' -> Entries]
         /\ IsFiniteSet(DOMAIN inner') /\ Cardinality(DOMAIN inner') <= MaxKeys
         /\ fired' \in BOOLEAN /\ seq' = seq + 1
         /\ ~fired' => Consecutive(key) < Threshold
<1>. USE LoopGuardAssumption
<1>1. /\ fired' = (Consecutive(key) >= Threshold) /\ seq' = seq + 1
      /\ inner' = IF fired' THEN Without(inner, {key})
                  ELSE Bounded(Stored(key, Consecutive(key)))
  BY DEF RecordLoopCall
<1>2. Consecutive(key) \in Nat \ {0}
  BY ConsecutiveType
<1>3. CASE Consecutive(key) >= Threshold
  <2>0. fired' = TRUE
    BY <1>1, <1>3
  <2>1. inner' = [k \in DOMAIN inner \ {key} |-> inner[k]]
    BY <1>1, <2>0 DEF Without
  <2>2. IsFiniteSet(DOMAIN inner') /\ Cardinality(DOMAIN inner') <= MaxKeys
    <3>1. DOMAIN inner' \subseteq DOMAIN inner /\ IsFiniteSet(DOMAIN inner)
          /\ Cardinality(DOMAIN inner) <= MaxKeys
      BY <2>1 DEF IInv, TableInv
    <3>2. /\ IsFiniteSet(DOMAIN inner')
          /\ Cardinality(DOMAIN inner') <= Cardinality(DOMAIN inner)
      BY <3>1, FS_Subset
    <3>3. Cardinality(DOMAIN inner') \in Nat /\ Cardinality(DOMAIN inner) \in Nat
      BY <3>1, <3>2, FS_CardinalityType
    <3> QED
      BY <3>1, <3>2, <3>3
  <2> QED
    BY <1>1, <2>0, <2>1, <2>2 DEF IInv, TypeOK
<1>4. CASE ~(Consecutive(key) >= Threshold)
  <2>1. Consecutive(key) < Threshold /\ fired' = FALSE
    <3>1. Consecutive(key) < Threshold
      BY <1>2, <1>4
    <3>2. (Consecutive(key) >= Threshold) = FALSE
      BY <1>4
    <3> QED
      BY <1>1, <3>1, <3>2
  <2>2. inner' = Bounded(Stored(key, Consecutive(key)))
    BY <1>1, <2>1
  <2> QED
    BY <1>1, <1>2, <2>1, <2>2, StoredTable
<1> QED
  BY <1>3, <1>4

LEMMA RecordInv == ASSUME IInv, NEW key \in Keys, RecordLoopCall(key) PROVE IInv'
<1>. USE LoopGuardAssumption
<1>1. /\ DOMAIN inner' \subseteq DOMAIN inner \cup {key}
      /\ key \in DOMAIN inner' =>
           /\ inner'[key] = [lastSeq |-> seq + 1, count |-> Consecutive(key)]
           /\ Consecutive(key) < Threshold
      /\ \A k \in DOMAIN inner' : k # key => k \in DOMAIN inner /\ inner'[k] = inner[k]
      /\ inner' \in [DOMAIN inner' -> Entries]
      /\ IsFiniteSet(DOMAIN inner') /\ Cardinality(DOMAIN inner') <= MaxKeys
      /\ fired' \in BOOLEAN /\ seq' = seq + 1
  BY RecordTable
<1>2. Consecutive(key) \in Nat \ {0}
  BY ConsecutiveType
<1>3. TypeOK'
  BY <1>1 DEF TypeOK, IInv
<1>4. \A k \in DOMAIN inner' : inner'[k].lastSeq \in 1..seq' /\ inner'[k].count \in 1..(Threshold - 1)
  <2>. SUFFICES ASSUME NEW k \in DOMAIN inner'
                PROVE  inner'[k].lastSeq \in 1..seq' /\ inner'[k].count \in 1..(Threshold - 1)
    OBVIOUS
  <2>1. CASE k = key
    BY <1>1, <1>2, <2>1 DEF IInv, TypeOK
  <2>2. CASE k # key
    BY <1>1, <2>2 DEF IInv, TypeOK, TableInv
  <2> QED
    BY <2>1, <2>2
<1>5. \A k, l \in DOMAIN inner' : inner'[k].lastSeq = inner'[l].lastSeq => k = l
  <2>1. \A k \in DOMAIN inner' : k # key => inner'[k].lastSeq \in 1..seq
    BY <1>1 DEF IInv, TableInv
  <2>2. key \in DOMAIN inner' => inner'[key].lastSeq = seq + 1
    BY <1>1
  <2>3. seq \in Nat
    BY DEF IInv, TypeOK
  <2> QED
    BY <1>1, <2>1, <2>2, <2>3 DEF IInv, TableInv
<1> QED
  BY <1>1, <1>3, <1>4, <1>5 DEF IInv, TableInv

LEMMA DisposeInv == Dispose => IInv'
BY EmptyInv DEF Dispose

LEMMA NextInv == IInv /\ [Next]_vars => IInv'
<1>1. IInv /\ UNCHANGED vars => IInv'
  BY DEF IInv, TypeOK, TableInv, vars
<1> QED
  BY <1>1, DisposeInv, RecordInv DEF Next

-----------------------------------------------------------------------------
(* Refinement *)

\* At most one entry is current.
LEMMA StreakOf ==
  IInv => /\ \A k \in DOMAIN inner : inner[k].lastSeq = seq
               => TheStreak = [key |-> k, count |-> inner[k].count]
          /\ (\A k \in DOMAIN inner : inner[k].lastSeq # seq) => TheStreak = [count |-> 0]
<1>. SUFFICES ASSUME IInv
              PROVE  /\ \A k \in DOMAIN inner : inner[k].lastSeq = seq
                          => TheStreak = [key |-> k, count |-> inner[k].count]
                     /\ (\A k \in DOMAIN inner : inner[k].lastSeq # seq)
                          => TheStreak = [count |-> 0]
  OBVIOUS
<1>1. ASSUME NEW k \in DOMAIN inner, inner[k].lastSeq = seq
      PROVE  Current = {k}
  BY <1>1 DEF Current, IInv, TableInv
<1> QED
  BY <1>1 DEF TheStreak, Current

LEMMA StreakOfNext ==
  IInv' => /\ \A k \in DOMAIN inner' : inner'[k].lastSeq = seq'
                => TheStreak' = [key |-> k, count |-> inner'[k].count]
           /\ (\A k \in DOMAIN inner' : inner'[k].lastSeq # seq') => TheStreak' = [count |-> 0]
<1>1. (IInv => /\ \A k \in DOMAIN inner : inner[k].lastSeq = seq
                    => TheStreak = [key |-> k, count |-> inner[k].count]
               /\ (\A k \in DOMAIN inner : inner[k].lastSeq # seq)
                    => TheStreak = [count |-> 0])'
  BY StreakOf, PTL
<1> QED
  BY <1>1

LEMMA AbstractInit == Init => Abstract!Init
BY DEF Init, Abstract!Init, Abstract!NoStreak, TheStreak, Current

LEMMA AbstractDispose == Dispose => Abstract!Forget
BY DEF Dispose, Abstract!Forget, Abstract!NoStreak, TheStreak, Current

LEMMA AbstractLength ==
  ASSUME IInv, NEW key \in Keys PROVE Consecutive(key) = Abstract!Length(key)
<1>1. CASE key \in DOMAIN inner /\ inner[key].lastSeq = seq
  <2>1. TheStreak = [key |-> key, count |-> inner[key].count]
    BY <1>1, StreakOf
  <2>2. TheStreak # [count |-> 0]
    <3>1. inner[key].count # 0
      BY <1>1 DEF IInv, TableInv
    <3>2. TheStreak.count = inner[key].count
      BY <2>1
    <3> QED
      BY <3>1, <3>2
  <2> QED
    BY <1>1, <2>1, <2>2 DEF Consecutive, Abstract!Length, Abstract!NoStreak
<1>2. CASE ~(key \in DOMAIN inner /\ inner[key].lastSeq = seq)
  <2>1. CASE \A k \in DOMAIN inner : inner[k].lastSeq # seq
    BY <1>2, <2>1, StreakOf DEF Consecutive, Abstract!Length, Abstract!NoStreak
  <2>2. CASE \E k \in DOMAIN inner : inner[k].lastSeq = seq
    <3>1. PICK k \in DOMAIN inner : inner[k].lastSeq = seq
      BY <2>2
    <3>2. TheStreak.key = k /\ k # key
      BY <1>2, <3>1, StreakOf
    <3> QED
      BY <1>2, <3>2 DEF Consecutive, Abstract!Length
  <2> QED
    BY <2>1, <2>2
<1> QED
  BY <1>1, <1>2

LEMMA AbstractGate ==
  ASSUME IInv, NEW key \in Keys, RecordLoopCall(key) PROVE Abstract!Gate(key)
<1>. USE LoopGuardAssumption
<1>1. IInv'
  BY RecordInv
<1>2. fired' = (Abstract!Length(key) >= Threshold) /\ seq' = seq + 1
  BY AbstractLength DEF RecordLoopCall
<1>3. CASE fired'
  <2>1. \A k \in DOMAIN inner' : inner'[k].lastSeq # seq'
    BY <1>3, RecordTable DEF IInv, TableInv, TypeOK
  <2>2. TheStreak' = [count |-> 0]
    BY <1>1, <2>1, StreakOfNext
  <2> QED
    BY <1>2, <1>3, <2>2 DEF Abstract!Gate, Abstract!NoStreak
<1>4. CASE ~fired'
  <2>1. /\ key \in DOMAIN inner'
        /\ inner'[key] = [lastSeq |-> seq', count |-> Abstract!Length(key)]
    BY <1>2, <1>4, RecordTable, AbstractLength
  <2>2. TheStreak' = [key |-> key, count |-> Abstract!Length(key)]
    BY <1>1, <2>1, StreakOfNext
  <2> QED
    BY <1>2, <1>4, <2>2 DEF Abstract!Gate, Abstract!Streak
<1> QED
  BY <1>3, <1>4

LEMMA AbstractNext == IInv /\ [Next]_vars => [Abstract!Next]_(Abstract!vars)
<1>. SUFFICES ASSUME IInv, [Next]_vars PROVE [Abstract!Next]_(Abstract!vars)
  OBVIOUS
<1>1. CASE UNCHANGED vars
  BY <1>1 DEF vars, Abstract!vars, TheStreak, Current
<1>2. CASE Dispose
  BY <1>2, AbstractDispose DEF Abstract!Next
<1>3. ASSUME NEW key \in Keys, RecordLoopCall(key) PROVE Abstract!Next
  BY <1>3, AbstractGate DEF Abstract!Next
<1> QED
  BY <1>1, <1>2, <1>3 DEF Next

-----------------------------------------------------------------------------
(* The sessions *)

Values ==
  {st[p] : st \in Pins \cup Restored, p \in Planes}
    \cup {"null", "auto-approval", "full", "default", "danger-full-access", "workspace-write", "ask", "never"}
States == [Planes -> Values]

\* While the plugin is up its baselines are the sessions' states, and a session
\* that is not live has none; every recorded move is then a user's.
SwitchInv ==
  /\ recorded \in Nat /\ recorded = moved
  /\ state \in [Ids -> States] /\ baseline \in [Ids -> States]
  /\ \A s \in Ids : s \notin live => state[s] = Unset
  /\ up => baseline = state

LEMMA NoPlanes == Cardinality({}) = 0
BY FS_EmptySet

LEMMA SomePlanes ==
  ASSUME NEW S \in SUBSET Planes PROVE Cardinality(S) \in Nat
<1>1. IsFiniteSet({"preset", "sandbox"} \cup {"policy"})
  <2>1. IsFiniteSet({"preset"})
    BY FS_Singleton
  <2>2. IsFiniteSet({"preset"} \cup {"sandbox"})
    BY <2>1, FS_AddElement
  <2>3. {"preset"} \cup {"sandbox"} = {"preset", "sandbox"}
    OBVIOUS
  <2> QED
    BY <2>2, <2>3, FS_AddElement
<1>2. {"preset", "sandbox"} \cup {"policy"} = Planes
  BY DEF Planes
<1> QED
  BY <1>1, <1>2, FS_Subset, FS_CardinalityType

LEMMA GivenStates == Pins \cup Restored \subseteq States
<1>. SUFFICES ASSUME NEW st \in Pins \cup Restored PROVE st \in States
  OBVIOUS
<1>1. st = [p \in Planes |-> st[p]]
  BY SessionsAssumption
<1>2. \A p \in Planes : st[p] \in Values
  BY DEF Values
<1> QED
  BY <1>1, <1>2 DEF States

LEMMA UnsetState == Unset \in States
BY DEF Unset, States, Values

LEMMA LifecycleState ==
  ASSUME NEW st \in States, NEW ok \in BOOLEAN
  PROVE  EnforceOwnSpec(st, ok) \in States /\ Lifecycle(st, ok) \in States
<1>. "ask" \in Values /\ "auto-approval" \in Values
  BY DEF Values
<1>1. ASSUME NEW x \in States PROVE EnforceOwnSpec(x, ok) \in States
  <2>1. [x EXCEPT !["policy"] = "ask"] \in States
    BY DEF States
  <2> QED
    BY <2>1 DEF EnforceOwnSpec
<1>2. RunPresetMigration(st, ok) \in States
  <2>1. [st EXCEPT !["preset"] = "auto-approval"] \in States
    BY DEF States
  <2> QED
    BY <2>1 DEF RunPresetMigration
<1> QED
  BY <1>1, <1>2 DEF Lifecycle

\* A session without a state has nothing to restore.
LEMMA UnsetStays ==
  ASSUME NEW ok \in BOOLEAN PROVE EnforceOwnSpec(Unset, ok) = Unset
BY DEF EnforceOwnSpec, IsGated, Unset, Planes

LEMMA PresetStates == Presets \subseteq States
BY DEF Presets, Gated, Planed, States, Values

\* The planes that change carry the baseline to the state after them.
LEMMA FoldedIsState ==
  ASSUME SwitchInv, up, NEW s \in Ids, NEW after \in States
  PROVE  Folded(s, after, Changed(state[s], after)) = after
BY DEF SwitchInv, Folded, Changed, States

\* What the plugin itself appends is no switch.
LEMMA OwnMoves ==
  ASSUME NEW s \in Ids, NEW after, NEW planes
  PROVE  RecordsOf(s, after, planes, TRUE) = {}
BY DEF RecordsOf

\* The recorded planes of a user's move are those that had a value.
LEMMA UserMoves ==
  ASSUME SwitchInv, up, NEW s \in Ids, NEW after \in States
  PROVE  RecordsOf(s, after, Changed(state[s], after), FALSE)
           = {p \in Changed(state[s], after) : state[s][p] # "null"}
BY DEF SwitchInv, RecordsOf, Changed

LEMMA PublishInv ==
  ASSUME SwitchInv, NEW s \in live, s \in Ids, NEW after \in States, NEW own \in BOOLEAN,
         Publish(s, after, own), UNCHANGED <<up, live>>,
         moved' = moved + (IF up /\ ~own THEN Cardinality({p \in Changed(state[s], after) : state[s][p] # "null"}) ELSE 0)
  PROVE  SwitchInv'
<1>. DEFINE planes == Changed(state[s], after)
            users == {p \in planes : state[s][p] # "null"}
<1>1. state' = [state EXCEPT ![s] = after]
  BY DEF Publish
<1>2. state' \in [Ids -> States] /\ \A x \in Ids : x \notin live' => state'[x] = Unset
  BY <1>1 DEF SwitchInv
<1>3. CASE ~up
  <2>1. UNCHANGED <<baseline, recorded>> /\ moved' = moved + 0
    BY <1>3 DEF Publish
  <2> QED
    BY <1>2, <1>3, <2>1 DEF SwitchInv
<1>4. CASE up
  <2>1. baseline' = state' /\ recorded' = recorded + Cardinality(RecordsOf(s, after, planes, own))
    BY <1>1, <1>4, FoldedIsState DEF Publish, SwitchInv
  <2>2. recorded' = moved' /\ recorded' \in Nat
    <3>1. CASE own
      <4>1. own = TRUE /\ moved' = moved + 0
        BY <3>1
      <4>2. RecordsOf(s, after, planes, own) = {}
        BY <4>1, OwnMoves
      <4> QED
        BY <2>1, <4>1, <4>2, NoPlanes DEF SwitchInv
    <3>2. CASE ~own
      <4>1. Cardinality(users) \in Nat /\ moved' = moved + Cardinality(users)
        BY <1>4, <3>2, SomePlanes DEF Changed
      <4>2. RecordsOf(s, after, planes, own) = users
        <5>1. own = FALSE
          BY <3>2
        <5> QED
          BY <1>4, <5>1, UserMoves
      <4> QED
        BY <2>1, <4>1, <4>2 DEF SwitchInv
    <3> QED
      BY <3>1, <3>2
  <2> QED
    BY <1>2, <2>1, <2>2 DEF SwitchInv
<1> QED
  BY <1>3, <1>4

\* A fresh session has no baseline yet, so what the host pins on it is none.
LEMMA CreatedInv ==
  ASSUME SwitchInv, NEW s \in Ids, SessionCreated(s) PROVE SwitchInv'
<1>1. PICK pin \in Pins :
        /\ state' = [state EXCEPT ![s] = pin]
        /\ baseline' = [baseline EXCEPT ![s] = IF up THEN pin ELSE Unset]
        /\ recorded' = recorded +
             (IF up THEN Cardinality(RecordsOf(s, pin, Changed(Unset, pin), FALSE)) ELSE 0)
  BY DEF SessionCreated
<1>2. s \notin live /\ live' = live \cup {s} /\ UNCHANGED <<up, moved>>
  BY DEF SessionCreated
<1>3. pin \in States /\ Unset \in States
  BY GivenStates, UnsetState
<1>4. recorded' = recorded
  <2>1. ASSUME up PROVE RecordsOf(s, pin, Changed(Unset, pin), FALSE) = {}
    BY <1>2, <2>1 DEF RecordsOf, SwitchInv, Unset, Changed
  <2> QED
    <3>1. CASE up
      <4>1. RecordsOf(s, pin, Changed(Unset, pin), FALSE) = {}
        BY <2>1, <3>1
      <4> QED
        <5>1. recorded' = recorded + Cardinality(RecordsOf(s, pin, Changed(Unset, pin), FALSE))
          BY <1>1, <3>1
        <5>2. recorded' = recorded + 0
          BY <4>1, <5>1, NoPlanes
        <5> QED
          BY <5>2 DEF SwitchInv
    <3>2. CASE ~up
      BY <1>1, <3>2 DEF SwitchInv
    <3> QED
      BY <3>1, <3>2
<1> QED
  BY <1>1, <1>2, <1>3, <1>4 DEF SwitchInv

LEMMA RestoredInv ==
  ASSUME SwitchInv, NEW s \in Ids, SessionRestored(s) PROVE SwitchInv'
<1>1. PICK st \in Restored, ok \in BOOLEAN :
        /\ state' = [state EXCEPT ![s] = IF up THEN Lifecycle(st, ok) ELSE st]
        /\ baseline' = [baseline EXCEPT ![s] = IF up THEN Lifecycle(st, ok) ELSE Unset]
  BY DEF SessionRestored, MayFail
<1>2. s \notin live /\ live' = live \cup {s} /\ UNCHANGED <<up, moved, recorded>>
  BY DEF SessionRestored
<1>3. st \in States /\ Lifecycle(st, ok) \in States /\ Unset \in States
  BY GivenStates, UnsetState, LifecycleState
<1> QED
  BY <1>1, <1>2, <1>3 DEF SwitchInv

LEMMA AgentInv ==
  ASSUME SwitchInv, NEW s \in Ids, AgentCreated(s) PROVE SwitchInv'
<1>1. PICK ok \in BOOLEAN : Publish(s, Lifecycle(state[s], ok), TRUE)
  BY DEF AgentCreated, MayFail
<1>2. Lifecycle(state[s], ok) \in States
  BY LifecycleState DEF SwitchInv
<1>3. moved' = moved + 0
  BY DEF AgentCreated, SwitchInv
<1> QED
  BY <1>1, <1>2, <1>3, PublishInv DEF AgentCreated

LEMMA SwitchedInv ==
  ASSUME SwitchInv, NEW s \in Ids, NEW target \in States, UserSwitches(s, target) PROVE SwitchInv'
<1>1. moved' = moved + (IF up /\ ~FALSE THEN Cardinality({p \in Changed(state[s], target) : state[s][p] # "null"}) ELSE 0)
  BY DEF UserSwitches
<1> QED
  BY <1>1, PublishInv DEF UserSwitches

LEMMA UserInv ==
  ASSUME SwitchInv, NEW s \in Ids, UserSwitch(s) PROVE SwitchInv'
<1>1. ASSUME NEW target \in Presets, UserSwitches(s, target) PROVE SwitchInv'
  BY <1>1, PresetStates, SwitchedInv
<1>2. ASSUME NEW policy \in {"ask", "never"}, UserSwitches(s, [state[s] EXCEPT !["policy"] = policy])
      PROVE  SwitchInv'
  <2>1. policy \in Values /\ state[s] \in States
    BY DEF SwitchInv, Values
  <2>2. [state[s] EXCEPT !["policy"] = policy] \in States
    BY <2>1 DEF States
  <2> QED
    BY <1>2, <2>2, SwitchedInv
<1> QED
  BY <1>1, <1>2 DEF UserSwitch

LEMMA TimerInv ==
  ASSUME SwitchInv, NEW s \in Ids, RestoreTimer(s) PROVE SwitchInv'
<1>1. up /\ UNCHANGED <<up, live, moved>>
  BY DEF RestoreTimer
<1>2. PICK ok \in IF s \in live THEN MayFail ELSE {FALSE} :
        LET after == EnforceOwnSpec(state[s], ok)
            planes == Changed(state[s], after) IN
        /\ state' = [state EXCEPT ![s] = after]
        /\ baseline' = [baseline EXCEPT ![s] = Folded(s, after, planes)]
        /\ recorded' = recorded + Cardinality(RecordsOf(s, after, planes, TRUE))
  BY DEF RestoreTimer
<1>3. ok \in BOOLEAN
  BY DEF MayFail
<1>4. EnforceOwnSpec(state[s], ok) \in States
  BY <1>3, LifecycleState DEF SwitchInv
<1>5. s \notin live => EnforceOwnSpec(state[s], ok) = Unset
  BY <1>3, UnsetStays DEF SwitchInv
<1>6. PICK after \in States : after = EnforceOwnSpec(state[s], ok)
  BY <1>4
<1>7. /\ state' = [state EXCEPT ![s] = after]
      /\ baseline' = [baseline EXCEPT ![s] = after]
      /\ recorded' = recorded
  <2>1. Folded(s, after, Changed(state[s], after)) = after
    BY <1>1, FoldedIsState
  <2>2. RecordsOf(s, after, Changed(state[s], after), TRUE) = {}
    BY OwnMoves
  <2>3. recorded' = recorded + Cardinality({})
    BY <1>2, <1>6, <2>2
  <2>4. recorded' = recorded
    BY <2>3, NoPlanes DEF SwitchInv
  <2> QED
    BY <1>2, <1>6, <2>1, <2>4
<1> QED
  BY <1>1, <1>5, <1>6, <1>7 DEF SwitchInv

LEMMA DisposedInv ==
  ASSUME SwitchInv, NEW s \in Ids, SessionDisposed(s) PROVE SwitchInv'
<1>1. /\ live' = live \ {s} /\ state' = [state EXCEPT ![s] = Unset]
      /\ up => baseline' = [baseline EXCEPT ![s] = Unset]
      /\ ~up => baseline' = baseline
      /\ UNCHANGED <<up, recorded, moved>>
  BY DEF SessionDisposed
<1> QED
  BY <1>1, UnsetState DEF SwitchInv

LEMMA StopsInv == ASSUME SwitchInv, PluginStops PROVE SwitchInv'
BY UnsetState DEF SwitchInv, PluginStops

\* The startup scan leaves each session's baseline at the state it restored.
LEMMA StartsInv == ASSUME SwitchInv, PluginStarts PROVE SwitchInv'
<1>1. up' = TRUE /\ UNCHANGED <<live, recorded, moved>>
  BY DEF PluginStarts
<1>2. PICK broken \in SUBSET live :
        /\ state' = [s \in Ids |-> IF s \in live THEN Lifecycle(state[s], s \notin broken) ELSE state[s]]
        /\ baseline' = [s \in Ids |-> IF s \in live THEN Lifecycle(state[s], s \notin broken) ELSE Unset]
  BY DEF PluginStarts
<1>3. \A s \in Ids : Lifecycle(state[s], s \notin broken) \in States
  BY LifecycleState DEF SwitchInv
<1>4. baseline' = state' /\ state' \in [Ids -> States]
  BY <1>2, <1>3, UnsetState DEF SwitchInv
<1> QED
  BY <1>1, <1>2, <1>4 DEF SwitchInv

LEMMA SwitchStep == SwitchInv /\ [SessionsNext]_allVars => SwitchInv'
<1>. SUFFICES ASSUME SwitchInv, [SessionsNext]_allVars PROVE SwitchInv'
  OBVIOUS
<1>1. CASE Lifecycles
  <2>1. ASSUME NEW s \in Ids, NEW mode, SetReviewMode(s, mode) PROVE SwitchInv'
    BY <2>1 DEF SetReviewMode, SwitchInv
  <2> QED
    BY <1>1, <2>1, CreatedInv, RestoredInv, AgentInv, UserInv, TimerInv DEF Lifecycles
<1>2. CASE PluginStops
  BY <1>2, StopsInv
<1>3. CASE PluginStarts
  BY <1>3, StartsInv
<1>4. ASSUME NEW s \in Ids, SessionDisposed(s) PROVE SwitchInv'
  BY <1>4, DisposedInv
<1>5. ASSUME NEW key \in Keys, GatedCall(key) PROVE SwitchInv'
  BY <1>5 DEF GatedCall, SwitchInv
<1>6. CASE Settings \/ UNCHANGED allVars
  BY <1>6 DEF Settings, SwitchInv, allVars, sessionVars
<1> QED
  BY <1>1, <1>2, <1>3, <1>4, <1>5, <1>6 DEF SessionsNext

\* The audit holds one user switch for every plane with a value that a user moved
\* while the plugin watched: no pin, restored state, migration or restore of the
\* plugin's own is taken for one, and none is missed (permission-change.ts:16-29).
THEOREM RecordsAreUsers == SessionsSpec => []SwitchesAreUsers
<1>1. SessionsInit => SwitchInv
  BY UnsetState DEF SessionsInit, SwitchInv
<1>2. SwitchInv => SwitchesAreUsers
  BY DEF SwitchInv, SwitchesAreUsers
<1> QED
  BY <1>1, <1>2, SwitchStep, PTL DEF SessionsSpec

-----------------------------------------------------------------------------
(* The review modes *)

LEMMA ModesStep == ModesOnDisk /\ [SessionsNext]_allVars => ModesOnDisk'
<1>. SUFFICES ASSUME ModesOnDisk, [SessionsNext]_allVars PROVE ModesOnDisk'
  OBVIOUS
<1>1. ASSUME NEW m, NEW ok, WriteModes(m, ok) PROVE ModesOnDisk'
  BY <1>1 DEF WriteModes, ModesOnDisk
<1>2. ASSUME UNCHANGED <<up, modes, modeFile, unsaved>> PROVE ModesOnDisk'
  BY <1>2 DEF ModesOnDisk
<1>3. ASSUME NEW s \in Ids, NEW mode, SetReviewMode(s, mode) PROVE ModesOnDisk'
  BY <1>1, <1>3 DEF SetReviewMode
<1>4. ASSUME NEW s \in Ids, SessionDisposed(s) PROVE ModesOnDisk'
  <2>1. CASE up
    <3>1. PICK ok \in MayFail : DropMode(s, ok)
      BY <1>4, <2>1 DEF SessionDisposed
    <3>2. CASE s \in DOMAIN modes
      BY <1>1, <3>1, <3>2 DEF DropMode
    <3>3. CASE s \notin DOMAIN modes
      BY <1>2, <1>4, <3>1, <3>3 DEF DropMode, SessionDisposed
    <3> QED
      BY <3>2, <3>3
  <2>2. CASE ~up
    BY <1>2, <1>4, <2>2 DEF SessionDisposed
  <2> QED
    BY <2>1, <2>2
<1>5. CASE PluginStops
  BY <1>5 DEF PluginStops, ModesOnDisk
<1>6. CASE PluginStarts
  BY <1>6 DEF PluginStarts, ModesOnDisk
<1>7. CASE Lifecycles
  <2>1. ASSUME NEW s \in Ids,
               SessionCreated(s) \/ SessionRestored(s) \/ AgentCreated(s) \/ UserSwitch(s) \/ RestoreTimer(s)
        PROVE  ModesOnDisk'
    BY <1>2, <2>1 DEF SessionCreated, SessionRestored, AgentCreated, UserSwitch, UserSwitches, RestoreTimer
  <2> QED
    BY <1>3, <1>7, <2>1 DEF Lifecycles
<1>8. ASSUME NEW key \in Keys, GatedCall(key) PROVE ModesOnDisk'
  BY <1>2, <1>8 DEF GatedCall
<1>9. CASE Settings \/ UNCHANGED allVars
  BY <1>2, <1>9 DEF Settings, allVars, sessionVars
<1> QED
  BY <1>4, <1>5, <1>6, <1>7, <1>8, <1>9 DEF SessionsNext

\* After a write that succeeded the mode file holds what memory holds, through
\* commands, disposals and restarts (review-mode.ts, index.ts:1871-1953).
THEOREM ModesAreKept == SessionsSpec => []ModesOnDisk
<1>1. SessionsInit => ModesOnDisk
  BY DEF SessionsInit, ModesOnDisk
<1> QED
  BY <1>1, ModesStep, PTL DEF SessionsSpec

-----------------------------------------------------------------------------
(* The loop guard of the session *)

\* The session's gated calls, its end and the plugin's are the only steps of its
\* table.
LEMMA SessionsAreGuarded == SessionsSpec => Spec
<1>1. SessionsInit => Init
  BY DEF SessionsInit
<1>2. [SessionsNext]_allVars => [Next]_vars
  BY DEF SessionsNext, Lifecycles, PluginStops, SessionDisposed, GatedCall, Settings, Next, allVars
<1> QED
  BY <1>1, <1>2, PTL DEF SessionsSpec, Spec

\* The table stays within LOOP_GUARD_MAX_KEYS, its entries are told apart by
\* position and none holds a run of the threshold (loop-guard.ts:59-72).
THEOREM TableIsSound == SessionsSpec => []TableInv
<1>1. IInv => TableInv
  BY DEF IInv
<1> QED
  BY SessionsAreGuarded, InitInv, NextInv, <1>1, PTL DEF Spec

\* recordLoopCall fires exactly on the Threshold-th identical gated call in a
\* row since it last fired, however small the table is (loop-guard.ts:59-72).
THEOREM GuardIsExact == SessionsSpec => ImplementsStreakGuard
<1>1. Init => Abstract!Init
  BY AbstractInit
<1> QED
  BY <1>1, SessionsAreGuarded, InitInv, NextInv, AbstractNext, PTL DEF Spec, ImplementsStreakGuard, Abstract!Spec

-----------------------------------------------------------------------------
(* The settings *)

\* Normalizing a row a second time changes nothing.
LEMMA ClampTwice ==
  ASSUME NEW raw, NEW row, row.policy = ClampPolicy(raw), row.unlocked = raw.unlocked
  PROVE  ClampPolicy(row) = row.policy
<1>. DEFINE D == DOMAIN ClampPolicy(raw)
<1>1. ClampPolicy(raw) = [c \in D |-> raw.policy[c]]
  BY DEF ClampPolicy
<1>2. \A c \in D : /\ c \in Categories /\ raw.policy[c] \in {"auto", "ask", "deny"}
                   /\ (c \in Locked /\ raw.policy[c] # "ask") => c \in raw.unlocked \cap {"privilege", "protected"}
  BY DEF ClampPolicy
<1>3. DOMAIN ClampPolicy(row) = D
  BY <1>1, <1>2 DEF ClampPolicy
<1>. HIDE DEF D
<1>4. ClampPolicy(row) = [c \in D |-> row.policy[c]]
  BY <1>3 DEF ClampPolicy
<1> QED
  BY <1>1, <1>4

LEMMA BaseIsNormal == ResolveConfig(Base) = Base
<1>1. ClampPolicy(Base) = Base.policy
  BY DEF ClampPolicy, Base
<1>2. Base.timeout \in TimeoutActions /\ TimeoutActionOf(Base) = Base.timeout
  BY DEF TimeoutActionOf, TimeoutActions, Base
<1>3. TrustedDirs(Base) = Base.trusted /\ DshSubpaths(Base) = Base.openings
  BY DEF TrustedDirs, DshSubpaths, Base
<1>4. MaintenancePaths(Base) = Base.maintenance /\ ClampThreshold(Base.threshold) = Base.threshold
  BY DEF MaintenancePaths, ClampThreshold, Base
<1>5. ResolveConfig(Base) = [timeout |-> Base.timeout, policy |-> Base.policy, unlocked |-> Base.unlocked,
             trusted |-> Base.trusted, openings |-> Base.openings,
             maintenance |-> Base.maintenance, threshold |-> Base.threshold]
  BY <1>1, <1>2, <1>3, <1>4 DEF ResolveConfig
<1> QED
  BY <1>5 DEF Base

LEMMA NormalizedIsNormal ==
  ASSUME NEW raw, ResolveConfig(raw) # Invalid
  PROVE  ResolveConfig(ResolveConfig(raw)) = ResolveConfig(raw)
<1>1. PICK row : row = ResolveConfig(raw)
  OBVIOUS
<1>2. row = [timeout |-> TimeoutActionOf(raw), policy |-> ClampPolicy(raw), unlocked |-> raw.unlocked,
             trusted |-> TrustedDirs(raw), openings |-> DshSubpaths(raw),
             maintenance |-> MaintenancePaths(raw), threshold |-> ClampThreshold(raw.threshold)]
  BY <1>1 DEF ResolveConfig
<1>3. row.timeout \in TimeoutActions /\ TimeoutActionOf(row) = row.timeout
  BY <1>2 DEF TimeoutActionOf, TimeoutActions
<1>4. ClampPolicy(row) = row.policy
  BY <1>2, ClampTwice
<1>5. TrustedDirs(row) = row.trusted
  BY <1>2 DEF TrustedDirs
<1>6. DshSubpaths(row) = row.openings
  BY <1>2 DEF DshSubpaths
<1>7. MaintenancePaths(row) = row.maintenance
  BY <1>2 DEF MaintenancePaths
<1>8. ClampThreshold(row.threshold) = row.threshold
  BY <1>2 DEF ClampThreshold
<1>9. ResolveConfig(row) = [timeout |-> row.timeout, policy |-> row.policy, unlocked |-> row.unlocked,
             trusted |-> row.trusted, openings |-> row.openings,
             maintenance |-> row.maintenance, threshold |-> row.threshold]
  BY <1>3, <1>4, <1>5, <1>6, <1>7, <1>8 DEF ResolveConfig
<1> QED
  BY <1>1, <1>2, <1>9

\* What is read is the normalized row.
LEMMA ReadingIsHonest ==
  ASSUME SettingsHonest, NEW armed, NEW spent, ApplyHostConfig(armed, spent),
         UNCHANGED <<plugin, active, stored>>
  PROVE  SettingsHonest'
<1>1. CASE Readable
  <2>1. config' = ResolveConfig(stored) /\ ResolveConfig(stored) # Invalid
    BY <1>1 DEF ApplyHostConfig, Readable
  <2> QED
    BY <2>1, NormalizedIsNormal DEF SettingsHonest
<1>2. CASE ~Readable
  <2>1. UNCHANGED <<config, loaded>> /\ (loaded => error' = ReadError)
    BY <1>2 DEF ApplyHostConfig
  <2>2. active => ReadError # "none"
    BY DEF ReadError, Visible
  <2> QED
    BY <2>1, <2>2 DEF SettingsHonest
<1> QED
  BY <1>1, <1>2

LEMMA SettingsStep == SettingsHonest /\ [SessionsNext]_allVars => SettingsHonest'
<1>. SUFFICES ASSUME SettingsHonest, [SessionsNext]_allVars PROVE SettingsHonest'
  OBVIOUS
<1>1. ASSUME UNCHANGED settingsVars PROVE SettingsHonest'
  BY <1>1 DEF settingsVars, SettingsHonest
<1>2. CASE Apply
  <2>1. CASE Readable
    <3>1. config' = ResolveConfig(stored) /\ ResolveConfig(stored) # Invalid /\ stored' = stored
      BY <1>2, <2>1 DEF Apply, Readable
    <3> QED
      BY <3>1, NormalizedIsNormal DEF SettingsHonest
  <2>2. CASE ~Readable
    <3>1. config' = Base /\ loaded' = FALSE
      BY <1>2, <2>2 DEF Apply
    <3> QED
      BY <3>1, BaseIsNormal DEF SettingsHonest
  <2> QED
    BY <2>1, <2>2
<1>3. CASE RetryFires
  BY <1>3, ReadingIsHonest DEF RetryFires
<1>4. CASE DocumentUpdated
  BY <1>4, ReadingIsHonest DEF DocumentUpdated
<1>5. CASE DisposePlugin \/ HostActivates \/ HostLeaves
  BY <1>5 DEF DisposePlugin, HostActivates, HostLeaves, SettingsHonest
<1>6. ASSUME NEW row, HostStores(row) PROVE SettingsHonest'
  BY <1>6 DEF HostStores, SettingsHonest
<1>7. ASSUME NEW document, Import(document) PROVE SettingsHonest'
  BY <1>7 DEF Import, SettingsHonest
<1>8. ASSUME NEW k, NEW v, EditKey(k, v) PROVE SettingsHonest'
  BY <1>8 DEF EditKey, SettingsHonest
<1>9. CASE Settings
  BY <1>2, <1>3, <1>4, <1>5, <1>6, <1>7, <1>8, <1>9 DEF Settings
<1> QED
  BY <1>1, <1>9 DEF SessionsNext, allVars

\* The safety half of SettingsTakeForce: with no error on display and no signal
\* on its way, what runs is the normalized row the host stores, whatever saves,
\* bad rows, retries and restarts led there, and it is a fixed point of the
\* normalization (index.ts applyHostConfig, config-normalize.ts).
THEOREM SettingsAreHonest == SessionsSpec => []SettingsHonest
<1>1. SessionsInit => SettingsHonest
  BY BaseIsNormal DEF SessionsInit, SettingsInit, SettingsHonest
<1> QED
  BY <1>1, SettingsStep, PTL DEF SessionsSpec

-----------------------------------------------------------------------------
(* Silent sessions *)

\* What the deferred restore is for: gated, under a policy that never asks.
Silent(st) == IsGated(st) /\ EffectiveNever(st)

\* A silent session has a restore timer armed, or the audit says that its last
\* restore failed, or it is as the host pinned it, with no policy of its own.
Watched(s) ==
  up /\ s \in live /\ Silent(state[s])
    => \/ timers[s] > 0
       \/ s \in failed
       \/ state[s] \in Pins /\ state[s]["policy"] = "null"

SilentInv ==
  /\ SwitchInv
  /\ timers \in [Ids -> Nat]
  /\ \A s \in Ids : Watched(s)

\* No gated session runs silently unwatched.
SilentWatched == \A s \in Ids : Watched(s)

LEMMA RestoredSpeaks ==
  ASSUME NEW st \in States PROVE ~Silent(EnforceOwnSpec(st, TRUE)) /\ ~Silent(Lifecycle(st, TRUE))
<1>1. ASSUME NEW x \in States PROVE ~Silent(EnforceOwnSpec(x, TRUE))
  <2>1. "policy" \in DOMAIN x /\ "policy" # "preset"
    BY DEF States, Planes
  <2>2. CASE Silent(x)
    <3>1. EnforceOwnSpec(x, TRUE)["policy"] = "ask"
      BY <2>1, <2>2 DEF EnforceOwnSpec, Silent
    <3> QED
      BY <3>1 DEF Silent, EffectiveNever
  <2>3. CASE ~Silent(x)
    BY <2>3 DEF EnforceOwnSpec, Silent
  <2> QED
    BY <2>2, <2>3
<1>2. RunPresetMigration(st, TRUE) \in States
  <2>1. "auto-approval" \in Values
    BY DEF Values
  <2>2. [st EXCEPT !["preset"] = "auto-approval"] \in States
    BY <2>1 DEF States
  <2> QED
    BY <2>2 DEF RunPresetMigration
<1> QED
  BY <1>1, <1>2 DEF Lifecycle

\* A session is silent after its lifecycle only if its restore failed.
LEMMA SilentFails ==
  ASSUME NEW st \in States, NEW ok \in BOOLEAN, Silent(Lifecycle(st, ok))
  PROVE  LifecycleFails(st, ok)
<1>1. ok = FALSE
  BY RestoredSpeaks
<1>2. Lifecycle(st, ok) = RunPresetMigration(st, ok)
  BY <1>1 DEF Lifecycle, EnforceOwnSpec
<1> QED
  BY <1>1, <1>2 DEF LifecycleFails, RestoreFails, Silent

\* A state that becomes silent otherwise than by the plugin has a policy event.
LEMMA SilenceArms ==
  ASSUME SwitchInv, NEW s \in Ids, NEW after \in States, after["policy"] = "never",
         after["policy"] # state[s]["policy"], NEW own \in BOOLEAN
  PROVE  Arms(s, after, Changed(state[s], after), own)
BY DEF Arms, Changed, Planes

\* A session whose state, timers and marks stay is watched as before.
LEMMA OthersWatched ==
  ASSUME NEW s \in Ids, Watched(s), up' => up, s \in live' => s \in live,
         state'[s] = state[s], timers'[s] = timers[s], s \in failed => s \in failed'
  PROVE  Watched(s)'
BY DEF Watched

LEMMA SilentCreated ==
  ASSUME SilentInv, NEW s \in Ids, SessionCreated(s) PROVE SilentInv'
<1>1. SwitchInv'
  BY CreatedInv DEF SilentInv
<1>2. PICK pin \in Pins :
        /\ state' = [state EXCEPT ![s] = pin]
        /\ timers' = [timers EXCEPT ![s] = IF up /\ Arms(s, pin, Changed(Unset, pin), FALSE) THEN @ + 1 ELSE @]
  BY DEF SessionCreated
<1>3. live' = live \cup {s} /\ UNCHANGED <<up, failed>>
  BY DEF SessionCreated
<1>4. timers' \in [Ids -> Nat]
  <2>1. timers \in [Ids -> Nat] /\ timers[s] \in Nat /\ timers[s] + 1 \in Nat
    BY DEF SilentInv
  <2>2. timers' = timers \/ timers' = [timers EXCEPT ![s] = @ + 1]
    BY <1>2, <2>1
  <2> QED
    BY <2>1, <2>2
<1>5. ASSUME NEW x \in Ids PROVE Watched(x)'
  <2>1. CASE x # s
    BY <1>2, <1>3, <2>1, OthersWatched DEF SilentInv, SwitchInv
  <2>2. CASE x = s
    <3>1. SUFFICES ASSUME up, Silent(pin) PROVE timers'[s] > 0 \/ pin["policy"] = "null"
      BY <1>2, <1>3, <2>2 DEF Watched, SilentInv, SwitchInv
    <3>2. CASE pin["policy"] = "never"
      <4>1. Arms(s, pin, Changed(Unset, pin), FALSE)
        BY <3>2 DEF Arms, Changed, Planes, Unset
      <4>2. timers'[s] = timers[s] + 1 /\ timers[s] \in Nat
        BY <1>2, <3>1, <4>1 DEF SilentInv
      <4> QED
        BY <4>2
    <3> QED
      BY <3>1, <3>2 DEF Silent, EffectiveNever
  <2> QED
    BY <2>1, <2>2
<1> QED
  BY <1>1, <1>4, <1>5 DEF SilentInv

LEMMA SilentRestored ==
  ASSUME SilentInv, NEW s \in Ids, SessionRestored(s) PROVE SilentInv'
<1>1. SwitchInv'
  BY RestoredInv DEF SilentInv
<1>2. PICK st \in Restored, ok \in BOOLEAN :
        /\ state' = [state EXCEPT ![s] = IF up THEN Lifecycle(st, ok) ELSE st]
        /\ failed' = IF LifecycleFails(st, ok) THEN failed \cup {s} ELSE failed
  BY DEF SessionRestored, MayFail
<1>3. live' = live \cup {s} /\ UNCHANGED <<up, timers>> /\ failed \subseteq failed'
  BY <1>2 DEF SessionRestored
<1>4. ASSUME NEW x \in Ids PROVE Watched(x)'
  <2>1. CASE x # s
    BY <1>2, <1>3, <2>1, OthersWatched DEF SilentInv, SwitchInv
  <2>2. CASE x = s
    <3>1. up => state'[x] = Lifecycle(st, ok)
      BY <1>2, <2>2 DEF SilentInv, SwitchInv
    <3>2. st \in States
      BY GivenStates
    <3>3. Silent(Lifecycle(st, ok)) => x \in failed'
      BY <1>2, <2>2, <3>2, SilentFails
    <3> QED
      BY <1>3, <3>1, <3>3 DEF Watched
  <2> QED
    BY <2>1, <2>2
<1> QED
  BY <1>1, <1>3, <1>4 DEF SilentInv

\* A publication leaves the session watched if it leaves it speaking, if it marks
\* it as failed, or if it set its policy to never.
LEMMA SilentPublish ==
  ASSUME SilentInv, SwitchInv', NEW s \in Ids, NEW after \in States, NEW own \in BOOLEAN,
         Publish(s, after, own), UNCHANGED <<up, live>>, failed \ {s} \subseteq failed',
         ~Silent(after) \/ s \in failed' \/ (after["policy"] = "never" /\ after["policy"] # state[s]["policy"])
  PROVE  SilentInv'
<1>1. /\ state' = [state EXCEPT ![s] = after]
      /\ up => timers' = [timers EXCEPT ![s] = IF Arms(s, after, Changed(state[s], after), own) THEN @ + 1 ELSE @]
      /\ ~up => timers' = timers
  BY DEF Publish
<1>2. timers' \in [Ids -> Nat]
  BY <1>1 DEF SilentInv
<1>3. ASSUME NEW x \in Ids PROVE Watched(x)'
  <2>1. CASE ~up
    BY <2>1 DEF Watched
  <2>2. CASE up /\ x # s
    BY <1>1, <2>2, OthersWatched DEF SilentInv, SwitchInv
  <2>3. CASE up /\ x = s
    <3>1. state'[x] = after
      BY <1>1, <2>3 DEF SilentInv, SwitchInv
    <3>2. CASE ~Silent(after) \/ s \in failed'
      BY <2>3, <3>1, <3>2 DEF Watched
    <3>3. CASE after["policy"] = "never" /\ after["policy"] # state[s]["policy"]
      <4>1. Arms(s, after, Changed(state[s], after), own)
        BY <3>3, SilenceArms DEF SilentInv
      <4>2. timers'[s] = timers[s] + 1 /\ timers[s] \in Nat
        BY <1>1, <2>3, <4>1 DEF SilentInv
      <4> QED
        BY <2>3, <4>2 DEF Watched
    <3> QED
      BY <3>2, <3>3
  <2> QED
    BY <2>1, <2>2, <2>3
<1> QED
  BY <1>2, <1>3 DEF SilentInv

LEMMA SilentAgent ==
  ASSUME SilentInv, NEW s \in Ids, AgentCreated(s) PROVE SilentInv'
<1>1. SwitchInv'
  BY AgentInv DEF SilentInv
<1>2. state[s] \in States
  BY DEF SilentInv, SwitchInv
<1>3. PICK ok \in BOOLEAN :
        /\ Publish(s, Lifecycle(state[s], ok), TRUE)
        /\ failed' = IF LifecycleFails(state[s], ok) THEN failed \cup {s} ELSE failed
  BY DEF AgentCreated, MayFail
<1>4. Lifecycle(state[s], ok) \in States
  BY <1>2, LifecycleState
<1>5. ~Silent(Lifecycle(state[s], ok)) \/ s \in failed'
  BY <1>2, <1>3, SilentFails
<1>6. UNCHANGED <<up, live>> /\ failed \ {s} \subseteq failed'
  BY <1>3 DEF AgentCreated
<1> QED
  BY <1>1, <1>3, <1>4, <1>5, <1>6, SilentPublish

LEMMA SilentUser ==
  ASSUME SilentInv, NEW s \in Ids, UserSwitch(s) PROVE SilentInv'
<1>1. SwitchInv' /\ state[s] \in States
  BY UserInv DEF SilentInv, SwitchInv
<1>2. ASSUME NEW target \in Presets, UserSwitches(s, target) PROVE SilentInv'
  <2>1. target \in States
    BY PresetStates
  <2>2. ~Silent(target)
    BY DEF Presets, Gated, Planed, Planes, Silent, IsGated, EffectiveNever
  <2> QED
    BY <1>1, <1>2, <2>1, <2>2, SilentPublish DEF UserSwitches
<1>3. ASSUME NEW policy \in {"ask", "never"}, UserSwitches(s, [state[s] EXCEPT !["policy"] = policy])
      PROVE  SilentInv'
  <2>. DEFINE target == [state[s] EXCEPT !["policy"] = policy]
  <2>1. target \in States
    <3>1. policy \in Values
      BY DEF Values
    <3> QED
      BY <1>1, <3>1 DEF States
  <2>2. target["policy"] = policy
    BY <1>1 DEF States, Planes
  <2>3. target # state[s] /\ Publish(s, target, FALSE) /\ UNCHANGED <<up, live>> /\ failed' = failed \ {s}
    BY <1>3 DEF UserSwitches
  <2>4. target["policy"] # state[s]["policy"]
    BY <1>1, <2>2, <2>3 DEF States, Planes
  <2>5. policy = "ask" => ~Silent(target)
    BY <2>2 DEF Silent, EffectiveNever
  <2> HIDE DEF target
  <2> QED
    BY <1>1, <2>1, <2>2, <2>3, <2>4, <2>5, SilentPublish
<1> QED
  BY <1>2, <1>3 DEF UserSwitch

LEMMA SilentTimer ==
  ASSUME SilentInv, NEW s \in Ids, RestoreTimer(s) PROVE SilentInv'
<1>1. SwitchInv'
  BY TimerInv DEF SilentInv
<1>2. PICK ok \in IF s \in live THEN MayFail ELSE {FALSE} :
        /\ state' = [state EXCEPT ![s] = EnforceOwnSpec(state[s], ok)]
        /\ failed' = IF RestoreFails(state[s], ok) THEN failed \cup {s} ELSE failed
        /\ timers' = [timers EXCEPT ![s] = @ - 1]
  BY DEF RestoreTimer
<1>3. ok \in BOOLEAN /\ timers[s] > 0 /\ UNCHANGED <<up, live>>
  BY DEF RestoreTimer, MayFail
<1>4. timers' \in [Ids -> Nat]
  BY <1>2, <1>3 DEF SilentInv
<1>5. ASSUME NEW x \in Ids PROVE Watched(x)'
  <2>1. CASE x # s
    BY <1>2, <1>3, <2>1, OthersWatched DEF SilentInv, SwitchInv
  <2>2. CASE x = s
    <3>1. state[s] \in States /\ state'[s] = EnforceOwnSpec(state[s], ok)
      BY <1>2 DEF SilentInv, SwitchInv
    <3>2. CASE ok = TRUE
      BY <2>2, <3>1, <3>2, RestoredSpeaks DEF Watched
    <3>3. CASE ok = FALSE
      <4>1. state'[s] = state[s]
        BY <3>1, <3>3 DEF EnforceOwnSpec
      <4>2. Silent(state[s]) => s \in failed'
        BY <1>2, <3>3 DEF RestoreFails, Silent
      <4> QED
        BY <2>2, <4>1, <4>2 DEF Watched
    <3> QED
      BY <1>3, <3>2, <3>3
  <2> QED
    BY <2>1, <2>2
<1> QED
  BY <1>1, <1>4, <1>5 DEF SilentInv

LEMMA SilentStep == SilentInv /\ [SessionsNext]_allVars => SilentInv'
<1>. SUFFICES ASSUME SilentInv, [SessionsNext]_allVars PROVE SilentInv'
  OBVIOUS
<1>1. SwitchInv'
  BY SwitchStep DEF SilentInv
<1>2. ASSUME UNCHANGED <<up, live, state, timers, failed>> PROVE SilentInv'
  BY <1>1, <1>2 DEF SilentInv, Watched
<1>3. CASE Lifecycles
  <2>1. ASSUME NEW s \in Ids, NEW mode, SetReviewMode(s, mode) PROVE SilentInv'
    BY <1>2, <2>1 DEF SetReviewMode
  <2> QED
    BY <1>3, <2>1, SilentCreated, SilentRestored, SilentAgent, SilentUser, SilentTimer DEF Lifecycles
<1>4. CASE PluginStops
  <2>1. ~up' /\ timers' \in [Ids -> Nat]
    BY <1>4 DEF PluginStops
  <2> QED
    BY <1>1, <2>1 DEF SilentInv, Watched
<1>5. CASE PluginStarts
  <2>1. timers' = timers /\ live' = live
    BY <1>5 DEF PluginStarts
  <2>2. ASSUME NEW s \in Ids, s \in live PROVE ~Silent(state'[s]) \/ s \in failed'
    <3>1. PICK broken \in SUBSET live :
            /\ state' = [x \in Ids |-> IF x \in live THEN Lifecycle(state[x], x \notin broken) ELSE state[x]]
            /\ failed' = failed \cup {x \in broken : LifecycleFails(state[x], FALSE)}
      BY <1>5 DEF PluginStarts
    <3>2. PICK ok \in BOOLEAN : ok = (s \notin broken)
      OBVIOUS
    <3>3. state'[s] = Lifecycle(state[s], ok) /\ state[s] \in States
      BY <2>2, <3>1, <3>2 DEF SilentInv, SwitchInv
    <3>4. CASE s \in broken
      <4>1. ok = FALSE
        BY <3>2, <3>4
      <4> QED
        BY <3>1, <3>3, <3>4, <4>1, SilentFails
    <3>5. CASE s \notin broken
      <4>1. ok = TRUE
        BY <3>2, <3>5
      <4> QED
        BY <3>3, <4>1, RestoredSpeaks
    <3> QED
      BY <3>4, <3>5
  <2> QED
    BY <1>1, <2>1, <2>2 DEF SilentInv, Watched
<1>6. ASSUME NEW s \in Ids, SessionDisposed(s) PROVE SilentInv'
  <2>1. /\ live' = live \ {s} /\ state' = [state EXCEPT ![s] = Unset]
        /\ failed' = failed \ {s} /\ UNCHANGED <<up, timers>>
    BY <1>6 DEF SessionDisposed
  <2>2. ASSUME NEW x \in Ids PROVE Watched(x)'
    <3>1. CASE x = s
      BY <2>1, <3>1 DEF Watched
    <3>2. CASE x # s
      BY <2>1, <3>2, OthersWatched DEF SilentInv, SwitchInv
    <3> QED
      BY <3>1, <3>2
  <2> QED
    BY <1>1, <2>1, <2>2 DEF SilentInv
<1>7. ASSUME NEW key \in Keys, GatedCall(key) PROVE SilentInv'
  BY <1>2, <1>7 DEF GatedCall
<1>8. CASE Settings \/ UNCHANGED allVars
  BY <1>2, <1>8 DEF Settings, allVars, sessionVars
<1> QED
  BY <1>3, <1>4, <1>5, <1>6, <1>7, <1>8 DEF SessionsNext

\* The safety half of SilentNeverAnswered: while the plugin runs, a gated session
\* under a policy that never asks always has its restore under way or its failure
\* in the audit, whoever made it silent and in whatever order users, hosts,
\* restarts and timers came; the one exception is a session the host has just
\* pinned so, without a policy (preset-migration.ts enforceOwnSpec, index.ts).
THEOREM SilentAlwaysWatched == SessionsSpec => []SilentWatched
<1>1. SessionsInit => SilentInv
  BY UnsetState DEF SessionsInit, SilentInv, SwitchInv, Watched
<1>2. SilentInv => SilentWatched
  BY DEF SilentInv, SilentWatched
<1> QED
  BY <1>1, <1>2, SilentStep, PTL DEF SessionsSpec
=============================================================================

---------------------------- MODULE ShellProofs -----------------------------
(***************************************************************************)
(* What a verdict on a command line is worth, for every set of segments,   *)
(* every length of line and depth of programs.                             *)
(*                                                                         *)
(* The three properties share one fact: while no doubt is raised, the base *)
(* the engine judges a segment from is the directory the shell runs it in  *)
(* (TrackInv).  It is stated of a program only while the programs around   *)
(* it run, and of the programs around it as they will be when it ends.     *)
(***************************************************************************)
EXTENDS ShellLine, TLAPS

VerdictSet == {"allow", "semantic", "manual", "deny"}

LineSet ==
  [by : {"", "&&", "|", ";", "&"}, count : Nat, before : Nat, start : Dirs, base : Dirs,
   opened : BOOLEAN, strict : BOOLEAN, opaque : BOOLEAN, worst : VerdictSet,
   changer : {"none", "allow"}, moved : {"no", "changer", "carried"}, nested : VerdictSet,
   removes : BOOLEAN, namesHome : BOOLEAN, exposes : BOOLEAN]

ShellSet ==
  [cwd : Dirs, list : Dirs, next : Dirs, runs : BOOLEAN, piped : BOOLEAN, ok : BOOLEAN]

TypeOK ==
  /\ ws \in Dirs
  /\ line \in LineSet
  /\ sh \in ShellSet
  /\ outer \in Seq([line : LineSet, sh : ShellSet])

-----------------------------------------------------------------------------
(* Verdicts *)

LEMMA Ranks ==
  Rank("allow") = 1 /\ Rank("semantic") = 2 /\ Rank("manual") = 3 /\ Rank("deny") = 4
BY DEF Rank, Verdicts

\* The stronger of two verdicts is one of them, and no weaker than either.
LEMMA StrongerOf ==
  ASSUME NEW v \in VerdictSet, NEW w \in VerdictSet
  PROVE  /\ Stronger(v, w) \in VerdictSet
         /\ Stronger(v, w) = "allow" => v = "allow" /\ w = "allow"
         /\ v \in {"manual", "deny"} \/ w \in {"manual", "deny"} => Stronger(v, w) \in {"manual", "deny"}
BY Ranks DEF Stronger, VerdictSet

LEMMA ChangerVerdictIs ==
  ASSUME NEW l \in LineSet, NEW by
  PROVE  /\ ChangerVerdict(l, by) \in {"allow", "semantic"}
         /\ by \notin {"", "&&"} /\ l.changer # "none" => ChangerVerdict(l, by) = "semantic"
BY DEF ChangerVerdict, LineSet

\* What this module knows of a segment that was typed.
TypedSegment(s) ==
  /\ s.program = "none"
  /\ \A t \in s.operands \cup s.writes \cup s.reads : t.dir \in Dirs \cup {"here"}
  /\ s.head = "cd" => \A t, u \in s.operands : t = u

LEMMA SegmentsAreTyped == \A s \in Segments : TypedSegment(s)
BY SegmentsAssumption DEF TypedSegment

\* A segment the walk judges: a typed one, or the one that runs a program.
Classes == {"denied", "destructive", "visible"}
Judgeable(s) == TypedSegment(s) \/ \E class \in Classes : s = Interpreter(class)

LEMMA InterpreterIs ==
  ASSUME NEW class \in Classes
  PROVE  LET s == Interpreter(class) IN
         /\ s.head = "sh" /\ s.program = class /\ s.wrap = "none"
         /\ s.operands = {} /\ s.writes = {} /\ s.reads = {}
BY DEF Interpreter, Blank

LEMMA NestedVerdictIs ==
  ASSUME NEW s, Judgeable(s)
  PROVE  /\ NestedVerdict(s) \in {"semantic", "manual", "deny"}
         /\ ProgramDenied(s) => NestedVerdict(s) = "deny"
         /\ TypedSegment(s) => NestedVerdict(s) = "manual"
<1>1. CASE TypedSegment(s)
  BY <1>1 DEF TypedSegment, NestedVerdict, ProgramDenied
<1>2. CASE \E class \in Classes : s = Interpreter(class)
  <2>1. PICK class \in Classes : s = Interpreter(class)
    BY <1>2
  <2>2. s.program = class
    BY <2>1, InterpreterIs
  <2>3. ~TypedSegment(s)
    BY <2>2 DEF TypedSegment, Classes
  <2> QED
    BY <2>2, <2>3 DEF NestedVerdict, ProgramDenied, Classes
<1> QED
  BY <1>1, <1>2 DEF Judgeable

\* Only the families of commands that the engine knows are allowed.
LEMMA ClassifyIs ==
  ASSUME NEW s, NEW base, NEW own
  PROVE  /\ Classify(s, base, own) \in {"allow", "semantic", "manual"}
         /\ Classify(s, base, own) = "allow" =>
              IF s.head \in Removers
              THEN /\ \A t \in s.operands : Static(t)
                   /\ \A t \in s.operands : Resolve(t, base) \in own
              ELSE Allowable(s, base)
<1>1. CASE s.head \in Removers
  BY <1>1 DEF Classify, Removal, Deletion
<1>2. CASE s.head \notin Removers
  BY <1>2 DEF Classify
<1> QED
  BY <1>1, <1>2

LEMMA AssessIs ==
  ASSUME NEW s, Judgeable(s), NEW base, NEW own
  PROVE  /\ AssessSegment(s, base, own) \in VerdictSet
         /\ AssessSegment(s, base, own) = "allow" =>
              /\ s.head \notin {"", Unreadable, "sh"}
              /\ \A t \in FileWrites(s) : Static(t)
              /\ Classify(s, base, own) = "allow"
              /\ WritesRoutine(FileWrites(s), base)
<1>1. CASE s.head = ""
  BY <1>1 DEF AssessSegment, VerdictSet, Unreadable
<1>2. CASE s.head # "" /\ (s.head = Unreadable \/ \E t \in FileWrites(s) : ~Static(t))
  <2>1. AssessSegment(s, base, own) = "manual"
    BY <1>2 DEF AssessSegment, Unreadable
  <2> QED
    BY <2>1 DEF VerdictSet
<1>3. CASE s.head = "sh" /\ \A t \in FileWrites(s) : Static(t)
  <2>1. AssessSegment(s, base, own) = NestedVerdict(s)
    BY <1>3 DEF AssessSegment, Unreadable
  <2> QED
    BY <2>1, NestedVerdictIs DEF VerdictSet
<1>4. CASE s.head \notin {"", Unreadable, "sh"} /\ \A t \in FileWrites(s) : Static(t)
  <2>1. AssessSegment(s, base, own) =
          IF Classify(s, base, own) = "allow" /\ ~WritesRoutine(FileWrites(s), base)
          THEN "semantic" ELSE Classify(s, base, own)
    BY <1>4 DEF AssessSegment, Unreadable
  <2> QED
    BY <1>4, <2>1, ClassifyIs DEF VerdictSet
<1> QED
  BY <1>1, <1>2, <1>3, <1>4
-----------------------------------------------------------------------------
(* One segment judged *)

LEMMA ResolvesIn ==
  ASSUME NEW t, t.dir \in Dirs \cup {"here"}, NEW base \in Dirs
  PROVE  Resolve(t, base).dir \in Dirs
BY DEF Resolve

\* A changer leads to one directory, or to none that can be read.
LEMMA MovesIs ==
  ASSUME NEW s, Judgeable(s), NEW base \in Dirs
  PROVE  /\ EffectiveCwdAfter(s, base) \subseteq Dirs
         /\ s.head # "cd" => EffectiveCwdAfter(s, base) = {}
         /\ \A d, e \in EffectiveCwdAfter(s, base) : d = e
<1>1. ASSUME s.head # "cd" PROVE EffectiveCwdAfter(s, base) = {}
  BY <1>1 DEF EffectiveCwdAfter
<1>2. CASE TypedSegment(s) /\ s.head = "cd"
  <2>1. \A t \in s.operands : Resolve(t, base).dir \in Dirs
    BY <1>2, ResolvesIn DEF TypedSegment
  <2>2. \A t, u \in s.operands : t = u
    BY <1>2 DEF TypedSegment
  <2> QED
    BY <1>2, <2>1, <2>2 DEF EffectiveCwdAfter
<1>3. TypedSegment(s) \/ s.head # "cd"
  BY InterpreterIs DEF Judgeable
<1> QED
  BY <1>1, <1>2, <1>3

LEMMA BaseIs ==
  ASSUME NEW l \in LineSet PROVE SegmentBase(l) \in Dirs /\ SegmentBase(l) \in {l.base, l.start}
BY DEF SegmentBase, LineSet

OwnVerdict(s, base) ==
  IF HarmlessChanger(s, base) THEN "allow" ELSE AssessSegment(s, base, Own)

LEMMA OwnVerdictIs ==
  ASSUME NEW s, Judgeable(s), NEW base
  PROVE  OwnVerdict(s, base) \in VerdictSet
BY AssessIs DEF OwnVerdict, VerdictSet

\* The fields of j, the line l once its next segment s was judged from base.
JudgedFrom(j, l, s, base) ==
  /\ j.by = "" /\ j.count = l.count + 1 /\ j.before = l.before /\ j.start = l.start
  /\ j.opaque = l.opaque
  /\ j.base = IF EffectiveCwdAfter(s, base) = {} THEN base
              ELSE CHOOSE d \in EffectiveCwdAfter(s, base) : TRUE
  /\ j.worst = Stronger(l.worst, Stronger(ChangerVerdict(l, l.by), OwnVerdict(s, base)))
  /\ j.changer = IF EffectiveCwdAfter(s, base) # {} /\ HarmlessChanger(s, base) THEN "allow" ELSE "none"
  /\ j.nested = IF s.head = "sh" /\ l.nested \in {"allow", "semantic"} THEN NestedVerdict(s) ELSE l.nested
  /\ s.head = "cd" => j.moved = "changer"
  /\ s.head # "cd" => j.moved = IF l.moved # "no" /\ l.by = "&&" THEN "carried" ELSE l.moved

LEMMA JudgedIs ==
  ASSUME NEW l \in LineSet, NEW s
  PROVE  JudgedFrom(Judged(l, s), l, s, SegmentBase(l))
BY DEF Judged, LineSet, OwnVerdict, JudgedFrom

DeniedFrom(j, l, s, base) ==
  /\ j.strict <=> l.strict \/ SegmentHardDeny(s, base, FALSE) \/ (ProgramDenied(s) /\ ~l.opaque)
  /\ j.opened <=> l.opened \/ SegmentHardDeny(s, base, ZoneOpeningTrusted(s)) \/ (ProgramDenied(s) /\ ~l.opaque)

LEMMA JudgedDenies ==
  ASSUME NEW l \in LineSet, NEW s
  PROVE  DeniedFrom(Judged(l, s), l, s, SegmentBase(l))
BY DEF Judged, LineSet, DeniedFrom

LEMMA JudgedType ==
  ASSUME NEW l \in LineSet, NEW s, Judgeable(s)
  PROVE  Judged(l, s) \in LineSet
<1>. DEFINE judged == Judged(l, s)
            at == SegmentBase(l)
<1>1. at \in Dirs
  BY BaseIs
<1>2. JudgedFrom(judged, l, s, at)
  BY JudgedIs
<1>3. judged.opened \in BOOLEAN /\ judged.strict \in BOOLEAN
  BY DEF Judged, LineSet
<1>4. judged.removes \in BOOLEAN /\ judged.namesHome \in BOOLEAN
  BY DEF Judged, LineSet
<1>5. judged.exposes \in BOOLEAN /\ judged.opaque \in BOOLEAN
  BY DEF Judged, LineSet
<1>6. judged.by = "" /\ judged.count \in Nat /\ judged.before \in Nat /\ judged.start \in Dirs
  <2>1. l.count \in Nat /\ l.before \in Nat /\ l.start \in Dirs
    BY DEF LineSet
  <2>2. judged.by = "" /\ judged.count = l.count + 1 /\ judged.before = l.before /\ judged.start = l.start
    BY DEF Judged
  <2>. HIDE DEF judged
  <2>3. l.count + 1 \in Nat
    BY <2>1
  <2> QED
    BY <2>1, <2>2, <2>3, Zenon
<1>. HIDE DEF judged, at
<1>7. judged.base \in Dirs
  <2>1. EffectiveCwdAfter(s, at) \subseteq Dirs
    BY <1>1, MovesIs
  <2>2. CASE EffectiveCwdAfter(s, at) = {}
    BY <1>1, <1>2, <2>2 DEF JudgedFrom
  <2>3. CASE EffectiveCwdAfter(s, at) # {}
    <3>1. judged.base = CHOOSE d \in EffectiveCwdAfter(s, at) : TRUE
      BY <1>2, <2>3 DEF JudgedFrom
    <3>2. judged.base \in EffectiveCwdAfter(s, at)
      BY <2>3, <3>1, Zenon
    <3> QED
      BY <2>1, <3>2
  <2> QED
    BY <2>2, <2>3
<1>8. judged.worst \in VerdictSet
  <2>1. ChangerVerdict(l, l.by) \in VerdictSet /\ OwnVerdict(s, at) \in VerdictSet /\ l.worst \in VerdictSet
    BY ChangerVerdictIs, OwnVerdictIs DEF VerdictSet, LineSet
  <2>2. Stronger(ChangerVerdict(l, l.by), OwnVerdict(s, at)) \in VerdictSet
    BY <2>1, StrongerOf
  <2>3. Stronger(l.worst, Stronger(ChangerVerdict(l, l.by), OwnVerdict(s, at))) \in VerdictSet
    BY <2>1, <2>2, StrongerOf
  <2> QED
    BY <1>2, <2>3 DEF JudgedFrom
<1>9. judged.changer \in {"none", "allow"} /\ judged.nested \in VerdictSet
  <2>1. l.nested \in VerdictSet /\ NestedVerdict(s) \in VerdictSet
    BY NestedVerdictIs DEF VerdictSet, LineSet
  <2> QED
    BY <1>2, <2>1 DEF JudgedFrom
<1>10. judged.moved \in {"no", "changer", "carried"}
  BY <1>2 DEF LineSet, JudgedFrom
<1>11. /\ judged.opened \in BOOLEAN /\ judged.strict \in BOOLEAN /\ judged.removes \in BOOLEAN
       /\ judged.namesHome \in BOOLEAN /\ judged.exposes \in BOOLEAN /\ judged.opaque \in BOOLEAN
  BY <1>3, <1>4, <1>5
<1>. USE DEF judged
<1> QED
  BY <1>6, <1>7, <1>8, <1>9, <1>10, <1>11, ZenonT(30) DEF LineSet, Judged
-----------------------------------------------------------------------------
(* The shell at a segment and after it *)

\* Where the shell goes on once the segment before has ended.
Standing(at) == IF at.runs /\ at.ok /\ ~at.piped THEN at.next ELSE at.cwd

GoesOn(a, at, on) ==
  a.cwd = Standing(at) /\ a.next = Standing(at) /\ a.runs = on /\ a.ok = at.ok /\ a.piped = FALSE

StartsAt(a, dir) ==
  a.cwd = dir /\ a.next = dir /\ a.runs = TRUE /\ a.ok = TRUE /\ a.piped = FALSE

AfterFrom(a, at, op) ==
  /\ op = "" => a = at
  /\ op = "|" => a.cwd = at.cwd /\ a.next = at.cwd /\ a.runs = at.runs /\ a.ok = at.ok /\ a.piped = TRUE
  /\ op = "&&" => GoesOn(a, at, at.ok)
  /\ op = "||" => GoesOn(a, at, ~at.ok)
  /\ op = ";" => StartsAt(a, Standing(at)) /\ a.list = Standing(at)
  /\ op = "&" => StartsAt(a, at.list)
  /\ op # ";" => a.list = at.list

LEMMA AfterIs ==
  ASSUME NEW at \in ShellSet, NEW op \in {""} \cup Separators
  PROVE  After(at, op) \in ShellSet /\ AfterFrom(After(at, op), at, op)
<1>1. Standing(at) \in Dirs
  BY DEF Standing, ShellSet
<1>2. CASE op = ""
  BY <1>2 DEF After, AfterFrom
<1>3. CASE op = "|"
  BY <1>3 DEF After, AfterFrom, ShellSet
<1>4. CASE op = "&&"
  BY <1>1, <1>4 DEF After, AfterFrom, ShellSet, GoesOn, Standing
<1>5. CASE op = "||"
  BY <1>1, <1>5 DEF After, AfterFrom, ShellSet, GoesOn, Standing
<1>6. CASE op = ";"
  BY <1>1, <1>6 DEF After, AfterFrom, ShellSet, StartsAt, Standing, Shell
<1>7. CASE op = "&"
  BY <1>7 DEF After, AfterFrom, ShellSet, StartsAt, Shell
<1> QED
  BY <1>2, <1>3, <1>4, <1>5, <1>6, <1>7 DEF Separators

-----------------------------------------------------------------------------
(* The base follows the shell *)

\* Nothing that was carried is judged from the start of the line.
Steady(l) == l.by \notin {"", "&&"} \/ l.opaque => l.moved = "no"

\* After a segment: the next one that && leads to starts at the base.
Stands(l, at) ==
  /\ at.list = l.start
  /\ l.count = 0 => l.moved = "no" /\ at.runs /\ ~at.piped
  /\ l.moved = "no" => l.base = l.start /\ at.cwd = l.start /\ at.next = l.start
  /\ l.moved # "no" /\ ~l.opaque => (at.ok => at.runs /\ at.next = l.base) /\ ~at.piped

\* At a segment: what is run is run where it is judged.
Arrives(l, at) ==
  /\ at.list = l.start
  /\ l.by # "|" => (at.ok => at.runs) /\ ~at.piped
  /\ l.moved = "no" => l.base = l.start /\ at.cwd = l.start /\ at.next = l.start
  /\ l.moved # "no" => l.by = "&&" /\ ~l.opaque /\ (at.runs => at.cwd = l.base)

Excused == {"away", "inherits"}

LEMMA WithoutDoubt ==
  ASSUME NEW l \in LineSet, NEW s, Doubts(l, s) \subseteq Excused
  PROVE  /\ Steady(l)
         /\ s.wrap # "shift"
         /\ s.head = "cd" => l.by # "|" /\ s.wrap = "none" /\ \E t \in s.operands : Static(t)
<1>1. "stray" \notin Doubts(l, s) /\ "unproven" \notin Doubts(l, s)
  BY DEF Excused
<1>2. "piped" \notin Doubts(l, s) /\ "shifted" \notin Doubts(l, s)
  BY DEF Excused
<1>3. l.by \notin {"", "&&"} => l.moved # "carried"
  BY <1>1 DEF Doubts
<1>4. l.by \notin {"", "&&"} => l.moved # "changer"
  BY <1>1 DEF Doubts
<1>5. l.opaque => l.moved = "no"
  BY <1>1 DEF Doubts
<1>6. s.head = "cd" => \E t \in s.operands : Static(t)
  BY <1>1 DEF Doubts
<1>7. s.head = "cd" => l.by # "|"
  BY <1>2 DEF Doubts
<1>8. s.wrap # "shift" /\ (s.head = "cd" => s.wrap = "none")
  BY <1>2 DEF Doubts
<1>9. l.moved \in {"no", "changer", "carried"}
  BY DEF LineSet
<1> QED
  BY <1>3, <1>4, <1>5, <1>6, <1>7, <1>8, <1>9 DEF Steady

\* A line r whose next segment is the one op leads to.
LEMMA ReachedIs ==
  ASSUME line \in LineSet, NEW op \in Operators, NEW newline \in BOOLEAN
  PROVE  /\ Reached(op, newline) \in LineSet
         /\ Reached(op, newline).by = Precedes(op, newline)
         /\ Reached(op, newline).count = line.count /\ Reached(op, newline).before = line.before
         /\ Reached(op, newline).start = line.start /\ Reached(op, newline).base = line.base
         /\ Reached(op, newline).moved = line.moved /\ Reached(op, newline).changer = line.changer
         /\ Reached(op, newline).worst = line.worst /\ Reached(op, newline).nested = line.nested
<1>1. op \in {"", "&&", "||", "|", ";", "&"}
  BY DEF Operators, Separators
<1>2. Precedes(op, newline) \in {"", "&&", "|", ";", "&"}
  BY <1>1 DEF Precedes
<1> QED
  BY <1>2 DEF Reached, LineSet

LEMMA ReachedFlags ==
  ASSUME line \in LineSet, NEW op, NEW newline
  PROVE  /\ Reached(op, newline).opaque = line.opaque
         /\ Reached(op, newline).opened = line.opened
         /\ Reached(op, newline).strict = line.strict
BY Zenon DEF Reached, LineSet

LEMMA Reaches ==
  ASSUME line \in LineSet, sh \in ShellSet, Stands(line, sh),
         NEW op \in Operators, NEW newline \in BOOLEAN,
         newline => op \in {"&&", "||", "|"}, ~(newline /\ op # "&&"),
         Steady(Reached(op, newline))
  PROVE  Arrives(Reached(op, newline), After(sh, op))
<1>. DEFINE r == Reached(op, newline)
            a == After(sh, op)
<1>1. r \in LineSet /\ r.by = Precedes(op, newline) /\ r.start = line.start /\ r.base = line.base
      /\ r.moved = line.moved /\ r.count = line.count
  BY ReachedIs
<1>2. r.opaque <=> line.opaque
  BY ReachedFlags, Zenon
<1>3. op \in {""} \cup Separators
  BY DEF Operators, Separators
<1>4. a \in ShellSet /\ AfterFrom(a, sh, op)
  BY <1>3, AfterIs
<1>5. op = "" <=> line.count = 0
  BY DEF Operators, Separators
<1>6. Steady(r)
  OBVIOUS
<1>. SUFFICES Arrives(r, a)
  OBVIOUS
<1>. HIDE DEF r, a
<1>7. CASE op = ""
  <2>1. a = sh /\ line.moved = "no" /\ r.by = "" /\ sh.runs /\ ~sh.piped
    BY <1>1, <1>4, <1>5, <1>7 DEF Stands, AfterFrom, Precedes
  <2>2. r.moved = "no" /\ a.list = r.start /\ r.base = r.start /\ a.cwd = r.start /\ a.next = r.start
    BY <1>1, <2>1 DEF Stands
  <2>3. a.runs /\ ~a.piped
    BY <2>1
  <2> QED
    BY <2>2, <2>3, Zenon DEF Arrives
<1>8. CASE op = "&&" /\ line.moved = "no"
  <2>1. sh.cwd = line.start /\ sh.next = line.start /\ sh.list = line.start /\ line.base = line.start
    BY <1>8 DEF Stands
  <2>2. a.cwd = Standing(sh) /\ a.next = Standing(sh) /\ a.list = sh.list
    BY <1>4, <1>8 DEF AfterFrom, GoesOn
  <2>3. Standing(sh) = line.start
    BY <2>1 DEF Standing
  <2>4. a.runs = sh.ok /\ a.ok = sh.ok /\ a.piped = FALSE
    BY <1>4, <1>8, Zenon DEF AfterFrom, GoesOn
  <2>5. (a.ok => a.runs) /\ ~a.piped
    BY <2>4, Zenon
  <2>6. r.moved = "no" /\ a.list = r.start /\ r.base = r.start /\ a.cwd = r.start /\ a.next = r.start
    BY <1>1, <1>8, <2>1, <2>2, <2>3
  <2> QED
    BY <2>5, <2>6, Zenon DEF Arrives
<1>9. CASE op = "&&" /\ line.moved # "no"
  <2>1. r.by = "&&" /\ ~r.opaque
    BY <1>1, <1>6, <1>9 DEF Steady, Precedes
  <2>2. ~line.opaque
    BY <1>2, <2>1
  <2>3. line.base = r.base /\ r.moved # "no" /\ sh.list = r.start
    BY <1>1, <1>9 DEF Stands
  <2>4. (sh.ok => sh.runs /\ sh.next = line.base) /\ ~sh.piped
    BY <1>9, <2>2, Zenon DEF Stands
  <2>5. a.runs = sh.ok /\ a.ok = sh.ok /\ a.piped = FALSE
    BY <1>4, <1>9, Zenon DEF AfterFrom, GoesOn
  <2>6. (a.ok => a.runs) /\ ~a.piped
    BY <2>5, Zenon
  <2>7. a.cwd = Standing(sh) /\ a.list = r.start
    BY <1>4, <1>9, <2>3 DEF AfterFrom, GoesOn
  <2>8. a.runs => a.cwd = r.base
    BY <2>3, <2>4, <2>5, <2>7 DEF Standing
  <2> QED
    BY <2>1, <2>3, <2>6, <2>7, <2>8, Zenon DEF Arrives
<1>10. CASE op \in {"|", "||", "&", ";"}
  <2>1. r.moved = "no" /\ r.by = IF op = "||" THEN "|" ELSE op
    BY <1>1, <1>6, <1>10 DEF Steady, Precedes
  <2>2. sh.cwd = line.start /\ sh.next = line.start /\ sh.list = line.start /\ line.base = line.start
    BY <1>1, <2>1 DEF Stands
  <2>3. Standing(sh) = line.start
    BY <2>2 DEF Standing
  <2>4. a.cwd = line.start /\ a.next = line.start /\ a.list = line.start
    BY <1>4, <1>10, <2>2, <2>3 DEF AfterFrom, GoesOn, StartsAt
  <2>5. ASSUME r.by # "|" PROVE a.runs = TRUE /\ a.piped = FALSE
    BY <1>4, <1>10, <2>1, <2>5 DEF AfterFrom, StartsAt
  <2> QED
    BY <1>1, <2>1, <2>2, <2>4, <2>5, Zenon DEF Arrives
<1> QED
  BY <1>3, <1>7, <1>8, <1>9, <1>10 DEF Separators

LEMMA Here ==
  ASSUME NEW l \in LineSet, NEW at, Arrives(l, at), at.runs
  PROVE  at.cwd = SegmentBase(l)
BY DEF Arrives, SegmentBase

RanFrom(a, at, ok, dir) ==
  /\ a.cwd = at.cwd /\ a.list = at.list /\ a.runs = at.runs /\ a.piped = at.piped
  /\ at.runs => a.next = dir /\ a.ok = ok
  /\ ~at.runs => a.next = at.next /\ a.ok = at.ok

LEMMA RanIs ==
  ASSUME NEW at \in ShellSet, NEW ok \in BOOLEAN, NEW dir \in Dirs
  PROVE  Ran(at, ok, dir) \in ShellSet /\ RanFrom(Ran(at, ok, dir), at, ok, dir)
<1>1. CASE at.runs
  BY <1>1 DEF Ran, RanFrom, ShellSet
<1>2. CASE ~at.runs
  BY <1>2 DEF Ran, RanFrom, ShellSet
<1> QED
  BY <1>1, <1>2

LEMMA MovesToIs ==
  ASSUME NEW s, Judgeable(s), NEW from \in Dirs
  PROVE  /\ MovesTo(s, from) \subseteq Dirs
         /\ s.head # "cd" => MovesTo(s, from) = {}
<1>1. CASE s.head # "cd" \/ s.wrap # "none"
  BY <1>1 DEF MovesTo
<1>2. CASE s.head = "cd" /\ s.wrap = "none"
  <2>1. TypedSegment(s)
    BY <1>2, InterpreterIs DEF Judgeable
  <2>2. \A t \in s.operands : Resolve(t, from).dir \in Dirs
    BY <2>1, ResolvesIn DEF TypedSegment
  <2>3. "home" \in Dirs /\ Places \subseteq Dirs
    BY SegmentsAssumption DEF Dirs
  <2> QED
    BY <1>2, <2>2, <2>3 DEF MovesTo
<1> QED
  BY <1>1, <1>2

\* A changer that can be read takes the shell where the base goes.
LEMMA MovesTogether ==
  ASSUME NEW s, TypedSegment(s), s.head = "cd", s.wrap = "none",
         \E t \in s.operands : Static(t), NEW from \in Dirs
  PROVE  /\ MovesTo(s, from) = EffectiveCwdAfter(s, from)
         /\ MovesTo(s, from) # {}
<1>1. PICK t \in s.operands : Static(t)
  OBVIOUS
<1>2. \A u \in s.operands : u = t
  BY <1>1 DEF TypedSegment
<1>3. \A u \in s.operands : Static(u)
  BY <1>1, <1>2
<1>4. MovesTo(s, from) = {Resolve(u, from).dir : u \in {v \in s.operands : Static(v)}}
  BY <1>1, <1>3 DEF MovesTo
<1>5. EffectiveCwdAfter(s, from) = {Resolve(u, from).dir : u \in {v \in s.operands : Static(v)}}
  BY DEF EffectiveCwdAfter
<1> QED
  BY <1>1, <1>4, <1>5

LEMMA Lands ==
  ASSUME NEW l \in LineSet, NEW at \in ShellSet, Arrives(l, at),
         NEW s, Judgeable(s), Doubts(l, s) \subseteq Excused, NEW ok \in BOOLEAN,
         NEW dir \in IF MovesTo(s, at.cwd) = {} THEN {at.cwd} ELSE MovesTo(s, at.cwd),
         NEW j \in LineSet, JudgedFrom(j, l, s, SegmentBase(l)),
         NEW a \in ShellSet, RanFrom(a, at, ok, dir)
  PROVE  Stands(j, a)
<1>1. at.cwd \in Dirs /\ l.count \in Nat
  BY DEF ShellSet, LineSet
<1>2. j.count # 0 /\ j.start = l.start /\ a.list = j.start
  <2>1. l.count + 1 # 0
    BY <1>1
  <2> QED
    BY <2>1 DEF JudgedFrom, RanFrom, Arrives
<1>3. j.moved = "no" => j.base = j.start /\ a.cwd = j.start /\ a.next = j.start
  <2>1. SUFFICES ASSUME j.moved = "no" PROVE j.base = j.start /\ a.cwd = j.start /\ a.next = j.start
    OBVIOUS
  <2>2. s.head # "cd" /\ l.moved = "no"
    BY <2>1 DEF JudgedFrom
  <2>3. l.base = l.start /\ at.cwd = l.start /\ at.next = l.start
    BY <2>2 DEF Arrives
  <2>4. SegmentBase(l) = l.start
    BY <2>3, BaseIs
  <2>5. EffectiveCwdAfter(s, SegmentBase(l)) = {} /\ MovesTo(s, at.cwd) = {}
    BY <1>1, <2>2, BaseIs, MovesIs, MovesToIs
  <2>6. j.base = SegmentBase(l) /\ dir = at.cwd
    BY <2>5 DEF JudgedFrom
  <2> QED
    BY <1>2, <2>3, <2>4, <2>6 DEF RanFrom
<1>4. ASSUME j.moved # "no", ~j.opaque PROVE (a.ok => a.runs /\ a.next = j.base) /\ ~a.piped
  <2>1. CASE s.head = "cd"
    <3>1. l.by # "|" /\ s.wrap = "none" /\ \E t \in s.operands : Static(t)
      BY <2>1, WithoutDoubt
    <3>2. (at.ok => at.runs) /\ ~at.piped
      BY <3>1 DEF Arrives
    <3>3. TypedSegment(s)
      BY <2>1, InterpreterIs DEF Judgeable
    <3>4. ASSUME at.runs PROVE a.next = j.base
      <4>1. at.cwd = SegmentBase(l)
        BY <3>4, Here
      <4>2. MovesTo(s, at.cwd) # {} /\ MovesTo(s, at.cwd) = EffectiveCwdAfter(s, at.cwd)
        BY <1>1, <2>1, <3>1, <3>3, MovesTogether
      <4>3. dir \in EffectiveCwdAfter(s, at.cwd)
        BY <4>2
      <4>4. j.base = CHOOSE d \in EffectiveCwdAfter(s, at.cwd) : TRUE
        BY <4>1, <4>2 DEF JudgedFrom
      <4>5. j.base \in EffectiveCwdAfter(s, at.cwd)
        BY <4>3, <4>4, Zenon
      <4>6. j.base = dir
        BY <1>1, <4>3, <4>5, MovesIs
      <4> QED
        BY <3>4, <4>6 DEF RanFrom
    <3>5. a.runs = at.runs /\ a.piped = at.piped /\ (~at.runs => a.ok = at.ok)
      BY Zenon DEF RanFrom
    <3> QED
      BY <3>2, <3>4, <3>5, Zenon
  <2>2. CASE s.head # "cd"
    <3>1. l.moved # "no"
      BY <1>4, <2>2 DEF JudgedFrom
    <3>2. l.by = "&&" /\ ~l.opaque /\ (at.runs => at.cwd = l.base)
      BY <3>1, Zenon DEF Arrives
    <3>3. (at.ok => at.runs) /\ ~at.piped
      BY <3>2 DEF Arrives
    <3>4. EffectiveCwdAfter(s, SegmentBase(l)) = {} /\ MovesTo(s, at.cwd) = {}
      BY <1>1, <2>2, BaseIs, MovesIs, MovesToIs
    <3>5. j.base = l.base
      BY <3>2, <3>4 DEF JudgedFrom, SegmentBase
    <3>6. dir = at.cwd
      BY <3>4
    <3>7. a.runs = at.runs /\ a.piped = at.piped /\ (~at.runs => a.ok = at.ok) /\ (at.runs => a.next = dir)
      BY Zenon DEF RanFrom
    <3>8. at.runs => a.next = j.base
      BY <3>2, <3>5, <3>6, <3>7
    <3> QED
      BY <3>3, <3>7, <3>8, Zenon
  <2> QED
    BY <2>1, <2>2
<1> QED
  BY <1>2, <1>3, <1>4, Zenon DEF Stands

-----------------------------------------------------------------------------
(* Types *)

DoubtSet == {"stray", "unproven", "away", "piped", "shifted", "inherits", "hidden"}

Frames == [line : LineSet, sh : ShellSet]

Typed == TypeOK /\ doubt \subseteq DoubtSet

\* The record that CloseProgram makes of j, with what program k was seen to do.
Closed(j, k) == [j EXCEPT !.removes = @ \/ k.removes, !.namesHome = @ \/ k.namesHome]

LEMMA ClosedIs ==
  ASSUME NEW j \in LineSet, NEW k \in LineSet
  PROVE  /\ Closed(j, k) \in LineSet
         /\ Closed(j, k).opaque = j.opaque /\ Closed(j, k).opened = j.opened /\ Closed(j, k).strict = j.strict
         /\ \A l, s, from : JudgedFrom(j, l, s, from) => JudgedFrom(Closed(j, k), l, s, from)
         /\ \A l, s, from : DeniedFrom(j, l, s, from) => DeniedFrom(Closed(j, k), l, s, from)
<1>. DEFINE c == Closed(j, k)
<1>1. c \in LineSet
  BY ZenonT(30) DEF Closed, LineSet
<1>2. c.opaque = j.opaque /\ c.opened = j.opened /\ c.strict = j.strict
  BY Zenon DEF Closed, LineSet
<1>3. /\ c.by = j.by /\ c.count = j.count /\ c.before = j.before /\ c.start = j.start /\ c.base = j.base
      /\ c.worst = j.worst /\ c.changer = j.changer /\ c.moved = j.moved /\ c.nested = j.nested
  BY DEF Closed, LineSet
<1>. HIDE DEF c
<1>4. \A l, s, from : JudgedFrom(j, l, s, from) => JudgedFrom(c, l, s, from)
  <2>1. SUFFICES ASSUME NEW l, NEW s, NEW from, JudgedFrom(j, l, s, from) PROVE JudgedFrom(c, l, s, from)
    OBVIOUS
  <2>2. c.by = "" /\ c.count = l.count + 1 /\ c.before = l.before /\ c.start = l.start
    BY <1>3, <2>1, Zenon DEF JudgedFrom
  <2>3. c.opaque = l.opaque
    BY <1>2, <2>1, Zenon DEF JudgedFrom
  <2>4. c.base = IF EffectiveCwdAfter(s, from) = {} THEN from
                 ELSE CHOOSE d \in EffectiveCwdAfter(s, from) : TRUE
    BY <1>3, <2>1, Zenon DEF JudgedFrom
  <2>5. c.worst = Stronger(l.worst, Stronger(ChangerVerdict(l, l.by), OwnVerdict(s, from)))
    BY <1>3, <2>1, Zenon DEF JudgedFrom
  <2>6. c.changer = IF EffectiveCwdAfter(s, from) # {} /\ HarmlessChanger(s, from) THEN "allow" ELSE "none"
    BY <1>3, <2>1, Zenon DEF JudgedFrom
  <2>7. c.nested = IF s.head = "sh" /\ l.nested \in {"allow", "semantic"} THEN NestedVerdict(s) ELSE l.nested
    BY <1>3, <2>1, Zenon DEF JudgedFrom
  <2>8. /\ s.head = "cd" => c.moved = "changer"
        /\ s.head # "cd" => c.moved = IF l.moved # "no" /\ l.by = "&&" THEN "carried" ELSE l.moved
    BY <1>3, <2>1, Zenon DEF JudgedFrom
  <2> QED
    BY <2>2, <2>3, <2>4, <2>5, <2>6, <2>7, <2>8, Zenon DEF JudgedFrom
<1>5. \A l, s, from : DeniedFrom(j, l, s, from) => DeniedFrom(c, l, s, from)
  BY <1>2, Zenon DEF DeniedFrom
<1> QED
  BY <1>1, <1>2, <1>4, <1>5 DEF c

LEMMA DoubtsAre ==
  ASSUME NEW l, NEW s PROVE Doubts(l, s) \subseteq DoubtSet
BY DEF Doubts, DoubtSet

LEMMA OuterIs ==
  ASSUME TypeOK, outer # <<>>
  PROVE  /\ Head(outer) = outer[1] /\ Head(outer).line \in LineSet /\ Head(outer).sh \in ShellSet
         /\ Tail(outer) \in Seq(Frames) /\ Len(Tail(outer)) = Len(outer) - 1
         /\ Len(outer) \in Nat /\ 1 \in 1..Len(outer)
         /\ \A i \in 1..Len(Tail(outer)) : i + 1 \in 1..Len(outer) /\ Tail(outer)[i] = outer[i + 1]
<1>1. outer \in Seq(Frames)
  BY DEF TypeOK, Frames
<1>2. Len(outer) \in Nat /\ 1 \in 1..Len(outer)
  BY <1>1
<1>3. Head(outer) = outer[1] /\ outer[1] \in Frames
  BY <1>1, <1>2
<1>4. Tail(outer) \in Seq(Frames) /\ Len(Tail(outer)) = Len(outer) - 1
  BY <1>1
<1>5. \A i \in 1..Len(Tail(outer)) : i + 1 \in 1..Len(outer) /\ Tail(outer)[i] = outer[i + 1]
  BY <1>1, <1>2, <1>4
<1> QED
  BY <1>2, <1>3, <1>4, <1>5 DEF Frames

LEMMA EnterIs ==
  ASSUME TypeOK, NEW x \in Frames
  PROVE  /\ <<x>> \o outer \in Seq(Frames) /\ (<<x>> \o outer)[1] = x
         /\ Len(<<x>> \o outer) = Len(outer) + 1 /\ Len(outer) \in Nat
         /\ \A i \in 1..Len(outer) : (<<x>> \o outer)[i + 1] = outer[i]
BY DEF TypeOK, Frames

\* What a segment does to the line and to its shell.
Walks(s, op, newline, ok, dir) ==
  /\ Reached(op, newline) \in LineSet /\ After(sh, op) \in ShellSet
  /\ line' \in LineSet /\ sh' \in ShellSet
  /\ JudgedFrom(line', Reached(op, newline), s, SegmentBase(Reached(op, newline)))
  /\ DeniedFrom(line', Reached(op, newline), s, SegmentBase(Reached(op, newline)))
  /\ RanFrom(sh', After(sh, op), ok, dir)
  /\ dir \in IF MovesTo(s, After(sh, op).cwd) = {} THEN {After(sh, op).cwd} ELSE MovesTo(s, After(sh, op).cwd)

LEMMA SegmentWalks ==
  ASSUME TypeOK, NEW s \in Segments, NEW op \in Operators, NEW newline \in BOOLEAN,
         Segment(s, op, newline)
  PROVE  \E ok \in BOOLEAN, dir \in Dirs : Walks(s, op, newline, ok, dir)
<1>. DEFINE r == Reached(op, newline)
            at == After(sh, op)
            to == MovesTo(s, at.cwd)
<1>1. r \in LineSet
  BY ReachedIs DEF TypeOK
<1>2. at \in ShellSet
  BY AfterIs DEF TypeOK, Operators
<1>3. Judgeable(s)
  BY SegmentsAreTyped DEF Judgeable
<1>4. line' = Judged(r, s)
  BY DEF Segment
<1>5. line' \in LineSet
  BY <1>1, <1>3, <1>4, JudgedType
<1>6. JudgedFrom(line', r, s, SegmentBase(r)) /\ DeniedFrom(line', r, s, SegmentBase(r))
  BY <1>1, <1>4, JudgedIs, JudgedDenies
<1>7. \E ok \in BOOLEAN, dir \in IF to = {} THEN {at.cwd} ELSE to : sh' = Ran(at, ok, dir)
  BY DEF Segment
<1>. HIDE DEF r, at, to
<1>8. PICK ok \in BOOLEAN, dir \in IF to = {} THEN {at.cwd} ELSE to : sh' = Ran(at, ok, dir)
  BY <1>7, Zenon
<1>9. dir \in Dirs
  BY <1>2, <1>3, MovesToIs DEF ShellSet, to
<1>10. sh' \in ShellSet /\ RanFrom(sh', at, ok, dir)
  BY <1>2, <1>8, <1>9, RanIs
<1>11. dir \in IF to = {} THEN {at.cwd} ELSE to
  BY <1>8
<1>12. Walks(s, op, newline, ok, dir)
  BY <1>1, <1>2, <1>5, <1>6, <1>10, <1>11, Zenon DEF Walks, r, at, to
<1> QED
  BY <1>9, <1>12

\* A program opened and a program closed.
LEMMA ProgramOpens ==
  ASSUME TypeOK, NEW op \in Operators, NEW shifted \in BOOLEAN, OpenProgram(op, shifted)
  PROVE  LET r  == Reached(op, FALSE)
             at == After(sh, op) IN
         /\ r \in LineSet /\ at \in ShellSet /\ [line |-> r, sh |-> at] \in Frames
         /\ line' = NewLine(SegmentBase(r), line.before + line.count + 1) /\ line' \in LineSet
         /\ \E dir \in Dirs : sh' = Shell(dir) /\ sh' \in ShellSet /\ (~shifted => dir = at.cwd)
<1>. DEFINE r == Reached(op, FALSE)
            at == After(sh, op)
<1>1. r \in LineSet
  BY ReachedIs DEF TypeOK
<1>2. at \in ShellSet
  BY AfterIs DEF TypeOK, Operators
<1>3. line' = NewLine(SegmentBase(r), line.before + line.count + 1)
  BY DEF OpenProgram
<1>4. line.before + line.count + 1 \in Nat
  <2>1. line.before \in Nat /\ line.count \in Nat
    BY DEF TypeOK, LineSet
  <2> QED
    BY <2>1
<1>5. \A n \in Nat, d \in Dirs : NewLine(d, n) \in LineSet
  BY DEF NewLine, LineSet, VerdictSet
<1>6. SegmentBase(r) \in Dirs
  BY <1>1, BaseIs
<1>7. line' \in LineSet
  BY <1>3, <1>4, <1>5, <1>6
<1>8. \E dir \in IF shifted THEN Places ELSE {at.cwd} : sh' = Shell(dir)
  BY DEF OpenProgram
<1>. HIDE DEF r, at
<1>9. PICK dir \in IF shifted THEN Places ELSE {at.cwd} : sh' = Shell(dir)
  BY <1>8, Zenon
<1>10. dir \in Dirs /\ (~shifted => dir = at.cwd)
  BY <1>2, <1>9, SegmentsAssumption DEF ShellSet
<1>11. \A d \in Dirs : Shell(d) \in ShellSet
  BY DEF Shell, ShellSet
<1>12. \E d \in Dirs : sh' = Shell(d) /\ sh' \in ShellSet /\ (~shifted => d = at.cwd)
  BY <1>9, <1>10, <1>11
<1>13. [line |-> r, sh |-> at] \in Frames
  BY <1>1, <1>2 DEF Frames
<1> QED
  BY <1>1, <1>2, <1>3, <1>7, <1>12, <1>13 DEF r, at

Returns(s, ok) ==
  /\ line' \in LineSet /\ sh' \in ShellSet
  /\ JudgedFrom(line', Head(outer).line, s, SegmentBase(Head(outer).line))
  /\ DeniedFrom(line', Head(outer).line, s, SegmentBase(Head(outer).line))
  /\ RanFrom(sh', Head(outer).sh, ok, Head(outer).sh.cwd)

LEMMA ProgramCloses ==
  ASSUME TypeOK, CloseProgram
  PROVE  /\ ProgramClass(line) \in Classes
         /\ \E ok \in BOOLEAN : Returns(Interpreter(ProgramClass(line)), ok)
<1>. DEFINE l == Head(outer).line
            at == Head(outer).sh
            s == Interpreter(ProgramClass(line))
            j == Judged(l, s)
<1>1. outer # <<>>
  BY DEF CloseProgram
<1>2. l \in LineSet /\ at \in ShellSet
  BY <1>1, OuterIs
<1>3. ProgramClass(line) \in Classes
  BY DEF ProgramClass, Classes
<1>4. Judgeable(s)
  BY <1>3 DEF Judgeable
<1>5. line' = Closed(j, line) /\ line \in LineSet
  BY DEF CloseProgram, Closed, TypeOK
<1>6. j \in LineSet
  BY <1>2, <1>4, JudgedType
<1>7. JudgedFrom(j, l, s, SegmentBase(l)) /\ DeniedFrom(j, l, s, SegmentBase(l))
  BY <1>2, JudgedIs, JudgedDenies
<1>8. \E ok \in BOOLEAN : sh' = Ran(at, ok, at.cwd)
  BY DEF CloseProgram
<1>. HIDE DEF l, at, s, j
<1>9. line' \in LineSet
  BY <1>5, <1>6, ClosedIs
<1>10. JudgedFrom(line', l, s, SegmentBase(l)) /\ DeniedFrom(line', l, s, SegmentBase(l))
  BY <1>5, <1>6, <1>7, ClosedIs, Zenon
<1>11. PICK ok \in BOOLEAN : sh' = Ran(at, ok, at.cwd)
  BY <1>8, Zenon
<1>12. at.cwd \in Dirs
  BY <1>2 DEF ShellSet
<1>13. sh' \in ShellSet /\ RanFrom(sh', at, ok, at.cwd)
  BY <1>2, <1>11, <1>12, RanIs
<1>14. Returns(s, ok)
  BY <1>9, <1>10, <1>13, Zenon DEF Returns, l, at
<1> QED
  BY <1>3, <1>14, Zenon DEF s

LEMMA TypedInit ==
  Init => Typed
<1>. SUFFICES ASSUME Init PROVE Typed
  OBVIOUS
<1>1. ws \in Dirs
  BY SegmentsAssumption DEF Init
<1>2. line \in LineSet /\ sh \in ShellSet
  BY <1>1 DEF Init, NewLine, Shell, LineSet, ShellSet, VerdictSet
<1>3. outer = <<>> /\ doubt = {}
  BY DEF Init
<1> QED
  BY <1>1, <1>2, <1>3 DEF Typed, TypeOK

LEMMA TypedStep ==
  Typed /\ [Next]_vars => Typed'
<1>. SUFFICES ASSUME Typed, [Next]_vars PROVE Typed'
  OBVIOUS
<1>1. ASSUME NEW s \in Segments, NEW op \in Operators, NEW newline \in BOOLEAN, Segment(s, op, newline)
      PROVE  Typed'
  <2>1. line' \in LineSet /\ sh' \in ShellSet
    BY <1>1, SegmentWalks DEF Typed, Walks
  <2>2. ws' = ws /\ outer' = outer
    BY <1>1 DEF Segment
  <2>3. doubt' \subseteq doubt \cup Doubts(Reached(op, newline), s) \cup {"piped"}
    BY <1>1 DEF Segment
  <2>4. doubt' \subseteq DoubtSet
    BY <2>3, DoubtsAre DEF Typed, DoubtSet
  <2> QED
    BY <2>1, <2>2, <2>4 DEF Typed, TypeOK
<1>2. CASE CannotBeRead
  <2>1. line' \in LineSet
    BY <1>2 DEF CannotBeRead, Typed, TypeOK, LineSet
  <2> QED
    BY <1>2, <2>1 DEF CannotBeRead, Typed, TypeOK
<1>3. ASSUME NEW op \in Operators, NEW shifted \in BOOLEAN, OpenProgram(op, shifted)
      PROVE  Typed'
  <2>1. line' \in LineSet /\ sh' \in ShellSet
    BY <1>3, ProgramOpens DEF Typed
  <2>2. outer' \in Seq(Frames)
    BY <1>3, ProgramOpens, EnterIs DEF Typed, OpenProgram
  <2>3. ws' = ws /\ doubt' \subseteq DoubtSet
    BY <1>3 DEF OpenProgram, Typed, DoubtSet
  <2> QED
    BY <2>1, <2>2, <2>3 DEF Typed, TypeOK, Frames
<1>4. CASE CloseProgram
  <2>1. line' \in LineSet /\ sh' \in ShellSet
    BY <1>4, ProgramCloses DEF Typed, Returns
  <2>2. outer' \in Seq(Frames)
    BY <1>4, OuterIs DEF CloseProgram, Typed
  <2>3. ws' = ws /\ doubt' = doubt \cup Doubts(Head(outer).line, Interpreter(ProgramClass(line))) \cup Unread
    BY <1>4 DEF CloseProgram
  <2>4. Unread \subseteq DoubtSet
    BY DEF Unread, DoubtSet
  <2>5. doubt' \subseteq DoubtSet
    BY <2>3, <2>4, DoubtsAre DEF Typed
  <2> QED
    BY <2>1, <2>2, <2>3, <2>5 DEF Typed, TypeOK, Frames
<1>5. CASE UNCHANGED vars
  BY <1>5 DEF vars, Typed, TypeOK
<1> QED
  BY <1>1, <1>2, <1>3, <1>4, <1>5 DEF Next

-----------------------------------------------------------------------------
(* Where nothing was doubted, the engine knows where the shell is *)

\* No doubt yet, nor one that the segments of the open programs will raise.
Sure ==
  /\ doubt \subseteq Excused
  /\ \A i \in 1..Len(outer) :
       Steady(outer[i].line) /\ (i < Len(outer) => ~outer[i].line.opaque)

\* The programs that the i-th of outer is part of are all being run.
RunsWithin(i) == \A j \in 1..Len(outer) : j > i => outer[j].sh.runs

TrackInv ==
  Sure =>
    /\ RunsWithin(0) => Stands(line, sh)
    /\ \A i \in 1..Len(outer) : RunsWithin(i) => Arrives(outer[i].line, outer[i].sh)

LEMMA ProgramsRunIs ==
  ASSUME TypeOK PROVE ProgramsRun <=> RunsWithin(0)
<1>1. DOMAIN outer = 1..Len(outer) /\ Len(outer) \in Nat
  BY DEF TypeOK
<1> QED
  BY <1>1 DEF ProgramsRun, RunsWithin

\* The segment that is run is run in the directory it is judged from.
LEMMA RunWhereJudged ==
  ASSUME Typed, TrackInv, NEW s \in Segments, NEW op \in Operators, NEW newline \in BOOLEAN,
         Segment(s, op, newline), Sure'
  PROVE  /\ Sure
         /\ Doubts(Reached(op, newline), s) \subseteq Excused
         /\ RunsWithin(0) => Arrives(Reached(op, newline), After(sh, op))
<1>1. outer' = outer
  BY DEF Segment
<1>2. doubt' = doubt \cup Doubts(Reached(op, newline), s) \cup (IF newline /\ op # "&&" THEN {"piped"} ELSE {})
  BY DEF Segment
<1>3. doubt' \subseteq Excused
  BY DEF Sure
<1>4. doubt \subseteq Excused /\ Doubts(Reached(op, newline), s) \subseteq Excused
  BY <1>2, <1>3
<1>5. ~(newline /\ op # "&&")
  BY <1>2, <1>3 DEF Excused
<1>6. Sure
  BY <1>1, <1>4 DEF Sure
<1>7. Reached(op, newline) \in LineSet
  BY ReachedIs DEF Typed, TypeOK
<1>8. Steady(Reached(op, newline))
  BY <1>4, <1>7, WithoutDoubt
<1>9. newline => op \in {"&&", "||", "|"}
  BY DEF Segment
<1>10. ASSUME RunsWithin(0) PROVE Arrives(Reached(op, newline), After(sh, op))
  <2>1. Stands(line, sh)
    BY <1>6, <1>10 DEF TrackInv
  <2> QED
    BY <1>5, <1>8, <1>9, <2>1, Reaches DEF Typed, TypeOK
<1> QED
  BY <1>4, <1>6, <1>10

LEMMA TrackSegment ==
  ASSUME Typed, TrackInv, NEW s \in Segments, NEW op \in Operators, NEW newline \in BOOLEAN,
         Segment(s, op, newline)
  PROVE  TrackInv'
<1>. SUFFICES ASSUME Sure' 
              PROVE  /\ RunsWithin(0)' => Stands(line', sh')
                     /\ \A i \in 1..Len(outer') : RunsWithin(i)' => Arrives(outer'[i].line, outer'[i].sh)
  BY DEF TrackInv
<1>1. outer' = outer
  BY DEF Segment
<1>2. Sure /\ Doubts(Reached(op, newline), s) \subseteq Excused
      /\ (RunsWithin(0) => Arrives(Reached(op, newline), After(sh, op)))
  BY RunWhereJudged
<1>3. ASSUME RunsWithin(0) PROVE Stands(line', sh')
  <2>1. PICK ok \in BOOLEAN, dir \in Dirs : Walks(s, op, newline, ok, dir)
    BY SegmentWalks, Zenon DEF Typed
  <2>2. Judgeable(s)
    BY SegmentsAreTyped DEF Judgeable
  <2>3. Arrives(Reached(op, newline), After(sh, op))
    BY <1>2, <1>3
  <2> QED
    BY <1>2, <2>1, <2>2, <2>3, Lands DEF Walks
<1>4. \A i : RunsWithin(i)' <=> RunsWithin(i)
  BY <1>1 DEF RunsWithin
<1>5. \A i \in 1..Len(outer) : RunsWithin(i) => Arrives(outer[i].line, outer[i].sh)
  BY <1>2 DEF TrackInv
<1>6. \A i \in 1..Len(outer') : RunsWithin(i)' => Arrives(outer'[i].line, outer'[i].sh)
  BY <1>1, <1>4, <1>5
<1> QED
  BY <1>3, <1>4, <1>6

LEMMA TrackOpen ==
  ASSUME Typed, TrackInv, NEW op \in Operators, NEW shifted \in BOOLEAN, OpenProgram(op, shifted)
  PROVE  TrackInv'
<1>. DEFINE r == Reached(op, FALSE)
            at == After(sh, op)
            n == Len(outer)
<1>. SUFFICES ASSUME Sure' 
              PROVE  /\ RunsWithin(0)' => Stands(line', sh')
                     /\ \A i \in 1..Len(outer') : RunsWithin(i)' => Arrives(outer'[i].line, outer'[i].sh)
  BY DEF TrackInv
<1>1. r \in LineSet /\ at \in ShellSet /\ [line |-> r, sh |-> at] \in Frames
      /\ line' = NewLine(SegmentBase(r), line.before + line.count + 1)
  BY ProgramOpens DEF Typed
<1>2. PICK dir \in Dirs : sh' = Shell(dir) /\ sh' \in ShellSet /\ (~shifted => dir = at.cwd)
  BY ProgramOpens, Zenon DEF Typed
<1>3. outer' = <<[line |-> r, sh |-> at]>> \o outer
  BY DEF OpenProgram
<1>. DEFINE x == [line |-> r, sh |-> at]
<1>4. /\ n \in Nat /\ Len(outer') = n + 1 /\ outer'[1] = x
      /\ \A i \in 1..n : outer'[i + 1] = outer[i]
  BY <1>1, <1>3, EnterIs DEF Typed
<1>5. x.line = r /\ x.sh = at
  OBVIOUS
<1>6. doubt' = IF shifted THEN doubt \cup {"shifted"} ELSE doubt
  BY DEF OpenProgram
<1>. HIDE DEF r, at, n, x
<1>7. ~shifted /\ doubt \subseteq Excused
  BY <1>6 DEF Sure, Excused
<1>8. \A i \in 1..(n + 1) : Steady(outer'[i].line) /\ (i < n + 1 => ~outer'[i].line.opaque)
  BY <1>4, Zenon DEF Sure
<1>9. Sure
  <2>1. \A i \in 1..n : i + 1 \in 1..(n + 1) /\ (i < n => i + 1 < n + 1)
    BY <1>4
  <2>2. \A i \in 1..n : Steady(outer[i].line) /\ (i < n => ~outer[i].line.opaque)
    BY <1>4, <1>8, <2>1
  <2> QED
    BY <1>7, <2>2, Zenon DEF Sure, n
<1>10. Steady(r)
  <2>1. 1 \in 1..(n + 1)
    BY <1>4
  <2> QED
    BY <1>4, <1>5, <1>8, <2>1
<1>11. ASSUME RunsWithin(0) PROVE Arrives(r, at)
  <2>1. Stands(line, sh)
    BY <1>9, <1>11 DEF TrackInv
  <2> QED
    BY <1>10, <2>1, Reaches DEF Typed, TypeOK, r, at
<1>12. \A i \in 0..n : RunsWithin(i + 1)' => RunsWithin(i)
  <2>1. SUFFICES ASSUME NEW i \in 0..n, RunsWithin(i + 1)', NEW j \in 1..n, j > i PROVE outer[j].sh.runs
    BY Zenon DEF RunsWithin, n
  <2>2. j + 1 \in 1..(n + 1) /\ j + 1 > i + 1
    BY <1>4, <2>1
  <2>3. outer'[j + 1].sh.runs
    BY <1>4, <2>1, <2>2 DEF RunsWithin
  <2> QED
    BY <1>4, <2>3
<1>13. ASSUME RunsWithin(0)' PROVE RunsWithin(0) /\ at.runs
  <2>1. 1 \in 1..(n + 1) /\ 1 > 0
    BY <1>4
  <2>2. outer'[1].sh.runs
    BY <1>4, <1>13, <2>1 DEF RunsWithin
  <2>3. \A j \in 1..n : j + 1 \in 1..(n + 1) /\ j + 1 > 0
    BY <1>4
  <2>4. \A j \in 1..n : outer[j].sh.runs
    BY <1>4, <1>13, <2>3 DEF RunsWithin
  <2> QED
    BY <1>4, <1>5, <2>2, <2>4 DEF RunsWithin, n
<1>14. ASSUME RunsWithin(0)' PROVE Stands(line', sh')
  <2>1. Arrives(r, at) /\ at.runs
    BY <1>11, <1>13, <1>14
  <2>2. at.cwd = SegmentBase(r)
    BY <1>1, <2>1, Here
  <2>3. dir = SegmentBase(r)
    BY <1>2, <1>7, <2>2
  <2>4. sh'.cwd = dir /\ sh'.list = dir /\ sh'.next = dir /\ sh'.runs /\ ~sh'.piped
    BY <1>2 DEF Shell
  <2>5. line'.start = SegmentBase(r) /\ line'.base = SegmentBase(r) /\ line'.moved = "no"
    BY <1>1 DEF NewLine
  <2> QED
    BY <2>3, <2>4, <2>5, Zenon DEF Stands
<1>15. ASSUME NEW i \in 1..(n + 1), RunsWithin(i)' PROVE Arrives(outer'[i].line, outer'[i].sh)
  <2>1. i - 1 \in 0..n /\ (i - 1) + 1 = i
    BY <1>4
  <2>2. RunsWithin(i - 1)
    BY <1>12, <1>15, <2>1
  <2>3. CASE i = 1
    <3>1. Arrives(r, at)
      BY <1>11, <2>2, <2>3
    <3> QED
      BY <1>4, <1>5, <2>3, <3>1
  <2>4. CASE i # 1
    <3>1. i - 1 \in 1..n
      BY <1>4, <2>4
    <3>2. outer'[(i - 1) + 1] = outer[i - 1]
      BY <1>4, <3>1
    <3>3. Arrives(outer[i - 1].line, outer[i - 1].sh)
      BY <1>9, <2>2, <3>1 DEF TrackInv, n
    <3> QED
      BY <2>1, <3>2, <3>3
  <2> QED
    BY <2>3, <2>4
<1> QED
  BY <1>4, <1>14, <1>15

\* When a program ends, its line was sure already, and the segment that ran
\* it ran where it was judged.
LEMMA ReturnsWhereJudged ==
  ASSUME Typed, TrackInv, CloseProgram, Sure'
  PROVE  /\ Sure
         /\ Doubts(Head(outer).line, Interpreter(ProgramClass(line))) \subseteq Excused
         /\ RunsWithin(1) => Arrives(Head(outer).line, Head(outer).sh)
         /\ Head(outer).line.opaque => Tail(outer) = <<>>
<1>. DEFINE l == Head(outer).line
            s == Interpreter(ProgramClass(line))
            n == Len(outer)
<1>1. outer # <<>> /\ outer' = Tail(outer) /\ doubt' = doubt \cup Doubts(l, s) \cup Unread
  BY DEF CloseProgram
<1>2. /\ l = outer[1].line /\ l \in LineSet /\ n \in Nat /\ 1 \in 1..n /\ Len(outer') = n - 1
      /\ Head(outer) = outer[1]
      /\ \A i \in 1..(n - 1) : i + 1 \in 1..n /\ outer'[i] = outer[i + 1]
  BY <1>1, OuterIs DEF Typed
<1>3. doubt' \subseteq Excused
  BY DEF Sure
<1>4. doubt \subseteq Excused /\ Doubts(l, s) \subseteq Excused /\ Unread \subseteq Excused
  BY <1>1, <1>3
<1>5. l.opaque => Tail(outer) = <<>>
  BY <1>4 DEF Unread, Excused
<1>6. Steady(l)
  BY <1>2, <1>4, WithoutDoubt
<1>7. Tail(outer) = <<>> => n = 1
  BY <1>1, <1>2, SMTT(30)
<1>. HIDE DEF n
<1>8. Sure
  <2>1. \A i \in 1..(n - 1) : Steady(outer'[i].line) /\ (i < n - 1 => ~outer'[i].line.opaque)
    BY <1>2, Zenon DEF Sure
  <2>2. ASSUME NEW i \in 1..n PROVE Steady(outer[i].line) /\ (i < n => ~outer[i].line.opaque)
    <3>1. CASE i = 1
      BY <1>2, <1>5, <1>6, <1>7, <3>1
    <3>2. CASE i # 1
      <4>1. i - 1 \in 1..(n - 1) /\ (i - 1) + 1 = i /\ (i < n => i - 1 < n - 1)
        BY <1>2, <3>2
      <4>2. outer'[i - 1] = outer[i]
        BY <1>2, <4>1
      <4> QED
        BY <2>1, <4>1, <4>2
    <3> QED
      BY <3>1, <3>2
  <2> QED
    BY <1>4, <2>2 DEF Sure, n
<1>9. RunsWithin(1) => Arrives(outer[1].line, outer[1].sh)
  BY <1>2, <1>8 DEF TrackInv, n
<1> QED
  BY <1>2, <1>4, <1>5, <1>8, <1>9

LEMMA TrackClose ==
  ASSUME Typed, TrackInv, CloseProgram
  PROVE  TrackInv'
<1>. DEFINE l == Head(outer).line
            s == Interpreter(ProgramClass(line))
            n == Len(outer)
<1>. SUFFICES ASSUME Sure' 
              PROVE  /\ RunsWithin(0)' => Stands(line', sh')
                     /\ \A i \in 1..Len(outer') : RunsWithin(i)' => Arrives(outer'[i].line, outer'[i].sh)
  BY DEF TrackInv
<1>1. outer # <<>> /\ outer' = Tail(outer)
  BY DEF CloseProgram
<1>2. /\ l \in LineSet /\ Head(outer).sh \in ShellSet /\ n \in Nat /\ Len(outer') = n - 1
      /\ \A i \in 1..(n - 1) : i + 1 \in 1..n /\ outer'[i] = outer[i + 1]
  BY <1>1, OuterIs DEF Typed
<1>3. Sure /\ Doubts(l, s) \subseteq Excused /\ (RunsWithin(1) => Arrives(l, Head(outer).sh))
  BY ReturnsWhereJudged
<1>4. ProgramClass(line) \in Classes /\ \E ok \in BOOLEAN : Returns(s, ok)
  BY ProgramCloses DEF Typed
<1>5. Judgeable(s) /\ s.head = "sh"
  BY <1>4, InterpreterIs DEF Judgeable
<1>. HIDE DEF l, s, n
<1>6. PICK ok \in BOOLEAN : Returns(s, ok)
  BY <1>4, Zenon
<1>7. \A i \in 0..n : RunsWithin(i)' => RunsWithin(i + 1)
  <2>1. SUFFICES ASSUME NEW i \in 0..n, RunsWithin(i)', NEW j \in 1..n, j > i + 1 PROVE outer[j].sh.runs
    BY Zenon DEF RunsWithin, n
  <2>2. j - 1 \in 1..(n - 1) /\ (j - 1) + 1 = j /\ j - 1 > i
    BY <1>2, <2>1
  <2>3. outer'[j - 1].sh.runs
    BY <1>2, <2>1, <2>2 DEF RunsWithin
  <2> QED
    BY <1>2, <2>2, <2>3
<1>8. ASSUME RunsWithin(0)' PROVE Stands(line', sh')
  <2>1. RunsWithin(1)
    <3>1. 0 \in 0..n /\ 0 + 1 = 1
      BY <1>2
    <3> QED
      BY <1>7, <1>8, <3>1
  <2>2. Arrives(l, Head(outer).sh)
    BY <1>3, <2>1
  <2>3. Head(outer).sh.cwd \in Dirs
    BY <1>2 DEF ShellSet
  <2>4. MovesTo(s, Head(outer).sh.cwd) = {}
    BY <1>5, <2>3, MovesToIs
  <2> QED
    BY <1>2, <1>3, <1>5, <1>6, <2>2, <2>4, Lands DEF Returns, l
<1>9. ASSUME NEW i \in 1..(n - 1), RunsWithin(i)' PROVE Arrives(outer'[i].line, outer'[i].sh)
  <2>1. i \in 0..n
    BY <1>2
  <2>2. RunsWithin(i + 1) /\ i + 1 \in 1..n
    BY <1>2, <1>7, <1>9, <2>1
  <2>3. Arrives(outer[i + 1].line, outer[i + 1].sh)
    BY <1>3, <2>2 DEF TrackInv, n
  <2> QED
    BY <1>2, <2>3
<1> QED
  BY <1>2, <1>8, <1>9

LEMMA TrackStep ==
  Typed /\ TrackInv /\ [Next]_vars => TrackInv'
<1>. SUFFICES ASSUME Typed, TrackInv, [Next]_vars PROVE TrackInv'
  OBVIOUS
<1>1. CASE CannotBeRead
  <2>1. /\ line.count = 0 /\ line' = [line EXCEPT !.opaque = TRUE] /\ outer' = outer
        /\ sh' = sh /\ doubt' = doubt
    BY <1>1 DEF CannotBeRead
  <2>2. (Sure' <=> Sure) /\ \A i : RunsWithin(i)' <=> RunsWithin(i)
    BY <2>1 DEF Sure, RunsWithin
  <2>3. line'.count = line.count /\ line'.start = line.start /\ line'.base = line.base /\ line'.moved = line.moved
    BY <2>1 DEF Typed, TypeOK, LineSet
  <2>4. Stands(line, sh) => Stands(line', sh)
    BY <2>1, <2>3, Zenon DEF Stands
  <2> QED
    BY <2>1, <2>2, <2>4 DEF TrackInv
<1>2. CASE UNCHANGED vars
  BY <1>2 DEF vars, TrackInv, Sure, RunsWithin
<1> QED
  BY <1>1, <1>2, TrackSegment, TrackOpen, TrackClose DEF Next

-----------------------------------------------------------------------------
(* What a segment does *)

OperandKind(s) ==
  CASE s.head \in Removers -> "delete"
    [] s.head \in Creators -> "create"
    [] s.head \in Writers  -> "write"
    [] OTHER               -> "read"

\* The word t of s makes the effect.
Makes(t, kind, s) ==
  /\ Static(t)
  /\ \/ kind = "write" /\ t \in FileWrites(s)
     \/ kind = "read" /\ t \in s.reads /\ ReadsInput(s)
     \/ /\ t \in s.operands /\ kind = OperandKind(s)
        /\ s.head \in Readers \cup Builders \cup Creators \cup Writers \cup Removers

LEMMA EffectsAre ==
  ASSUME NEW s, NEW dir, NEW e \in Effects(s, dir)
  PROVE  \E t \in s.operands \cup s.writes \cup s.reads : Makes(t, e[1], s) /\ e[2] = Resolve(t, dir)
<1>1. CASE e \in {<<"write", Resolve(t, dir)>> : t \in {u \in FileWrites(s) : Static(u)}}
  <2>1. PICK t \in FileWrites(s) : Static(t) /\ e = <<"write", Resolve(t, dir)>>
    BY <1>1
  <2>2. t \in s.writes
    BY <2>1 DEF FileWrites
  <2> QED
    BY <2>1, <2>2 DEF Makes
<1>2. CASE e \in {<<"read", Resolve(t, dir)>> : t \in {u \in s.reads : Static(u) /\ ReadsInput(s)}}
  <2>1. PICK t \in s.reads : Static(t) /\ ReadsInput(s) /\ e = <<"read", Resolve(t, dir)>>
    BY <1>2
  <2> QED
    BY <2>1 DEF Makes
<1>3. CASE e \in {<<OperandKind(s), Resolve(t, dir)>> :
                    t \in {u \in s.operands :
                            Static(u) /\ s.head \in Readers \cup Builders \cup Creators \cup Writers \cup Removers}}
  <2>1. PICK t \in s.operands :
          /\ Static(t) /\ e = <<OperandKind(s), Resolve(t, dir)>>
          /\ s.head \in Readers \cup Builders \cup Creators \cup Writers \cup Removers
    BY <1>3
  <2> QED
    BY <2>1, Zenon DEF Makes
<1> QED
  BY <1>1, <1>2, <1>3 DEF Effects, OperandKind

\* The path the engine saw for the effect at p.
Seen(s, dir, base, p) ==
  CHOOSE q \in {Resolve(t, base) : t \in s.operands \cup s.writes \cup s.reads} :
    \E t \in s.operands \cup s.writes \cup s.reads : Resolve(t, dir) = p /\ Resolve(t, base) = q

LEMMA HarmIs ==
  ASSUME NEW s, NEW dir, NEW base, NEW h \in Harm(s, dir, base)
  PROVE  \E t \in s.operands \cup s.writes \cup s.reads, kind \in {"write", "read", "create", "delete"} :
           /\ Makes(t, kind, s)
           /\ h \in HarmOf(kind, Resolve(t, dir), Seen(s, dir, base, Resolve(t, dir)))
<1>1. PICK e \in Effects(s, dir) : h \in HarmOf(e[1], e[2], Seen(s, dir, base, e[2]))
  BY DEF Harm, Seen
<1>2. PICK t \in s.operands \cup s.writes \cup s.reads : Makes(t, e[1], s) /\ e[2] = Resolve(t, dir)
  BY <1>1, EffectsAre
<1>3. e[1] \in {"write", "read", "create", "delete"}
  BY <1>2 DEF Makes, OperandKind
<1> QED
  BY <1>1, <1>2, <1>3

\* What passes the fuse where it is judged is denied, whatever the line may open.
LEMMA FuseHarmDenied ==
  ASSUME NEW s, NEW base, NEW opening, "passes the fuse" \in Harm(s, base, base)
  PROVE  SegmentHardDeny(s, base, opening)
<1>1. PICK t \in s.operands \cup s.writes \cup s.reads, kind \in {"write", "read", "create", "delete"} :
        /\ Makes(t, kind, s)
        /\ "passes the fuse" \in HarmOf(kind, Resolve(t, base), Seen(s, base, base, Resolve(t, base)))
  BY HarmIs
<1>2. kind # "read" /\ (Destructive(Resolve(t, base)) \/ StateWrite(Resolve(t, base)))
  BY <1>1 DEF HarmOf
<1>3. Static(t) /\ RedirectDenied(t, base, opening) /\ DeletionDenied(t, base) /\ OperandDenied(t, base, opening)
  BY <1>1, <1>2 DEF Makes, RedirectDenied, DeletionDenied, OperandDenied
<1>4. CASE t \in FileWrites(s)
  BY <1>3, <1>4 DEF SegmentHardDeny
<1>5. CASE t \in s.operands /\ s.head \in Creators \cup Writers \cup Removers
  BY <1>3, <1>5 DEF SegmentHardDeny
<1> QED
  BY <1>1, <1>2, <1>4, <1>5 DEF Makes, OperandKind

\* What writes to the host's tree from the zone is denied to a line of several
\* segments; a line of one may do so only from a directory of the host's tree.
LEMMA ZoneHarmDenied ==
  ASSUME NEW s, NEW dir, "writes to DSH_HOME" \in Harm(s, dir, "zone")
  PROVE  /\ SegmentHardDeny(s, "zone", FALSE)
         /\ dir # "dshHome" => \A opening : SegmentHardDeny(s, "zone", opening)
<1>1. PICK t \in s.operands \cup s.writes \cup s.reads, kind \in {"write", "read", "create", "delete"} :
        /\ Makes(t, kind, s)
        /\ "writes to DSH_HOME" \in HarmOf(kind, Resolve(t, dir), Seen(s, dir, "zone", Resolve(t, dir)))
  BY HarmIs
<1>2. kind \in {"write", "create"} /\ Resolve(t, dir).dir = "dshHome"
  BY <1>1 DEF HarmOf
<1>3. Static(t) /\ (t \in FileWrites(s) \/ (t \in s.operands /\ s.head \in Creators \cup Writers))
  BY <1>1, <1>2 DEF Makes, OperandKind
<1>4. Resolve(t, "zone").dir \in {"dshHome", "zone"}
  BY <1>2 DEF Resolve
<1>5. RedirectDenied(t, "zone", FALSE) /\ OperandDenied(t, "zone", FALSE)
  BY <1>3, <1>4 DEF RedirectDenied, OperandDenied, WriteToDshHomeDenied
<1>6. SegmentHardDeny(s, "zone", FALSE)
  BY <1>3, <1>5 DEF SegmentHardDeny
<1>7. ASSUME dir # "dshHome", NEW opening PROVE SegmentHardDeny(s, "zone", opening)
  <2>1. Resolve(t, "zone").dir = "dshHome"
    BY <1>2, <1>7 DEF Resolve
  <2>2. RedirectDenied(t, "zone", opening) /\ OperandDenied(t, "zone", opening)
    BY <1>3, <2>1 DEF RedirectDenied, OperandDenied, Destructive
  <2> QED
    BY <1>3, <2>2 DEF SegmentHardDeny
<1> QED
  BY <1>6, <1>7

ProjectKinds == {"leaves the project", "deletes what is not its own", "creates what was not planned"}

\* What is allowed where it is run does no harm, in the workspace or outside.
LEMMA AllowedDoesNoHarm ==
  ASSUME NEW s, Judgeable(s), NEW base, base \in {ws, "elsewhere"}, OwnVerdict(s, base) = "allow"
  PROVE  Harm(s, base, base) \cap ProjectKinds = {}
<1>1. SUFFICES ASSUME NEW h \in Harm(s, base, base), h \in ProjectKinds PROVE FALSE
  OBVIOUS
<1>2. PICK t \in s.operands \cup s.writes \cup s.reads, kind \in {"write", "read", "create", "delete"} :
        Makes(t, kind, s) /\ h \in HarmOf(kind, Resolve(t, base), Seen(s, base, base, Resolve(t, base)))
  BY <1>1, HarmIs
<1>. DEFINE p == Resolve(t, base)
<1>3. Seen(s, base, base, p) = p
  <2>1. p \in {Resolve(u, base) : u \in s.operands \cup s.writes \cup s.reads}
    OBVIOUS
  <2>2. \E q \in {Resolve(u, base) : u \in s.operands \cup s.writes \cup s.reads} :
          \E u \in s.operands \cup s.writes \cup s.reads : Resolve(u, base) = p /\ Resolve(u, base) = q
    BY <2>1
  <2>3. \E u \in s.operands \cup s.writes \cup s.reads :
          Resolve(u, base) = p /\ Resolve(u, base) = Seen(s, base, base, p)
    BY <2>2, Zenon DEF Seen
  <2> QED
    BY <2>3
<1>4. CASE HarmlessChanger(s, base)
  <2>1. s.writes = {} /\ s.head = "cd"
    BY <1>4 DEF HarmlessChanger, EffectiveCwdAfter
  <2>2. FileWrites(s) = {} /\ ~ReadsInput(s)
    BY <2>1 DEF FileWrites, ReadsInput
  <2> QED
    BY <1>2, <2>1, <2>2 DEF Makes, Readers, Builders, Creators, Writers, Removers
<1>5. CASE ~HarmlessChanger(s, base)
  <2>1. AssessSegment(s, base, Own) = "allow"
    BY <1>5 DEF OwnVerdict
  <2>2. Classify(s, base, Own) = "allow" /\ WritesRoutine(FileWrites(s), base)
    BY <2>1, AssessIs
  <2>3. CASE kind = "delete"
    <3>1. s.head \in Removers /\ t \in s.operands
      BY <1>2, <2>3 DEF Makes, OperandKind
    <3>2. p \in Own
      BY <2>2, <3>1, ClassifyIs
    <3> QED
      BY <1>1, <1>2, <2>3, <3>2 DEF HarmOf, ProjectKinds
  <2>4. CASE kind # "delete"
    <3>1. OrdinaryContent(p, base)
      <4>1. CASE t \in FileWrites(s)
        BY <2>2, <4>1 DEF WritesRoutine
      <4>2. CASE t \in s.reads /\ ReadsInput(s)
        <5>1. Allowable(s, base) /\ s.head \notin Creators
          BY <2>2, <4>2, ClassifyIs DEF ReadsInput
        <5> QED
          BY <4>2, <5>1 DEF Allowable, ReadsRoutine, WritesRoutine
      <4>3. CASE t \in s.operands /\ s.head \in Readers \cup Builders \cup Creators \cup Writers
        <5>1. s.head \notin Removers
          BY <4>3 DEF Readers, Builders, Creators, Writers, Removers
        <5>2. Allowable(s, base)
          BY <2>2, <5>1, ClassifyIs
        <5> QED
          BY <4>3, <5>2 DEF Allowable, ReadsRoutine, WritesRoutine
      <4> QED
        BY <1>2, <2>4, <4>1, <4>2, <4>3 DEF Makes, OperandKind
    <3>2. p.dir = base /\ ~Sensitive(p)
      BY <3>1 DEF OrdinaryContent, Routine, Guarded, Sensitive
    <3>3. InWorkspaceOrOutside(p)
      BY <3>2 DEF InWorkspaceOrOutside
    <3> QED
      BY <1>1, <1>2, <1>3, <2>4, <3>2, <3>3 DEF HarmOf, ProjectKinds
  <2> QED
    BY <2>3, <2>4
<1> QED
  BY <1>4, <1>5

-----------------------------------------------------------------------------
(* What the fuse and the opening let through *)

AnewIn(o) == o # <<>> /\ Tail(o) = <<>> /\ Head(o).line.opaque

\* The fuse has decided on line l, or on the program l of the lines o.
CaughtIn(l, o) ==
  IF o = <<>>
  THEN l.count > 0 /\ LineVerdict(l) \in {"manual", "deny"}
  ELSE HardDenied(l, AnewIn(o))

Caught == CaughtIn(line, outer)

LEMMA CaughtSettles ==
  Caught => Settled
BY DEF Caught, CaughtIn, AnewIn, Settled, Anew

LEMMA DeniedIsCaught ==
  ASSUME NEW l, l.opened, l.strict, l.count > 0, NEW o
  PROVE  CaughtIn(l, o)
<1>1. \A opening : HardDenied(l, opening)
  BY DEF HardDenied
<1>2. LineVerdict(l) = "deny"
  BY <1>1 DEF LineVerdict
<1> QED
  BY <1>1, <1>2 DEF CaughtIn

LEMMA StrictIsCaught ==
  ASSUME NEW l, l.strict, NEW o, o # <<>>, ~AnewIn(o)
  PROVE  CaughtIn(l, o)
BY DEF CaughtIn, HardDenied

\* A program that was caught passes its denial on to the line that runs it.
LEMMA ReturnsCaught ==
  ASSUME TypeOK, CloseProgram, Caught,
         Head(outer).line.opaque => Tail(outer) = <<>>
  PROVE  Caught'
<1>. DEFINE l == Head(outer).line
            s == Interpreter(ProgramClass(line))
<1>1. outer # <<>> /\ outer' = Tail(outer)
  BY DEF CloseProgram
<1>2. HardDenied(line, Anew)
  BY <1>1 DEF Caught, CaughtIn, AnewIn, Anew
<1>3. s.head = "sh" /\ ProgramDenied(s) /\ Judgeable(s)
  <2>1. ProgramClass(line) = "denied"
    BY <1>2 DEF ProgramClass
  <2>2. s.program = "denied" /\ s.head = "sh"
    BY <2>1, InterpreterIs DEF Classes
  <2> QED
    BY <2>1, <2>2 DEF ProgramDenied, Judgeable, Classes
<1>4. l \in LineSet
  BY <1>1, OuterIs
<1>. HIDE DEF l, s
<1>5. PICK ok \in BOOLEAN : Returns(s, ok)
  BY ProgramCloses, Zenon DEF s
<1>6. JudgedFrom(line', l, s, SegmentBase(l)) /\ DeniedFrom(line', l, s, SegmentBase(l))
  BY <1>5, Zenon DEF Returns, l
<1>7. line'.count > 0
  <2>1. l.count \in Nat /\ line'.count = l.count + 1
    BY <1>4, <1>6 DEF LineSet, JudgedFrom
  <2> QED
    BY <2>1
<1>8. CASE ~l.opaque
  <2>1. line'.opened /\ line'.strict
    BY <1>3, <1>6, <1>8, Zenon DEF DeniedFrom
  <2>2. CaughtIn(line', outer')
    BY <1>7, <2>1, DeniedIsCaught
  <2> QED
    BY <2>2 DEF Caught
<1>9. CASE l.opaque
  <2>1. outer' = <<>>
    BY <1>1, <1>9 DEF l
  <2>2. line'.opaque
    BY <1>6, <1>9, Zenon DEF JudgedFrom
  <2>3. NestedVerdict(s) = "deny"
    BY <1>3, NestedVerdictIs
  <2>4. line'.nested \in {"manual", "deny"}
    BY <1>3, <1>4, <1>6, <2>3, ZenonT(30) DEF JudgedFrom, LineSet, VerdictSet
  <2>5. Stronger("semantic", line'.nested) \in {"manual", "deny"}
    BY <2>4, StrongerOf DEF VerdictSet
  <2>6. OpaqueVerdict(line') \in {"manual", "deny"}
    BY <2>5 DEF OpaqueVerdict
  <2>7. LineVerdict(line') \in {"manual", "deny"}
    BY <2>2, <2>6 DEF LineVerdict
  <2>8. CaughtIn(line', outer')
    BY <1>7, <2>1, <2>7 DEF CaughtIn
  <2> QED
    BY <2>8 DEF Caught
<1> QED
  BY <1>8, <1>9

\* A line that becomes unreadable before its first segment loses no denial.
LEMMA UnreadableCaught ==
  ASSUME TypeOK, CannotBeRead, Caught PROVE Caught'
<1>1. line.count = 0 /\ line' = [line EXCEPT !.opaque = TRUE] /\ outer' = outer
  BY DEF CannotBeRead
<1>2. outer # <<>> /\ HardDenied(line, AnewIn(outer))
  BY <1>1 DEF Caught, CaughtIn
<1>3. line'.count = line.count
  BY <1>1 DEF TypeOK, LineSet
<1>4. /\ line'.strict = line.strict
      /\ line'.removes = line.removes /\ line'.namesHome = line.namesHome
  BY <1>1, Zenon DEF TypeOK, LineSet
<1>5. (line.removes /\ line.namesHome) \/ line.strict
  BY <1>1, <1>2 DEF HardDenied
<1>6. HardDenied(line', AnewIn(outer))
  BY <1>1, <1>3, <1>4, <1>5 DEF HardDenied
<1> QED
  BY <1>1, <1>2, <1>6 DEF Caught, CaughtIn

LEMMA CountGrows ==
  ASSUME NEW l \in LineSet, NEW j, j.count = l.count + 1 PROVE j.count > 0
<1>1. l.count \in Nat
  BY DEF LineSet
<1> QED
  BY <1>1

LEMMA Shifts ==
  \A n \in Nat : \A i \in 1..n : i + 1 \in 1..(n + 1) /\ (i < n => i + 1 < n + 1)
OBVIOUS

LEMMA ShiftsBack ==
  \A n \in Nat : \A i \in 1..n : i # 1 => i - 1 \in 1..(n - 1) /\ (i - 1) + 1 = i
OBVIOUS

LEMMA FirstIs ==
  \A n \in Nat : n + 1 = 1 => n = 0
OBVIOUS

FuseInv == Sure /\ "passes the fuse" \in harm => Caught

\* The harm of a segment is done where the shell is at it, if it is run.
LEMMA SegmentHarm ==
  ASSUME TypeOK, NEW s \in Segments, NEW op \in Operators, NEW newline \in BOOLEAN,
         Segment(s, op, newline), NEW h \in harm', h \notin harm \/ outer = <<>>
  PROVE  /\ After(sh, op).runs /\ RunsWithin(0) /\ h \in Kinds
         /\ \E dir \in IF s.wrap = "shift" THEN Places ELSE {After(sh, op).cwd} :
              h \in Harm(s, dir, SegmentBase(Reached(op, newline)))
<1>. DEFINE at == After(sh, op)
            from == SegmentBase(Reached(op, newline))
<1>1. \E dir \in IF s.wrap = "shift" THEN Places ELSE {at.cwd} :
        harm' = (IF outer = <<>> THEN {} ELSE harm)
                  \cup (IF at.runs /\ ProgramsRun THEN Harm(s, dir, from) \cap Kinds ELSE {})
  BY DEF Segment
<1>. HIDE DEF at, from
<1>2. PICK dir \in IF s.wrap = "shift" THEN Places ELSE {at.cwd} :
        harm' = (IF outer = <<>> THEN {} ELSE harm)
                  \cup (IF at.runs /\ ProgramsRun THEN Harm(s, dir, from) \cap Kinds ELSE {})
  BY <1>1, Zenon
<1>3. h \in IF at.runs /\ ProgramsRun THEN Harm(s, dir, from) \cap Kinds ELSE {}
  BY <1>2
<1>4. at.runs /\ ProgramsRun /\ h \in Harm(s, dir, from) /\ h \in Kinds
  BY <1>3
<1> QED
  BY <1>2, <1>4, ProgramsRunIs, Zenon DEF at, from

LEMMA FuseStep ==
  Typed /\ TrackInv /\ FuseInv /\ [Next]_vars => FuseInv'
<1>. SUFFICES ASSUME Typed, TrackInv, FuseInv, [Next]_vars, Sure', "passes the fuse" \in harm' PROVE Caught'
  BY DEF FuseInv
<1>1. ASSUME NEW s \in Segments, NEW op \in Operators, NEW newline \in BOOLEAN, Segment(s, op, newline)
      PROVE  Caught'
  <2>. DEFINE r == Reached(op, newline)
  <2>1. ~Caught
    BY <1>1, CaughtSettles DEF Segment, Goes
  <2>2. Sure /\ Doubts(r, s) \subseteq Excused /\ (RunsWithin(0) => Arrives(r, After(sh, op)))
    BY <1>1, RunWhereJudged
  <2>3. "passes the fuse" \notin harm
    BY <2>1, <2>2 DEF FuseInv
  <2>4. After(sh, op).runs /\ RunsWithin(0)
        /\ \E dir \in IF s.wrap = "shift" THEN Places ELSE {After(sh, op).cwd} :
             "passes the fuse" \in Harm(s, dir, SegmentBase(r))
    BY <1>1, <2>3, SegmentHarm DEF Typed
  <2>5. PICK ok \in BOOLEAN, dir \in Dirs : Walks(s, op, newline, ok, dir)
    BY <1>1, SegmentWalks, Zenon DEF Typed
  <2>6. r \in LineSet
    BY <2>5 DEF Walks
  <2>7. s.wrap # "shift"
    BY <2>2, <2>6, WithoutDoubt
  <2>8. After(sh, op).cwd = SegmentBase(r)
    BY <2>2, <2>4, <2>6, Here
  <2>9. "passes the fuse" \in Harm(s, SegmentBase(r), SegmentBase(r))
    BY <2>4, <2>7, <2>8
  <2>10. SegmentHardDeny(s, SegmentBase(r), FALSE) /\ SegmentHardDeny(s, SegmentBase(r), ZoneOpeningTrusted(s))
    BY <2>9, FuseHarmDenied
  <2>. HIDE DEF r
  <2>11. line'.opened /\ line'.strict
    BY <2>5, <2>10, Zenon DEF Walks, DeniedFrom, r
  <2>12. line'.count > 0
    BY <2>5, <2>6, CountGrows, Zenon DEF Walks, JudgedFrom, r
  <2>13. CaughtIn(line', outer')
    BY <2>11, <2>12, DeniedIsCaught
  <2> QED
    BY <2>13 DEF Caught
<1>2. CASE CannotBeRead
  <2>1. Sure /\ "passes the fuse" \in harm
    BY <1>2 DEF CannotBeRead, Sure
  <2> QED
    BY <1>2, <2>1, UnreadableCaught DEF FuseInv, Typed
<1>3. ASSUME NEW op \in Operators, NEW shifted \in BOOLEAN, OpenProgram(op, shifted)
      PROVE  Caught'
  <2>1. ~Caught /\ "passes the fuse" \in harm
    BY <1>3, CaughtSettles DEF OpenProgram, Goes
  <2>2. Sure
    <3>1. /\ Len(outer) \in Nat /\ Len(outer') = Len(outer) + 1
          /\ \A i \in 1..Len(outer) : outer'[i + 1] = outer[i]
      BY <1>3, ProgramOpens, EnterIs DEF Typed, OpenProgram
    <3>2. doubt \subseteq Excused
      BY <1>3 DEF OpenProgram, Sure
    <3>3. \A i \in 1..Len(outer) : i + 1 \in 1..Len(outer') /\ (i < Len(outer) => i + 1 < Len(outer'))
      BY <3>1, Shifts, Zenon
    <3>4. \A i \in 1..Len(outer') : Steady(outer'[i].line) /\ (i < Len(outer') => ~outer'[i].line.opaque)
      BY DEF Sure
    <3>5. \A i \in 1..Len(outer) : Steady(outer[i].line) /\ (i < Len(outer) => ~outer[i].line.opaque)
      BY <3>1, <3>3, <3>4
    <3> QED
      BY <3>2, <3>5 DEF Sure
  <2> QED
    BY <2>1, <2>2 DEF FuseInv
<1>4. CASE CloseProgram
  <2>1. Sure /\ (Head(outer).line.opaque => Tail(outer) = <<>>)
    BY <1>4, ReturnsWhereJudged
  <2>2. "passes the fuse" \in harm
    BY <1>4 DEF CloseProgram
  <2> QED
    BY <1>4, <2>1, <2>2, ReturnsCaught DEF FuseInv, Typed
<1>5. CASE UNCHANGED vars
  BY <1>5 DEF vars, FuseInv, Sure, Caught
<1> QED
  BY <1>1, <1>2, <1>3, <1>4, <1>5 DEF Next

\* The line and the programs that enclose the one being read are all judged
\* from the workspace, and readable.
Plain ==
  /\ doubt \cap {"away", "inherits", "hidden"} = {}
  /\ \A i \in 1..Len(outer) : SegmentBase(outer[i].line) = ws /\ ~outer[i].line.opaque

AtStart == outer = <<>> /\ line.count = 0 => sh = Shell(ws) /\ line.moved = "no"

ZoneInv == ws = "zone" /\ Plain /\ "writes to DSH_HOME" \in harm => Caught

LEMMA AtStartStep ==
  Typed /\ AtStart /\ [Next]_vars => AtStart'
<1>. SUFFICES ASSUME Typed, AtStart, [Next]_vars, outer' = <<>>, line'.count = 0
              PROVE  sh' = Shell(ws') /\ line'.moved = "no"
  BY DEF AtStart
<1>1. ASSUME NEW s \in Segments, NEW op \in Operators, NEW newline \in BOOLEAN, Segment(s, op, newline)
      PROVE  FALSE
  <2>1. PICK ok \in BOOLEAN, dir \in Dirs : Walks(s, op, newline, ok, dir)
    BY <1>1, SegmentWalks, Zenon DEF Typed
  <2>2. Reached(op, newline) \in LineSet /\ line'.count = Reached(op, newline).count + 1
    BY <2>1, Zenon DEF Walks, JudgedFrom
  <2>3. line'.count > 0
    BY <2>2, CountGrows, Zenon
  <2> QED
    BY <2>3
<1>2. CASE CannotBeRead
  <2>1. line'.count = line.count /\ line'.moved = line.moved
    BY <1>2 DEF CannotBeRead, Typed, TypeOK, LineSet
  <2>2. outer' = outer /\ sh' = sh /\ ws' = ws
    BY <1>2 DEF CannotBeRead
  <2> QED
    BY <2>1, <2>2, Zenon DEF AtStart
<1>3. ASSUME NEW op \in Operators, NEW shifted \in BOOLEAN, OpenProgram(op, shifted)
      PROVE  FALSE
  <2>1. Len(outer) \in Nat /\ Len(outer') = Len(outer) + 1
    BY <1>3, ProgramOpens, EnterIs DEF Typed, OpenProgram
  <2> QED
    BY <2>1
<1>4. CASE CloseProgram
  <2>1. outer # <<>>
    BY <1>4 DEF CloseProgram
  <2>2. PICK ok \in BOOLEAN : Returns(Interpreter(ProgramClass(line)), ok)
    BY <1>4, ProgramCloses, Zenon DEF Typed
  <2>3. Head(outer).line \in LineSet
    BY <2>1, OuterIs DEF Typed
  <2>4. line'.count = Head(outer).line.count + 1
    BY <2>2, Zenon DEF Returns, JudgedFrom
  <2>5. line'.count > 0
    BY <2>3, <2>4, CountGrows, Zenon
  <2> QED
    BY <2>5
<1>5. CASE UNCHANGED vars
  BY <1>5 DEF vars, AtStart
<1> QED
  BY <1>1, <1>2, <1>3, <1>4, <1>5 DEF Next

LEMMA PlainIsNotAnew ==
  ASSUME TypeOK, Plain PROVE ~AnewIn(outer)
<1>1. SUFFICES ASSUME outer # <<>> PROVE ~Head(outer).line.opaque
  BY DEF AnewIn
<1>2. Head(outer) = outer[1] /\ 1 \in 1..Len(outer)
  BY <1>1, OuterIs
<1> QED
  BY <1>2, Zenon DEF Plain

LEMMA ZoneSegment ==
  ASSUME Typed, AtStart, ZoneInv, ws = "zone", NEW s \in Segments, NEW op \in Operators,
         NEW newline \in BOOLEAN, Segment(s, op, newline), Plain', "writes to DSH_HOME" \in harm'
  PROVE  Caught'
<1>. DEFINE r == Reached(op, newline)
            at == After(sh, op)
<1>1. outer' = outer /\ ws' = ws /\ doubt \cup Doubts(r, s) \subseteq doubt'
  BY DEF Segment
<1>2. doubt' \cap {"away", "inherits", "hidden"} = {}
  BY DEF Plain
<1>3. Plain
  BY <1>1, <1>2 DEF Plain
<1>4. SegmentBase(r) = "zone"
  BY <1>1, <1>2 DEF Doubts
<1>5. "writes to DSH_HOME" \notin harm
  <2>1. ~Caught
    BY CaughtSettles DEF Segment, Goes
  <2> QED
    BY <1>3, <2>1 DEF ZoneInv
<1>6. PICK dir \in IF s.wrap = "shift" THEN Places ELSE {at.cwd} :
        "writes to DSH_HOME" \in Harm(s, dir, SegmentBase(r))
  BY <1>5, SegmentHarm, Zenon DEF Typed
<1>7. "writes to DSH_HOME" \in Harm(s, dir, "zone")
  BY <1>4, <1>6
<1>8. /\ SegmentHardDeny(s, "zone", FALSE)
      /\ dir # "dshHome" => SegmentHardDeny(s, "zone", ZoneOpeningTrusted(s))
  BY <1>7, ZoneHarmDenied
<1>9. PICK ok \in BOOLEAN, d \in Dirs : Walks(s, op, newline, ok, d)
  BY SegmentWalks, Zenon DEF Typed
<1>10. r \in LineSet /\ line' \in LineSet /\ line'.count = r.count + 1 /\ line'.count > 0
  BY <1>9, CountGrows, Zenon DEF Walks, JudgedFrom
<1>11. DeniedFrom(line', r, s, "zone")
  BY <1>4, <1>9 DEF Walks
<1>12. r.count = line.count
  BY ReachedIs DEF Typed, TypeOK
<1>. HIDE DEF r
<1>13. line'.strict
  BY <1>8, <1>11, Zenon DEF DeniedFrom
<1>14. CASE outer # <<>>
  <2>1. CaughtIn(line', outer')
    BY <1>1, <1>3, <1>13, <1>14, PlainIsNotAnew, StrictIsCaught DEF Typed
  <2> QED
    BY <2>1 DEF Caught
<1>15. CASE outer = <<>> /\ line'.count = 1
  <2>1. line.count = 0
    <3>1. line.count \in Nat /\ line.count + 1 = 1
      BY <1>10, <1>12, <1>15, Zenon DEF LineSet
    <3> QED
      BY <3>1, FirstIs, Zenon
  <2>2. op = "" /\ sh = Shell(ws)
    BY <1>15, <2>1 DEF Operators, AtStart
  <2>3. at.cwd = "zone"
    BY <2>2 DEF After, Shell
  <2>4. ZoneOpeningTrusted(s) => dir = "zone"
    BY <1>6, <2>3 DEF ZoneOpeningTrusted
  <2>5. SegmentHardDeny(s, "zone", ZoneOpeningTrusted(s))
    <3>1. CASE ZoneOpeningTrusted(s)
      BY <1>8, <2>4, <3>1
    <3>2. CASE ~ZoneOpeningTrusted(s)
      <4>1. ZoneOpeningTrusted(s) = FALSE
        BY <3>2 DEF ZoneOpeningTrusted
      <4> QED
        BY <1>8, <4>1
    <3> QED
      BY <3>1, <3>2
  <2>6. line'.opened
    BY <1>11, <2>5, Zenon DEF DeniedFrom
  <2>7. CaughtIn(line', outer')
    BY <1>10, <1>13, <2>6, DeniedIsCaught
  <2> QED
    BY <2>7 DEF Caught
<1>16. CASE outer = <<>> /\ line'.count # 1
  <2>1. HardDenied(line', TRUE)
    BY <1>13, <1>16 DEF HardDenied
  <2>2. LineVerdict(line') = "deny"
    BY <2>1 DEF LineVerdict
  <2>3. CaughtIn(line', outer')
    BY <1>1, <1>10, <1>16, <2>2 DEF CaughtIn
  <2> QED
    BY <2>3 DEF Caught
<1> QED
  BY <1>14, <1>15, <1>16

LEMMA ZoneStep ==
  Typed /\ AtStart /\ ZoneInv /\ [Next]_vars => ZoneInv'
<1>. SUFFICES ASSUME Typed, AtStart, ZoneInv, [Next]_vars, ws' = "zone", Plain',
                     "writes to DSH_HOME" \in harm'
              PROVE  Caught'
  BY DEF ZoneInv
<1>1. ASSUME NEW s \in Segments, NEW op \in Operators, NEW newline \in BOOLEAN, Segment(s, op, newline)
      PROVE  Caught'
  <2>1. ws = "zone"
    BY <1>1 DEF Segment
  <2> QED
    BY <1>1, <2>1, ZoneSegment
<1>2. CASE CannotBeRead
  <2>1. ws = "zone" /\ Plain /\ "writes to DSH_HOME" \in harm
    BY <1>2 DEF CannotBeRead, Plain
  <2> QED
    BY <1>2, <2>1, UnreadableCaught DEF ZoneInv, Typed
<1>3. ASSUME NEW op \in Operators, NEW shifted \in BOOLEAN, OpenProgram(op, shifted)
      PROVE  Caught'
  <2>1. ~Caught /\ "writes to DSH_HOME" \in harm /\ ws' = ws /\ doubt \subseteq doubt'
    BY <1>3, CaughtSettles DEF OpenProgram, Goes
  <2>2. Plain
    <3>1. /\ Len(outer) \in Nat /\ Len(outer') = Len(outer) + 1
          /\ \A i \in 1..Len(outer) : outer'[i + 1] = outer[i]
      BY <1>3, ProgramOpens, EnterIs DEF Typed, OpenProgram
    <3>2. \A i \in 1..Len(outer) : i + 1 \in 1..Len(outer')
      BY <3>1, Shifts, Zenon
    <3>3. \A i \in 1..Len(outer') : SegmentBase(outer'[i].line) = ws' /\ ~outer'[i].line.opaque
      BY DEF Plain
    <3>4. doubt' \cap {"away", "inherits", "hidden"} = {}
      BY DEF Plain
    <3> QED
      BY <2>1, <3>1, <3>2, <3>3, <3>4 DEF Plain
  <2> QED
    BY <2>1, <2>2 DEF ZoneInv
<1>4. CASE CloseProgram
  <2>. DEFINE l == Head(outer).line
  <2>1. /\ outer # <<>> /\ outer' = Tail(outer) /\ ws' = ws /\ harm' = harm
        /\ doubt' = doubt \cup Doubts(l, Interpreter(ProgramClass(line))) \cup Unread
    BY <1>4 DEF CloseProgram
  <2>2. doubt' \cap {"away", "inherits", "hidden"} = {}
    BY DEF Plain
  <2>3. SegmentBase(l) = ws
    BY <2>1, <2>2 DEF Doubts
  <2>4. ~l.opaque
    BY <2>1, <2>2 DEF Unread
  <2>5. Plain
    <3>. DEFINE n == Len(outer)
    <3>1. /\ l = outer[1].line /\ n \in Nat /\ Len(outer') = n - 1
          /\ \A i \in 1..(n - 1) : outer'[i] = outer[i + 1]
      BY <2>1, OuterIs DEF Typed
    <3>2. \A i \in 1..Len(outer') : SegmentBase(outer'[i].line) = ws /\ ~outer'[i].line.opaque
      BY <2>1 DEF Plain
    <3>. HIDE DEF n, l
    <3>3. ASSUME NEW i \in 1..n PROVE SegmentBase(outer[i].line) = ws /\ ~outer[i].line.opaque
      <4>1. CASE i = 1
        BY <2>3, <2>4, <3>1, <4>1
      <4>2. CASE i # 1
        <5>1. i - 1 \in 1..(n - 1) /\ (i - 1) + 1 = i
          BY <3>1, <4>2, ShiftsBack, Zenon
        <5> QED
          BY <3>1, <3>2, <5>1
      <4> QED
        BY <4>1, <4>2
    <3> QED
      BY <2>1, <2>2, <3>3 DEF Plain, n
  <2>6. Caught
    BY <2>1, <2>5 DEF ZoneInv
  <2> QED
    BY <1>4, <2>4, <2>6, ReturnsCaught DEF Typed
<1>5. CASE UNCHANGED vars
  BY <1>5 DEF vars, ZoneInv, Plain, Caught
<1> QED
  BY <1>1, <1>2, <1>3, <1>4, <1>5 DEF Next

\* A line that would be allowed so far: nothing it was judged by was lost, and
\* nothing it did was more than that.
AllowInv ==
  /\ outer = <<>> /\ ~line.opaque /\ line.worst = "allow" =>
       /\ doubt \cap {"unproven", "hidden", "inherits"} = {}
       /\ line.moved = "changer" => line.changer = "allow"
       /\ line.start = ws /\ line.base \in {ws, "elsewhere"}
       /\ Sure => harm \cap ProjectKinds = {}
  /\ outer # <<>> => harm \cap ProjectKinds = {}

\* What was allowed as one more segment of an allowed line.
LEMMA AllowedSegment ==
  ASSUME NEW l \in LineSet, NEW s, TypedSegment(s), ~l.opaque, l.worst = "allow",
         l.moved = "changer" => l.changer = "allow",
         l.start = ws, l.base \in {ws, "elsewhere"}, ws \in Dirs,
         l.by = "" => l.moved = "no",
         NEW j, JudgedFrom(j, l, s, SegmentBase(l)), j.worst = "allow"
  PROVE  /\ OwnVerdict(s, SegmentBase(l)) = "allow"
         /\ SegmentBase(l) \in {ws, "elsewhere"}
         /\ Doubts(l, s) \cap {"unproven", "hidden", "inherits"} = {}
         /\ j.moved = "changer" => j.changer = "allow"
         /\ j.start = ws /\ j.base \in {ws, "elsewhere"}
<1>. DEFINE at == SegmentBase(l)
<1>1. at \in {ws, "elsewhere"} /\ at \in Dirs
  BY BaseIs
<1>2. Judgeable(s)
  BY DEF Judgeable
<1>3. ChangerVerdict(l, l.by) = "allow" /\ OwnVerdict(s, at) = "allow"
  <2>1. ChangerVerdict(l, l.by) \in VerdictSet /\ OwnVerdict(s, at) \in VerdictSet /\ l.worst \in VerdictSet
    BY <1>2, ChangerVerdictIs, OwnVerdictIs DEF VerdictSet, LineSet
  <2>2. Stronger(ChangerVerdict(l, l.by), OwnVerdict(s, at)) \in VerdictSet
    BY <2>1, StrongerOf
  <2>3. Stronger(l.worst, Stronger(ChangerVerdict(l, l.by), OwnVerdict(s, at))) = "allow"
    BY DEF JudgedFrom
  <2>4. Stronger(ChangerVerdict(l, l.by), OwnVerdict(s, at)) = "allow"
    BY <2>1, <2>2, <2>3, StrongerOf
  <2> QED
    BY <2>1, <2>4, StrongerOf
<1>4. l.moved = "changer" => l.by \in {"", "&&"}
  BY <1>3, ChangerVerdictIs
<1>5. s.head = "cd" => HarmlessChanger(s, at)
  <2>1. SUFFICES ASSUME s.head = "cd", ~HarmlessChanger(s, at) PROVE FALSE
    OBVIOUS
  <2>2. AssessSegment(s, at, Own) = "allow"
    BY <1>3, <2>1 DEF OwnVerdict
  <2>3. Classify(s, at, Own) = "allow"
    BY <1>2, <2>2, AssessIs
  <2>4. s.head \notin Removers \cup Readers \cup Builders \cup Creators \cup Writers
    BY <2>1 DEF Readers, Builders, Creators, Writers, Removers
  <2>5. Allowable(s, at)
    BY <2>3, <2>4, ClassifyIs
  <2> QED
    BY <2>4, <2>5 DEF Allowable
<1>6. HarmlessChanger(s, at) =>
        /\ EffectiveCwdAfter(s, at) # {}
        /\ \E dir \in EffectiveCwdAfter(s, at) : dir \in {at, "elsewhere"}
        /\ \E t \in s.operands : Static(t)
  BY DEF HarmlessChanger, IsTrustedChangerBase, EffectiveCwdAfter
<1>7. Doubts(l, s) \cap {"unproven", "hidden", "inherits"} = {}
  BY <1>4, <1>5, <1>6 DEF Doubts
<1>8. \A d, e \in EffectiveCwdAfter(s, at) : d = e
  BY <1>1, <1>2, MovesIs
<1>9. s.head # "cd" => EffectiveCwdAfter(s, at) = {}
  BY <1>1, <1>2, MovesIs
<1>. HIDE DEF at
<1>10. j.moved = "changer" => j.changer = "allow"
  <2>1. CASE s.head = "cd"
    BY <1>5, <1>6, <2>1 DEF JudgedFrom, at
  <2>2. CASE s.head # "cd"
    BY <1>4, <2>2 DEF JudgedFrom
  <2> QED
    BY <2>1, <2>2
<1>11. j.start = ws
  BY DEF JudgedFrom
<1>12. j.base \in {ws, "elsewhere"}
  <2>1. CASE s.head # "cd"
    BY <1>1, <1>9, <2>1 DEF JudgedFrom, at
  <2>2. CASE s.head = "cd"
    <3>1. PICK dir \in EffectiveCwdAfter(s, at) : dir \in {at, "elsewhere"}
      BY <1>5, <1>6, <2>2
    <3>2. j.base = CHOOSE d \in EffectiveCwdAfter(s, at) : TRUE
      BY <3>1 DEF JudgedFrom, at
    <3>3. j.base \in EffectiveCwdAfter(s, at)
      BY <3>1, <3>2, Zenon
    <3> QED
      BY <1>1, <1>8, <3>1, <3>3
  <2> QED
    BY <2>1, <2>2
<1> QED
  BY <1>1, <1>3, <1>7, <1>10, <1>11, <1>12 DEF at

LEMMA AllowSegment ==
  ASSUME Typed, TrackInv, AtStart, AllowInv, NEW s \in Segments, NEW op \in Operators,
         NEW newline \in BOOLEAN, Segment(s, op, newline),
         outer = <<>>, ~line'.opaque, line'.worst = "allow"
  PROVE  /\ doubt' \cap {"unproven", "hidden", "inherits"} = {}
         /\ line'.moved = "changer" => line'.changer = "allow"
         /\ line'.start = ws /\ line'.base \in {ws, "elsewhere"}
         /\ Sure' => harm' \cap ProjectKinds = {}
<1>. DEFINE r == Reached(op, newline)
            at == After(sh, op)
<1>1. PICK ok \in BOOLEAN, d \in Dirs : Walks(s, op, newline, ok, d)
  BY SegmentWalks, Zenon DEF Typed
<1>2. r \in LineSet /\ JudgedFrom(line', r, s, SegmentBase(r))
  BY <1>1, Zenon DEF Walks
<1>3. TypedSegment(s) /\ Judgeable(s)
  BY SegmentsAreTyped DEF Judgeable
<1>4. ~r.opaque /\ ~line.opaque
  <2>1. line'.opaque = r.opaque
    BY <1>2, Zenon DEF JudgedFrom
  <2>2. r.opaque = line.opaque
    BY ReachedFlags, Zenon DEF Typed, TypeOK
  <2> QED
    BY <2>1, <2>2, Zenon
<1>5. r.worst = line.worst /\ r.moved = line.moved /\ r.changer = line.changer
      /\ r.start = line.start /\ r.base = line.base /\ r.count = line.count
      /\ r.by = Precedes(op, newline)
  BY ReachedIs DEF Typed, TypeOK
<1>6. r.worst = "allow"
  <2>1. ChangerVerdict(r, r.by) \in VerdictSet /\ OwnVerdict(s, SegmentBase(r)) \in VerdictSet /\ r.worst \in VerdictSet
    BY <1>2, <1>3, ChangerVerdictIs, OwnVerdictIs DEF VerdictSet, LineSet
  <2>2. Stronger(ChangerVerdict(r, r.by), OwnVerdict(s, SegmentBase(r))) \in VerdictSet
    BY <2>1, StrongerOf
  <2>3. Stronger(r.worst, Stronger(ChangerVerdict(r, r.by), OwnVerdict(s, SegmentBase(r)))) = "allow"
    BY <1>2 DEF JudgedFrom
  <2> QED
    BY <2>1, <2>2, <2>3, StrongerOf
<1>7. /\ doubt \cap {"unproven", "hidden", "inherits"} = {}
      /\ line.moved = "changer" => line.changer = "allow"
      /\ line.start = ws /\ line.base \in {ws, "elsewhere"}
  BY <1>4, <1>5, <1>6 DEF AllowInv
<1>8. r.by = "" => r.moved = "no"
  <2>1. r.by = "" => op = ""
    BY <1>5 DEF Precedes, Operators, Separators
  <2>2. op = "" => line.count = 0
    BY DEF Operators, Separators
  <2> QED
    BY <1>5, <2>1, <2>2 DEF AtStart
<1>9. /\ doubt' = doubt \cup Doubts(r, s) \cup (IF newline /\ op # "&&" THEN {"piped"} ELSE {})
      /\ outer' = outer
  BY DEF Segment
<1>. HIDE DEF r
<1>10. /\ OwnVerdict(s, SegmentBase(r)) = "allow"
       /\ SegmentBase(r) \in {ws, "elsewhere"}
       /\ Doubts(r, s) \cap {"unproven", "hidden", "inherits"} = {}
       /\ line'.moved = "changer" => line'.changer = "allow"
       /\ line'.start = ws /\ line'.base \in {ws, "elsewhere"}
  BY <1>2, <1>3, <1>4, <1>5, <1>6, <1>7, <1>8, AllowedSegment DEF Typed, TypeOK
<1>11. ASSUME Sure', NEW h \in harm', h \in ProjectKinds PROVE FALSE
  <2>1. Sure /\ Doubts(r, s) \subseteq Excused /\ (RunsWithin(0) => Arrives(r, at))
    BY <1>11, RunWhereJudged DEF r
  <2>2. at.runs /\ RunsWithin(0)
        /\ \E dir \in IF s.wrap = "shift" THEN Places ELSE {at.cwd} : h \in Harm(s, dir, SegmentBase(r))
    BY <1>11, SegmentHarm DEF r, Typed
  <2>3. s.wrap # "shift"
    BY <1>2, <2>1, WithoutDoubt
  <2>4. at.cwd = SegmentBase(r)
    BY <1>2, <2>1, <2>2, Here
  <2>5. h \in Harm(s, SegmentBase(r), SegmentBase(r))
    BY <2>2, <2>3, <2>4
  <2>6. Harm(s, SegmentBase(r), SegmentBase(r)) \cap ProjectKinds = {}
    BY <1>3, <1>10, AllowedDoesNoHarm
  <2> QED
    BY <1>11, <2>5, <2>6
<1>12. doubt' \cap {"unproven", "hidden", "inherits"} = {}
  BY <1>7, <1>9, <1>10
<1> QED
  BY <1>10, <1>11, <1>12

LEMMA AllowStep ==
  Typed /\ TrackInv /\ AtStart /\ AllowInv /\ [Next]_vars => AllowInv'
<1>. SUFFICES ASSUME Typed, TrackInv, AtStart, AllowInv, [Next]_vars PROVE AllowInv'
  OBVIOUS
<1>1. ASSUME NEW s \in Segments, NEW op \in Operators, NEW newline \in BOOLEAN, Segment(s, op, newline)
      PROVE  AllowInv'
  <2>1. outer' = outer /\ ws' = ws
    BY <1>1 DEF Segment
  <2>2. CASE outer = <<>>
    BY <1>1, <2>1, <2>2, AllowSegment DEF AllowInv
  <2>3. CASE outer # <<>>
    <3>1. harm \cap ProjectKinds = {}
      BY <2>3 DEF AllowInv
    <3>2. Kinds \cap ProjectKinds = {}
      BY <2>3 DEF Kinds, ProjectKinds
    <3>3. \A h \in harm' : h \in harm \/ h \in Kinds
      BY <1>1, SegmentHarm DEF Typed
    <3>4. harm' \cap ProjectKinds = {}
      BY <3>1, <3>2, <3>3
    <3> QED
      BY <2>1, <2>3, <3>4 DEF AllowInv
  <2> QED
    BY <2>2, <2>3
<1>2. CASE CannotBeRead
  <2>1. line'.opaque /\ outer' = outer /\ harm' = harm
    BY <1>2 DEF CannotBeRead, Typed, TypeOK, LineSet
  <2> QED
    BY <2>1 DEF AllowInv
<1>3. ASSUME NEW op \in Operators, NEW shifted \in BOOLEAN, OpenProgram(op, shifted)
      PROVE  AllowInv'
  <2>1. Len(outer) \in Nat /\ Len(outer') = Len(outer) + 1
    BY <1>3, ProgramOpens, EnterIs DEF Typed, OpenProgram
  <2>2. outer' # <<>>
    BY <2>1
  <2>3. harm' = IF outer = <<>> THEN {} ELSE harm
    BY <1>3 DEF OpenProgram
  <2>4. harm' \cap ProjectKinds = {}
    BY <2>3 DEF AllowInv
  <2> QED
    BY <2>2, <2>4 DEF AllowInv
<1>4. CASE CloseProgram
  <2>. DEFINE l == Head(outer).line
              s == Interpreter(ProgramClass(line))
  <2>1. outer # <<>> /\ harm' = harm
    BY <1>4 DEF CloseProgram
  <2>2. l \in LineSet /\ l.worst \in VerdictSet
    BY <2>1, OuterIs DEF Typed, LineSet
  <2>3. ProgramClass(line) \in Classes
    BY <1>4, ProgramCloses DEF Typed
  <2>4. Judgeable(s) /\ s.head = "sh"
    BY <2>3, InterpreterIs DEF Judgeable
  <2>5. OwnVerdict(s, SegmentBase(l)) \in VerdictSet /\ OwnVerdict(s, SegmentBase(l)) # "allow"
    <3>1. ~HarmlessChanger(s, SegmentBase(l))
      BY <2>4 DEF HarmlessChanger, EffectiveCwdAfter
    <3>2. AssessSegment(s, SegmentBase(l), Own) # "allow"
      BY <2>4, AssessIs
    <3> QED
      BY <2>4, <3>1, <3>2, OwnVerdictIs DEF OwnVerdict
  <2>6. PICK ok \in BOOLEAN : Returns(s, ok)
    BY <1>4, ProgramCloses, Zenon DEF Typed
  <2>. HIDE DEF l, s
  <2>7. line'.worst = Stronger(l.worst, Stronger(ChangerVerdict(l, l.by), OwnVerdict(s, SegmentBase(l))))
    BY <2>6, Zenon DEF Returns, JudgedFrom, l
  <2>8. line'.worst # "allow"
    <3>1. ChangerVerdict(l, l.by) \in VerdictSet
      BY <2>2, ChangerVerdictIs DEF VerdictSet
    <3>2. Stronger(ChangerVerdict(l, l.by), OwnVerdict(s, SegmentBase(l))) \in VerdictSet
          /\ Stronger(ChangerVerdict(l, l.by), OwnVerdict(s, SegmentBase(l))) # "allow"
      BY <2>5, <3>1, StrongerOf
    <3> QED
      BY <2>2, <2>7, <3>2, StrongerOf
  <2>9. harm' \cap ProjectKinds = {}
    BY <2>1 DEF AllowInv
  <2> QED
    BY <2>8, <2>9 DEF AllowInv
<1>5. CASE UNCHANGED vars
  BY <1>5 DEF vars, AllowInv, Sure
<1> QED
  BY <1>1, <1>2, <1>3, <1>4, <1>5 DEF Next

-----------------------------------------------------------------------------
(* The inductive invariant and what it gives *)

IInv == Typed /\ TrackInv /\ AtStart /\ FuseInv /\ ZoneInv /\ AllowInv

LEMMA IInvInit ==
  Init => IInv
<1>. SUFFICES ASSUME Init PROVE IInv
  OBVIOUS
<1>1. Typed
  BY TypedInit
<1>2. /\ line = NewLine(ws, 0) /\ sh = Shell(ws) /\ outer = <<>> /\ harm = {} /\ doubt = {}
  BY DEF Init
<1>3. line.start = ws /\ line.base = ws /\ line.moved = "no"
  BY <1>2 DEF NewLine
<1>4. sh.cwd = ws /\ sh.list = ws /\ sh.next = ws /\ sh.runs /\ ~sh.piped
  BY <1>2 DEF Shell
<1>5. Stands(line, sh)
  BY <1>3, <1>4, Zenon DEF Stands
<1>6. TrackInv
  BY <1>2, <1>5 DEF TrackInv
<1>7. AtStart
  BY <1>2, <1>3 DEF AtStart
<1>8. FuseInv /\ ZoneInv
  BY <1>2 DEF FuseInv, ZoneInv
<1>9. AllowInv
  BY <1>2, <1>3 DEF AllowInv
<1> QED
  BY <1>1, <1>6, <1>7, <1>8, <1>9 DEF IInv

LEMMA IInvStep ==
  IInv /\ [Next]_vars => IInv'
BY TypedStep, TrackStep, AtStartStep, FuseStep, ZoneStep, AllowStep DEF IInv

LEMMA IInvAlways ==
  Spec => []IInv
BY IInvInit, IInvStep, PTL DEF Spec

LEMMA AllowedIs ==
  ASSUME IInv, Allowed, doubt \cap {"stray", "piped", "shifted"} = {}
  PROVE  harm \cap ProjectKinds = {}
<1>1. outer = <<>> /\ line \in LineSet /\ LineVerdict(line) = "allow"
  BY DEF Allowed, Received, IInv, Typed, TypeOK
<1>2. ~line.opaque
  <2>1. SUFFICES ASSUME line.opaque PROVE FALSE
    OBVIOUS
  <2>2. LineVerdict(line) = OpaqueVerdict(line)
    BY <1>1, <2>1 DEF LineVerdict
  <2>3. Stronger("semantic", line.nested) # "allow"
    BY <1>1, StrongerOf DEF LineSet, VerdictSet
  <2> QED
    BY <1>1, <2>2, <2>3 DEF OpaqueVerdict
<1>3. line.worst = "allow"
  <2>1. Stronger(line.worst, ChangerVerdict(line, "")) = "allow"
    BY <1>1, <1>2 DEF LineVerdict
  <2>2. line.worst \in VerdictSet /\ ChangerVerdict(line, "") \in VerdictSet
    BY <1>1, ChangerVerdictIs DEF LineSet, VerdictSet
  <2> QED
    BY <2>1, <2>2, StrongerOf
<1>4. doubt \cap {"unproven", "hidden", "inherits"} = {} /\ (Sure => harm \cap ProjectKinds = {})
  BY <1>1, <1>2, <1>3 DEF IInv, AllowInv
<1>5. doubt \subseteq Excused
  BY <1>4 DEF IInv, Typed, DoubtSet, Excused
<1>6. Sure
  BY <1>1, <1>5 DEF Sure
<1> QED
  BY <1>4, <1>6

\* What is allowed without asking does no more than it was judged by, whatever
\* its segments are and however many of them succeed.
THEOREM AllowedAlwaysHarmless ==
  Spec => []AllowedIsHarmless
<1>1. IInv => AllowedIsHarmless
  BY AllowedIs DEF AllowedIsHarmless, AllowedStaysInTheProject, AllowedProvenanceIsReal, Harmless, ProjectKinds
<1> QED
  BY <1>1, IInvAlways, PTL

LEMMA NotCaught ==
  ASSUME Received({"allow", "semantic"}) PROVE outer = <<>> /\ ~Caught
BY DEF Received, Caught, CaughtIn

\* What a reviewer or the settings may still settle has not passed the fuse,
\* through any chain of changers and at any depth of readable programs.
THEOREM FuseAlwaysCovers ==
  Spec => []FuseCoversTheRun
<1>1. IInv => FuseCoversTheRun
  <2>1. SUFFICES ASSUME IInv, Received({"allow", "semantic"}), doubt \subseteq Excused
                 PROVE  "passes the fuse" \notin harm
    BY DEF FuseCoversTheRun, Harmless, Excused
  <2>2. outer = <<>> /\ ~Caught
    BY <2>1, NotCaught
  <2>3. Sure
    BY <2>1, <2>2 DEF Sure
  <2> QED
    BY <2>1, <2>2, <2>3 DEF IInv, FuseInv
<1> QED
  BY <1>1, IInvAlways, PTL

\* The development zone opens for what is written to the zone and for nothing
\* else of the host's tree.
THEOREM OpeningAlwaysStays ==
  Spec => []OpeningStaysInTheZone
<1>1. IInv => OpeningStaysInTheZone
  <2>1. SUFFICES ASSUME IInv, Received({"allow", "semantic"}), ws = "zone",
                        doubt \cap {"away", "inherits", "hidden"} = {}
                 PROVE  "writes to DSH_HOME" \notin harm
    BY DEF OpeningStaysInTheZone, Harmless
  <2>2. outer = <<>> /\ ~Caught
    BY <2>1, NotCaught
  <2>3. Plain
    BY <2>1, <2>2 DEF Plain
  <2> QED
    BY <2>1, <2>2, <2>3 DEF IInv, ZoneInv
<1> QED
  BY <1>1, IInvAlways, PTL
=============================================================================

----------------------------- MODULE ShellLine -----------------------------
(***************************************************************************)
(* A command line split into segments by decomposeCommandLine, judged      *)
(* segment by segment by hardDenyShellReason and assessShell               *)
(* (src/src/auto/shell.ts), beside the shell that would run it.            *)
(*                                                                         *)
(* The code splits the line first and then walks its segments twice; the   *)
(* two walks keep the same base, so they are taken here as one, and the    *)
(* line may end after any segment: the verdict of each prefix is the one a *)
(* line that stops there gets.  The shell's own part (the ghost state sh,  *)
(* harm and doubt) is what the verdict is about: the working directory,    *)
(* whether a command is reached, and the files that its literal words name.*)
(***************************************************************************)
EXTENDS ShellPolicy, Sequences

CONSTANTS
  Workspaces,   \* directories a session may be opened in
  Segments,     \* the segments a line is made of
  Places,       \* directories that commands are sent to
  MaxNested,    \* the inline programs within one another that are read
  MaxSegments   \* a bound on the segments of a line and its programs

ASSUME BoundsAssumption == MaxNested \in Nat /\ MaxSegments \in Nat

\* cd takes one directory: with two it fails, whatever they are.
ASSUME SegmentsAssumption ==
  /\ Workspaces \subseteq Dirs /\ Places \subseteq Dirs
  /\ \A s \in Segments :
       /\ s.program = "none"
       /\ \A t \in s.operands \cup s.writes \cup s.reads : t.dir \in Dirs \cup {"here"}
       /\ s.head = "cd" => \A t, u \in s.operands : t = u

VARIABLES
  ws,       \* the session's workspace
  line,     \* what the engine knows of the line, or of the program it reads
  sh,       \* the shell that runs that line or program
  outer,    \* the lines that enclose the program being read, innermost first
  harm,     \* what the last segment did that an allow must never do
  doubt     \* why the shell's directory is not the one the line is judged from

vars == <<ws, line, sh, outer, harm, doubt>>

\* A newline between commands reads as a semicolon.
Separators == {"&&", "||", "|", ";", "&"}

\* How the engine sees what precedes a segment: it does not tell || from |,
\* and where the shell goes on after an operator it starts a new line.
Precedes(op, newline) ==
  CASE newline /\ op # ""    -> ";"
    [] ~newline /\ op = "||" -> "|"
    [] OTHER                 -> op

NewLine(base, before) ==
  [by |-> "", count |-> 0, before |-> before,
   start |-> base, base |-> base, opened |-> FALSE, strict |-> FALSE,
   opaque |-> FALSE, worst |-> "allow", changer |-> "none", moved |-> "no",
   nested |-> "allow", removes |-> FALSE, namesHome |-> FALSE, exposes |-> FALSE]

Shell(dir) ==
  [cwd |-> dir, list |-> dir, next |-> dir, runs |-> TRUE, piped |-> FALSE, ok |-> TRUE]

Init ==
  /\ ws \in Workspaces
  /\ line = NewLine(ws, 0)
  /\ sh = Shell(ws)
  /\ outer = <<>>
  /\ harm = {}
  /\ doubt = {}

Own == {[dir |-> ws, name |-> "made"]}

-----------------------------------------------------------------------------
(* The walk over the segments *)

\* Only && proves that the changer before it ran; the recovery of a line that
\* cannot be read follows no changer.
SegmentBase(l) == IF l.by \in {"", "&&"} /\ ~l.opaque THEN l.base ELSE l.start

\* The verdict of the changer before, once its successor is known.
ChangerVerdict(l, by) ==
  CASE l.changer = "none"                        -> "allow"
    [] l.changer # "none" /\ by \in {"", "&&"}   -> l.changer
    [] l.changer # "none" /\ by \notin {"", "&&"} -> "semantic"

Judged(l, s) ==
  LET base  == SegmentBase(l)
      moves == EffectiveCwdAfter(s, base)
      harmless == HarmlessChanger(s, base)
      own   == IF harmless THEN "allow" ELSE AssessSegment(s, base, Own)
      denied == ProgramDenied(s) /\ ~l.opaque
  IN [by |-> "", count |-> l.count + 1, before |-> l.before, start |-> l.start, opaque |-> l.opaque,
      opened |-> l.opened \/ SegmentHardDeny(s, base, ZoneOpeningTrusted(s)) \/ denied,
      strict |-> l.strict \/ SegmentHardDeny(s, base, FALSE) \/ denied,
      base |-> IF moves = {} THEN base ELSE CHOOSE d \in moves : TRUE,
      worst |-> Stronger(l.worst, Stronger(ChangerVerdict(l, l.by), own)),
      changer |-> IF moves # {} /\ harmless THEN "allow" ELSE "none",
      nested |-> IF s.head = "sh" /\ l.nested \in {"allow", "semantic"} THEN NestedVerdict(s) ELSE l.nested,
      exposes |-> l.exposes \/ (l.opaque /\ ExposesCredentials(s, base)),
      removes |-> l.removes \/ s.head \in Removers \/ s.program = "destructive",
      namesHome |-> l.namesHome \/ \E t \in s.operands \cup s.writes \cup s.reads : t.form = "homeVar",
      moved |-> CASE s.head = "cd"                                   -> "changer"
                  [] s.head # "cd" /\ l.moved # "no" /\ l.by = "&&" -> "carried"
                  [] OTHER                                           -> l.moved]

\* Faulty variant: every line may carry the opening of the development zone.
HardDeniedOpened(l, opening) == (l.removes /\ l.namesHome) \/ l.opened

\* Only a line of one readable segment may carry that opening, and a program
\* inside another never.
HardDenied(l, opening) ==
  \/ l.removes /\ l.namesHome
  \/ IF opening /\ l.count = 1 /\ ~l.opaque THEN l.opened ELSE l.strict

OpaqueVerdict(l) ==
  CASE l.removes \/ l.exposes -> "manual"
    [] OTHER                  -> Stronger("semantic", l.nested)

\* What a line that ends here gets.
LineVerdict(l) ==
  CASE HardDenied(l, TRUE)                -> "deny"
    [] ~HardDenied(l, TRUE) /\ l.opaque   -> OpaqueVerdict(l)
    [] ~HardDenied(l, TRUE) /\ ~l.opaque  -> Stronger(l.worst, ChangerVerdict(l, ""))

-----------------------------------------------------------------------------
(* The shell *)

InWorkspaceOrOutside(p) == p.dir \in {ws, "elsewhere"}

\* What is redirected into a command that reads no input is opened only.
ReadsInput(s) == s.head \notin Creators \cup Removers \cup {"cd"}

Effects(s, dir) ==
  { <<"write", Resolve(t, dir)>> : t \in {u \in FileWrites(s) : Static(u)} } \cup
  { <<"read", Resolve(t, dir)>> : t \in {u \in s.reads : Static(u) /\ ReadsInput(s)} } \cup
  { <<CASE s.head \in Removers -> "delete"
        [] s.head \in Creators -> "create"
        [] s.head \in Writers  -> "write"
        [] OTHER               -> "read", Resolve(t, dir)>> :
    t \in {u \in s.operands : Static(u) /\ s.head \in Readers \cup Builders \cup Creators \cup Writers \cup Removers} }

\* What an effect at p amounts to; judged is the path the engine saw.
HarmOf(kind, p, judged) ==
  (IF kind # "delete" /\ (~InWorkspaceOrOutside(p) \/ Sensitive(p)) THEN {"leaves the project"} ELSE {})
  \cup (IF kind = "delete" /\ p \notin Own THEN {"deletes what is not its own"} ELSE {})
  \cup (IF kind # "read" /\ (Destructive(p) \/ StateWrite(p)) THEN {"passes the fuse"} ELSE {})
  \cup (IF kind \in {"write", "create"} /\ p.dir = "dshHome" THEN {"writes to DSH_HOME"} ELSE {})
  \cup (IF kind = "create" /\ judged # p THEN {"creates what was not planned"} ELSE {})

Harm(s, dir, base) ==
  UNION { HarmOf(e[1], e[2], CHOOSE p \in {Resolve(t, base) : t \in s.operands \cup s.writes \cup s.reads} :
                                 \E t \in s.operands \cup s.writes \cup s.reads :
                                   Resolve(t, dir) = e[2] /\ Resolve(t, base) = p)
          : e \in Effects(s, dir) }

\* Where the changer takes the shell if it succeeds, in its own process.
MovesTo(s, from) ==
  IF s.head # "cd" \/ s.wrap # "none" THEN {}
  ELSE {Resolve(t, from).dir : t \in {u \in s.operands : Static(u)}}
         \cup (IF \E t \in s.operands : ~Static(t) THEN Places ELSE {})
         \cup (IF s.operands = {} THEN {"home"} ELSE {})

\* Why the base of the segment may not be the shell's directory.
Doubts(l, s) ==
  (IF l.by \notin {"", "&&"} /\ l.moved = "carried" THEN {"stray"} ELSE {})
  \cup (IF l.by \notin {"", "&&"} /\ l.moved = "changer" THEN {"unproven"} ELSE {})
  \cup (IF SegmentBase(l) # ws THEN {"away"} ELSE {})
  \cup (IF l.opaque /\ l.moved # "no" THEN {"unproven"} ELSE {})
  \cup (IF s.head = "cd" /\ \A t \in s.operands : ~Static(t) THEN {"unproven"} ELSE {})
  \cup (IF s.head = "cd" /\ l.by = "|" THEN {"piped"} ELSE {})
  \cup (IF s.wrap = "shift" \/ (s.head = "cd" /\ s.wrap # "none") THEN {"shifted"} ELSE {})

\* The shell at the segment that op leads to.
After(at, op) ==
  LET here   == IF at.runs /\ at.ok /\ ~at.piped THEN at.next ELSE at.cwd
      go(on) == [at EXCEPT !.cwd = here, !.next = here, !.runs = on, !.piped = FALSE]
  IN CASE op = ""   -> at
       [] op = "|"  -> [at EXCEPT !.piped = TRUE, !.next = at.cwd]
       [] op = "&&" -> go(at.ok)
       [] op = "||" -> go(~at.ok)
       [] op = "&"  -> Shell(at.list)
       [] op = ";"  -> Shell(here)

\* The shell once that segment ended with status ok in directory dir.
Ran(at, ok, dir) == IF at.runs THEN [at EXCEPT !.next = dir, !.ok = ok] ELSE at

\* A line with a program is never allowed, so only the fuse is about programs.
Kinds ==
  {"passes the fuse", "writes to DSH_HOME"} \cup
  (IF outer = <<>>
   THEN {"leaves the project", "deletes what is not its own", "creates what was not planned"}
   ELSE {})

ProgramsRun == \A i \in DOMAIN outer : outer[i].sh.runs

\* The line and the shell at the next segment.
Reached(op, newline) == [line EXCEPT !.by = Precedes(op, newline)]

-----------------------------------------------------------------------------
(* Reading the line *)

\* The program of an unreadable line is read as a line of its own: it may be
\* given the opening, and its nesting is counted anew.
Anew == outer # <<>> /\ Tail(outer) = <<>> /\ Head(outer).line.opaque
Depth == IF outer # <<>> /\ outer[Len(outer)].line.opaque THEN Len(outer) - 1 ELSE Len(outer)
TooDeep == Depth > MaxNested

\* Nothing that follows changes how the line, or the program, is received.
Settled ==
  IF outer = <<>>
  THEN line.count > 0 /\ LineVerdict(line) \in {"manual", "deny"}
  ELSE TooDeep \/ HardDenied(line, Anew) \/ line.removes

\* The line left its base and lost it: nothing is promised of what follows.
Lost == "away" \in doubt /\ doubt \cap {"stray", "piped", "shifted"} # {}

Goes == line.before + line.count < MaxSegments /\ ~Settled /\ ~Lost

\* What may precede the next segment.
Operators == IF line.count = 0 THEN {""} ELSE Separators

\* The next segment, after op and perhaps on a new line: it is judged, and the
\* shell runs it if it is reached.
Segment(s, op, newline) ==
  /\ Goes
  /\ newline => op \in {"&&", "||", "|"}
  /\ LET l  == Reached(op, newline)
         at == After(sh, op)
         to == MovesTo(s, at.cwd)
     IN /\ line' = Judged(l, s)
        /\ doubt' = doubt \cup Doubts(l, s) \cup (IF newline /\ op # "&&" THEN {"piped"} ELSE {})
        /\ \E ok \in BOOLEAN, dir \in IF to = {} THEN {at.cwd} ELSE to : sh' = Ran(at, ok, dir)
        /\ \E dir \in IF s.wrap = "shift" THEN Places ELSE {at.cwd} :
             harm' = (IF outer = <<>> THEN {} ELSE harm)
                       \cup (IF at.runs /\ ProgramsRun THEN Harm(s, dir, SegmentBase(l)) \cap Kinds ELSE {})
  /\ UNCHANGED <<ws, outer>>

\* A construct the lexer cannot read: a substitution, a group, a
\* here-document.  Where it stands does not matter, so it is typed first.
CannotBeRead ==
  /\ line.count = 0
  /\ ~line.opaque
  /\ ~TooDeep
  /\ line' = [line EXCEPT !.opaque = TRUE]
  /\ UNCHANGED <<ws, sh, outer, harm, doubt>>

\* The inline program of a nested shell is read by the same owner, from the
\* base of its segment and without the opening of the development zone.  Its
\* wrapper may name another directory for it.
OpenProgram(op, shifted) ==
  /\ Goes
  /\ LET l  == Reached(op, FALSE)
         at == After(sh, op)
     IN /\ outer' = <<[line |-> l, sh |-> at]>> \o outer
        /\ line' = NewLine(SegmentBase(l), line.before + line.count + 1)
        /\ \E dir \in IF shifted THEN Places ELSE {at.cwd} : sh' = Shell(dir)
  /\ doubt' = IF shifted THEN doubt \cup {"shifted"} ELSE doubt
  /\ harm' = IF outer = <<>> THEN {} ELSE harm
  /\ UNCHANGED ws

ProgramClass(l) ==
  CASE HardDenied(l, Anew) \/ TooDeep -> "denied"
    [] OTHER                       -> IF l.removes THEN "destructive" ELSE "visible"

\* What is said of a program is lost if the program around it is unreadable,
\* and said with the opening if the line is.
Unread ==
  IF ~Head(outer).line.opaque THEN {}
  ELSE IF Tail(outer) = <<>> THEN {"inherits"} ELSE {"hidden"}

\* The segment that runs the program, with the wrapper it was given.
Interpreter(class) == [Blank EXCEPT !.head = "sh", !.program = class]

CloseProgram ==
  /\ outer # <<>>
  /\ line.count > 0 \/ Settled
  /\ LET l == Head(outer).line
         s == Interpreter(ProgramClass(line))
     IN /\ line' = [Judged(l, s) EXCEPT !.removes = @ \/ line.removes,
                                        !.namesHome = @ \/ line.namesHome]
        /\ doubt' = doubt \cup Doubts(l, s) \cup Unread
  /\ \E ok \in BOOLEAN : sh' = Ran(Head(outer).sh, ok, Head(outer).sh.cwd)
  /\ outer' = Tail(outer)
  /\ UNCHANGED <<ws, harm>>

Next ==
  \/ \E s \in Segments, op \in Operators, newline \in BOOLEAN : Segment(s, op, newline)
  \/ CannotBeRead
  \/ \E op \in Operators, shifted \in BOOLEAN : OpenProgram(op, shifted)
  \/ CloseProgram

Spec == Init /\ [][Next]_vars

-----------------------------------------------------------------------------
(* Properties *)

Received(verdicts) == outer = <<>> /\ line.count > 0 /\ LineVerdict(line) \in verdicts
Allowed == Received({"allow"})
Harmless(kinds) == harm \cap kinds = {}

\* A line that is allowed without asking reads, writes and creates only
\* ordinary content of the project or of the directory it changed to, where
\* the shell runs it, whichever of its commands succeed.
AllowedStaysInTheProject ==
  Allowed /\ doubt \cap {"stray", "piped", "shifted"} = {} => Harmless({"leaves the project"})

\* A line that is allowed without asking deletes only what its session created,
\* and what it creates is what the registry is told it will.
AllowedProvenanceIsReal ==
  Allowed /\ doubt \cap {"stray", "piped", "shifted"} = {} =>
    Harmless({"deletes what is not its own", "creates what was not planned"})

\* Both together: what runs without anybody being asked touches nothing it was
\* not judged by.
AllowedIsHarmless == AllowedStaysInTheProject /\ AllowedProvenanceIsReal

\* A line that a reviewer or the settings may still settle does not touch the
\* host's tree or the plugin's contract and state files, through any chain of
\* changers, wrappers and nested programs.
FuseCoversTheRun ==
  Received({"allow", "semantic"}) /\ doubt \subseteq {"away", "inherits"} => Harmless({"passes the fuse"})

\* The opening of the development zone never lets a write into the rest of the
\* host's tree from a line judged from the zone, wherever its shell really is.
OpeningStaysInTheZone ==
  Received({"allow", "semantic"}) /\ ws = "zone" /\ doubt \cap {"away", "inherits", "hidden"} = {} =>
    Harmless({"writes to DSH_HOME"})

\* Violated from the workspace "zone" (in place of the invariant and the
\* workspace of ClaimShellBase.cfg): the comment on nested interpreters ("the
\* guard must read that program with the SAME per-segment owner ... or a wrapper
\* stops one level short"); a program inside an unreadable program is not read.
FuseReachesPrograms ==
  Received({"allow", "semantic"}) /\ doubt \subseteq {"away", "inherits", "hidden"} =>
    Harmless({"passes the fuse"})

\* Violated the same way: the comment there, "a nested body never inherits
\* the development-zone opening".  The program of an unreadable line does.
ProgramsNeverOpen ==
  Received({"allow", "semantic"}) /\ ws = "zone" /\ doubt \cap {"away", "hidden"} = {} =>
    Harmless({"writes to DSH_HOME"})

\* The comment on the changer's verdict: a deletion after a changer is never
\* resolved in the workspace for a path the line does not touch.
DeletionsFollowTheShell ==
  Allowed /\ "shifted" \notin doubt => Harmless({"deletes what is not its own"})
=============================================================================

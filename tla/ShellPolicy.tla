---------------------------- MODULE ShellPolicy ----------------------------
(***************************************************************************)
(* What the static engine makes of one segment of a command line           *)
(* (src/src/auto/shell.ts): the hard deny, the verdict of a readable       *)
(* segment, the directory a changer leads to and whether that directory    *)
(* may be trusted.  A path is a directory and a name; a command is one of  *)
(* each family the engine tells apart; text is left out.                   *)
(*                                                                         *)
(* "home" is the user's home outside the workspace, "dshHome" the host's   *)
(* own tree, "zone" the plugin's development zone inside it, "elsewhere" a *)
(* directory outside the home.  The settings are the shipped ones: normal  *)
(* mode, no trusted directory, no maintenance path.                        *)
(***************************************************************************)
EXTENDS Naturals, FiniteSets

Dirs  == {"workspace", "elsewhere", "home", "dshHome", "zone"}
Names == {"note", "made", "secret", "manifest", "state", "."}

\* A word that names a file: literal, relative ("here") or absolute, or with
\* an expansion in it, perhaps of the home ("homeVar").
Literal(dir, name) == [form |-> "literal", dir |-> dir, name |-> name]
Expanded(form)     == [form |-> form, dir |-> "here", name |-> "note"]
NullSink           == Literal("here", "null")
Static(t)          == t.form = "literal"

\* normalizePath, against the directory taken for the working directory.
Resolve(t, base) == [dir |-> IF t.dir = "here" THEN base ELSE t.dir, name |-> t.name]

-----------------------------------------------------------------------------
(* Places *)

Routine(p, base)   == p.dir = base
Guarded(p, base)   == p.dir = base /\ p.name = "secret"
Sensitive(p)       == p.name = "secret"
OrdinaryContent(p, base) ==
  Routine(p, base) /\ ~Guarded(p, base) /\ ~(p.dir # base /\ Sensitive(p))

Destructive(p) == p.dir = "dshHome" \/ (p.dir = "zone" /\ p.name = "manifest")
StateWrite(p)  == p.dir = "zone" /\ p.name = "state"
WriteToDshHomeDenied(p, opening) ==
  p.dir \in {"dshHome", "zone"} /\ ~(opening /\ p.dir = "zone")

\* Faulty variant: only what is sensitive or critical is refused as a base.
TrustsHome(dir, base) == dir # "dshHome"

\* A directory the rest of the line may be judged from.
IsTrustedChangerBase(dir, base) ==
  /\ dir \notin {"dshHome", "zone"}
  /\ dir \in {"elsewhere", base}

-----------------------------------------------------------------------------
(* Segments.  The wrapper is what unwrapCommand strips, "shift" one that     *)
(* names another directory for the command; program is the verdict class of *)
(* the inline program of a nested shell; by is the separator before it.     *)

Readers    == {"cat"}
Builders   == {"make"}
Creators   == {"mkdir"}
Writers    == {"tee"}
Removers   == {"rm"}
Commands   == Readers \cup Builders \cup Creators \cup Writers \cup Removers
                \cup {"cd", "sh", "sudo", "other"}
Unreadable == "expansion"
Wrappers   == {"none", "plain", "xargs", "shift"}

Blank == [wrap |-> "none", head |-> "", operands |-> {}, writes |-> {}, reads |-> {},
          program |-> "none"]

FileWrites(s) == {t \in s.writes : t # NullSink}

\* The program of a nested shell is hard-denied, or too deep to be read.
ProgramDenied(s) == s.program = "denied"

RedirectDenied(t, base, opening) ==
  \/ t.form = "homeVar"
  \/ /\ Static(t)
     /\ \/ Destructive(Resolve(t, base))
        \/ StateWrite(Resolve(t, base))
        \/ WriteToDshHomeDenied(Resolve(t, base), opening)

OperandDenied(t, base, opening) == RedirectDenied(t, base, opening)

DeletionDenied(t, base) ==
  \/ t.form = "homeVar"
  \/ Static(t) /\ (Destructive(Resolve(t, base)) \/ StateWrite(Resolve(t, base)))

SegmentHardDeny(s, base, opening) ==
  \/ \E t \in FileWrites(s) : RedirectDenied(t, base, opening)
  \/ s.head = "sudo"
  \/ s.head \in Writers \cup Creators /\ \E t \in s.operands : OperandDenied(t, base, opening)
  \/ s.head \in Removers /\ \E t \in s.operands : DeletionDenied(t, base)

\* Whether a line that is this one segment may write to the development zone.
ZoneOpeningTrusted(s) ==
  /\ s.head \notin {"", "sh", Unreadable}
  /\ s.wrap = "none"
  /\ \A t \in s.operands : Static(t)

-----------------------------------------------------------------------------
(* Directory changers *)

\* Faulty variant: no base is carried at all.
CwdNeverMoves(s, base) == {}

\* The directory a changer leads to, if it can be read.
EffectiveCwdAfter(s, base) ==
  {Resolve(t, base).dir : t \in {u \in s.operands : s.head = "cd" /\ Static(u)}}

\* A changer that may pass for a command without effect.
HarmlessChanger(s, base) ==
  /\ s.writes = {}
  /\ \E dir \in EffectiveCwdAfter(s, base) : IsTrustedChangerBase(dir, base)

-----------------------------------------------------------------------------
(* assessSegment: verdicts in the order of their strength.  A semantic       *)
(* review may be settled by the reviewer, a manual one only by a human.      *)

Verdicts == <<"allow", "semantic", "manual", "deny">>
Rank(v)  == CHOOSE i \in DOMAIN Verdicts : Verdicts[i] = v
Stronger(v, w) == IF Rank(v) >= Rank(w) THEN v ELSE w

ReadsRoutine(s, base) ==
  \A t \in s.operands \cup s.reads : Static(t) /\ OrdinaryContent(Resolve(t, base), base)

\* Sources and operands of the commands that show or copy them.
ExposesCredentials(s, base) ==
  /\ s.head \in Readers \cup Writers
  /\ \E t \in s.operands \cup s.reads : Static(t) /\ Sensitive(Resolve(t, base))

WritesRoutine(ts, base) ==
  \A t \in ts : Static(t) /\ OrdinaryContent(Resolve(t, base), base)

RedirectsStayOnFastPath(s, base) ==
  \A t \in FileWrites(s) :
    /\ Static(t)
    /\ OrdinaryContent(Resolve(t, base), base)
    /\ ~StateWrite(Resolve(t, base))

Deletion(s, base, own) ==
  IF \A t \in s.operands : Resolve(t, base) \in own THEN "allow" ELSE "semantic"

Removal(s, base, own) ==
  IF s.wrap = "xargs" \/ s.operands = {} \/ \E t \in s.operands : ~Static(t)
  THEN "manual"
  ELSE Deletion(s, base, own)

Allowable(s, base) ==
  \/ s.head \in Readers  /\ FileWrites(s) = {} /\ ReadsRoutine(s, base)
  \/ s.head \in Builders /\ RedirectsStayOnFastPath(s, base) /\ ReadsRoutine(s, base)
  \/ s.head \in Creators /\ s.operands # {} /\ WritesRoutine(s.operands, base)
  \/ /\ s.head \in Writers
     /\ s.operands # {}
     /\ WritesRoutine(s.operands \cup s.reads, base)

Classify(s, base, own) ==
  CASE s.head \in Removers                             -> Removal(s, base, own)
    [] s.head \notin Removers /\ s.wrap = "xargs"      -> "semantic"
    [] s.head \notin Removers /\ s.wrap # "xargs"      ->
         IF Allowable(s, base) THEN "allow" ELSE "semantic"

NestedVerdict(s) ==
  CASE s.program \in {"none", "destructive"} -> "manual"
    [] s.program = "denied"                  -> "deny"
    [] s.program = "visible"                 -> "semantic"

AssessSegment(s, base, own) ==
  CASE s.head = ""         -> "semantic"
    [] s.head = Unreadable \/ (s.head # "" /\ \E t \in FileWrites(s) : ~Static(t)) -> "manual"
    [] s.head = "sh" /\ \A t \in FileWrites(s) : Static(t) -> NestedVerdict(s)
    [] OTHER ->
         LET v == Classify(s, base, own) IN
         IF v = "allow" /\ ~WritesRoutine(FileWrites(s), base) THEN "semantic" ELSE v
=============================================================================

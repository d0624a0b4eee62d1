---------------------------- MODULE MCShellLine -----------------------------
(* Lines of up to three segments over one command of each family: relative and *)
(* absolute operands, changers into trusted and untrusted directories,        *)
(* redirections, wrappers, programs in programs.                              *)
EXTENDS ShellLine

Here(name)  == Literal("here", name)
Run(head, operands)  == [Blank EXCEPT !.head = head, !.operands = operands]
To(s, t)      == [s EXCEPT !.writes = {t}]
In(wrap, s)   == [s EXCEPT !.wrap = wrap]
Cd(dir)       == Run("cd", {Literal(dir, ".")})

Typed ==
  { Cd("elsewhere"), Cd("dshHome"), Cd("home"), Run("cd", {}), In("plain", Cd("elsewhere")),
    Run("cat", {Here("note")}), Run("cat", {Here("secret")}),
    [Run("cat", {}) EXCEPT !.reads = {Literal("home", "note")}],
    To(Run("make", {}), Here("note")), To(Run("cat", {}), Here("state")),
    Run("mkdir", {Here("note")}), Run("tee", {Here("note")}),
    Run("tee", {Here("manifest")}), Run("tee", {Expanded("homeVar")}),
    In("shift", Run("tee", {Here("note")})),
    Run("rm", {Here("made")}), Run("rm", {Here("made"), Here("note")}),
    Run("rm", {Here("manifest")}), In("xargs", Run("rm", {Here("made")})),
    Run("sudo", {}), Run("sh", {}), Run(Unreadable, {}) }
=============================================================================

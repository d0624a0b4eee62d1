----------------------------- MODULE MCSessions ------------------------------
\* Four kinds of behaviour: permission switches, review modes, gated calls and
\* settings; each spends its budget on one of them, with disposals and restarts.
EXTENDS Sessions, TLC

CONSTANTS s1, s2

MCPins == {Gated, Planed("full", "danger-full-access", "never"),
           Planed("auto-approval", "danger-full-access", "never")}
MCRestored == {Planed("auto", "danger-full-access", "ask"), Planed("auto", "danger-full-access", "never"),
               Planed("auto-approval", "danger-full-access", "null"),
               Planed("auto", "workspace-write", "ask")}

Row(timeout, policy, unlocked, dirs, threshold) ==
    [timeout |-> timeout, policy |-> policy, unlocked |-> unlocked,
     trusted |-> dirs, openings |-> dirs, maintenance |-> dirs, threshold |-> threshold]
MCRows == {Row("allow", [c \in Categories |-> "auto"], {"privilege", "delete"}, {"home", "plain"}, 99),
           Row("llm-low-risk-only", [c \in {"network", "unknown"} |-> "deny"], {}, {"critical", "fenced", "inner"}, 1),
           Row("sometimes", [c \in {} |-> "ask"], {}, {}, 3)}
MCDocuments == {[k \in ImportKeys |-> 1], [k \in {"plain"} |-> 0]}

None == [op \in {"create", "agent", "switch", "mode", "dispose", "restart", "call", "settings", "reads", "import", "fault"} |-> 0]
MCBudgets ==
    {[None EXCEPT !.create = 2, !.agent = 1, !.switch = 2, !.dispose = 1, !.fault = 1],
     [None EXCEPT !.create = 2, !.agent = 1, !.switch = 1, !.dispose = 1, !.restart = 1, !.fault = 1],
     [None EXCEPT !.create = 2, !.mode = 3, !.dispose = 2, !.restart = 1, !.fault = 1],
     [None EXCEPT !.create = 2, !.call = 8, !.dispose = 1],
     [None EXCEPT !.reads = 1, !.settings = 4],
     [None EXCEPT !.import = 4]}
=============================================================================

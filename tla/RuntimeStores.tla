---------------------------- MODULE RuntimeStores ----------------------------
\* The runtime files of the plugin and the records in memory they shadow: the
\* append-only audit, and the two bounded windows (approval history and reviewer
\* latency), each a JSONL file that is appended to and, past a size, replaced by
\* the window (src/src/auto/audit.ts, approval-history.ts, latency.ts,
\* runtime-paths.ts, runtime-stores.ts and the clear routes).
\*
\* Every operation runs to its end without yielding, so the only thing that can
\* come between two of its file operations is the end of the process. An
\* operation is therefore a job: the sequence of file operations still to do.
\* Each of them may fail the way the file system fails, and Crash may fall
\* between any two.
\*
\* Bounds: Budgets gives the operations of each kind a behaviour may hold. Sizes
\* are counted in lines: FileMax stands for the 1 MB a window's file may reach,
\* AuditMax for the 5 MiB and 5000 lines of the audit, Cap for 200 records.
EXTENDS Naturals, Sequences, SequencesExt, FiniteSets

CONSTANTS Cap, FileMax, AuditMax,
          Faults,    \* what may go wrong: a subset of FaultKinds
          Budgets    \* the budgets a behaviour may start with

FaultKinds == {"refuse", "partial", "replace", "truncate"}
Windows == {"history", "latency"}

ASSUME BoundsAssumption ==
    /\ Cap \in Nat \ {0} /\ FileMax \in Nat /\ AuditMax \in Nat \ {0}
    /\ Cap <= FileMax
    /\ Faults \subseteq FaultKinds

VARIABLES
    up,        \* the process runs
    mem,       \* the windows in memory
    disk,      \* their files, sequences of lines
    audit,     \* the audit file
    job,       \* the file operations the running operation still has to do
    written,   \* how many records were pushed so far; numbers them
    trail,     \* history variable: every attempt to append to the audit
    cleared,   \* history variable: the last record a confirmed clear covers
    left       \* what is left of the budget

storeVars == <<up, mem, disk, audit, job, written, trail, cleared, left>>

Line(type, id) == [type |-> type, id |-> id]
Fragment == Line("fragment", 0)   \* what a partial append leaves, without a newline
Corrupt == Line("corrupt", 0)     \* a line JSON.parse refuses

Idle == up /\ job = <<>>
Spend(op) == left[op] > 0 /\ left' = [left EXCEPT ![op] = @ - 1]
\* A fault is charged to the budget when the operation it hit reports failure.
Fails(kind) == kind \in Faults /\ left["fault"] > 0
Charge(r) == left' = [left EXCEPT !["fault"] = IF r.ok THEN @ ELSE @ - 1]
LastN(s, n) == SubSeq(s, IF Len(s) > n THEN Len(s) - n + 1 ELSE 1, Len(s))
Task(do, window, line) == [do |-> do, window |-> window, line |-> line]
NextTask(do) == up /\ job # <<>> /\ Head(job).do = do

--------------------------------------------------------------------------------
\* The file system as runtime-paths.ts uses it. A text appended behind a
\* fragment joins it into one line that no longer parses.
Put(file, line) ==
    IF file # <<>> /\ Last(file) = Fragment THEN Append(Front(file), Corrupt) ELSE Append(file, line)
Tear(file) == IF file # <<>> /\ Last(file) = Fragment THEN file ELSE Append(file, Fragment)

TryAppend(file, line) ==
    {[file |-> Put(file, line), ok |-> TRUE, retry |-> FALSE]}
    \cup (IF Fails("refuse") THEN {[file |-> file, ok |-> FALSE, retry |-> TRUE]} ELSE {})
    \cup (IF Fails("partial") THEN {[file |-> Tear(file), ok |-> FALSE, retry |-> FALSE]} ELSE {})

\* One attempt, and one more only for an error raised before a byte moved.
\* Faulty variant: an attempt that failed after bytes moved is repeated too.
AppendAgainAlways(file, line) ==
    LET first == TryAppend(file, line)
    IN  {r \in first : r.ok} \cup UNION {TryAppend(r.file, line) : r \in {r \in first : ~r.ok}}
AppendRuntimeLine(file, line) ==
    LET first == TryAppend(file, line)
    IN  {r \in first : ~r.retry} \cup UNION {TryAppend(r.file, line) : r \in {r \in first : r.retry}}

\* tmp + rename: the target holds the old content or the new one.
\* Faulty variant: the target is written in place and may be left empty.
WriteInPlace(old, new) ==
    {[file |-> new, ok |-> TRUE]} \cup (IF Fails("replace") THEN {[file |-> <<>>, ok |-> FALSE]} ELSE {})
WriteAtomic(old, new) ==
    {[file |-> new, ok |-> TRUE]} \cup (IF Fails("replace") THEN {[file |-> old, ok |-> FALSE]} ELSE {})

\* The elements of a sequence at some of its positions, in their order.
Kept(s, at) == [n \in 1..Cardinality(at) |-> s[CHOOSE i \in at : Cardinality({j \in at : j <= i}) = n]]

Readable(file) == Kept(file, {i \in 1..Len(file) : file[i] \notin {Fragment, Corrupt}})

\* What a boot reads back. A line that does not parse is skipped.
LoadWindow(file) == LastN(Readable(file), Cap)

--------------------------------------------------------------------------------
\* Pushing a record: memory first, then the file, then (a verdict) the audit,
\* whose success is what lets the verdict take effect.
PushJob(window, line) ==
    <<Task("append", window, line)>>
      \o (IF window = "history" THEN <<Task("audit", window, line)>> ELSE <<>>)

Remember(window, line) == mem' = [mem EXCEPT ![window] = LastN(Append(@, line), Cap)]

Push(window) ==
    /\ Idle /\ Spend("push")
    /\ written' = written + 1
    /\ Remember(window, Line("record", written + 1))
    /\ job' = PushJob(window, Line("record", written + 1))
    /\ UNCHANGED <<up, disk, audit, trail, cleared>>

AppendStep ==
    /\ NextTask("append")
    /\ LET t == Head(job) IN \E r \in AppendRuntimeLine(disk[t.window], t.line) :
         /\ disk' = [disk EXCEPT ![t.window] = r.file]
         /\ job' = (IF r.ok /\ Len(r.file) > FileMax THEN <<Task("replace", t.window, t.line)>> ELSE <<>>)
                     \o Tail(job)
         /\ Charge(r)
    /\ UNCHANGED <<up, mem, audit, written, trail, cleared>>

\* The file is replaced by the window in memory.
ReplaceStep ==
    /\ NextTask("replace")
    /\ LET w == Head(job).window IN
         \E r \in WriteAtomic(disk[w], mem[w]) : disk' = [disk EXCEPT ![w] = r.file] /\ Charge(r)
    /\ job' = Tail(job)
    /\ UNCHANGED <<up, mem, audit, written, trail, cleared>>

\* The append decides; trimming the file to its tail afterwards never does.
HowAppended(r) == IF r.ok THEN "wrote" ELSE IF r.file = audit THEN "refused" ELSE "torn"
AppendAuditLine(line, r, rest) ==
    /\ Charge(r)
    /\ audit' = r.file
    /\ trail' = Append(trail, [line |-> line, how |-> HowAppended(r)])
    /\ job' = (IF r.ok /\ Len(r.file) > AuditMax THEN <<Task("trim", "audit", line)>> ELSE <<>>) \o rest

AuditStep ==
    /\ NextTask("audit")
    /\ \E r \in AppendRuntimeLine(audit, Head(job).line) : AppendAuditLine(Head(job).line, r, Tail(job))
    /\ UNCHANGED <<up, mem, disk, written, cleared>>

AuditRotateContent(file) == LastN(file, AuditMax)

TrimStep ==
    /\ NextTask("trim")
    /\ \E r \in WriteAtomic(audit, AuditRotateContent(audit)) : audit' = r.file /\ Charge(r)
    /\ job' = Tail(job)
    /\ UNCHANGED <<up, mem, disk, written, trail, cleared>>

--------------------------------------------------------------------------------
\* The clear routes: truncate the file first, answer 500 unless it is seen to be
\* empty, and only then forget the window; clearing the history leaves a
\* tombstone in the audit, whose own failure is ignored.
Truncate(file) ==
    {[file |-> <<>>, ok |-> TRUE]}
    \cup (IF Fails("truncate") THEN {[file |-> file, ok |-> FALSE], [file |-> <<>>, ok |-> FALSE]} ELSE {})

ClearJob(window) ==
    <<Task("forget", window, Line("clear", written))>>
      \o (IF window = "history" THEN <<Task("audit", window, Line("clear", written))>> ELSE <<>>)
      \o <<Task("answer", window, Line("clear", written))>>

\* Faulty variant: the window is cleared and 200 answered whatever the file did.
ClearUnconfirmed(window) ==
    /\ Idle /\ Spend("clear")
    /\ \E r \in Truncate(disk[window]) : disk' = [disk EXCEPT ![window] = r.file]
    /\ job' = ClearJob(window)
    /\ UNCHANGED <<up, mem, audit, written, trail, cleared>>
Clear(window) ==
    /\ Idle /\ Spend("clear")
    /\ \E r \in Truncate(disk[window]) :
         /\ disk' = [disk EXCEPT ![window] = r.file]
         /\ job' = IF r.ok THEN ClearJob(window) ELSE <<>>
    /\ UNCHANGED <<up, mem, audit, written, trail, cleared>>

ForgetStep ==
    /\ NextTask("forget")
    /\ mem' = [mem EXCEPT ![Head(job).window] = <<>>]
    /\ job' = Tail(job)
    /\ UNCHANGED <<up, disk, audit, written, trail, cleared, left>>

AnswerStep ==
    /\ NextTask("answer")
    /\ cleared' = [cleared EXCEPT ![Head(job).window] = Head(job).line.id]
    /\ job' = Tail(job)
    /\ UNCHANGED <<up, mem, disk, audit, written, trail, left>>

--------------------------------------------------------------------------------
\* The process ends between two file operations, and starts again.
CrashStores == up /\ Spend("crash") /\ up' = FALSE /\ job' = <<>> /\ mem' = [w \in Windows |-> <<>>]
LoadRuntimeStores == ~up /\ up' = TRUE /\ mem' = [w \in Windows |-> LoadWindow(disk[w])]

StoresInit ==
    /\ up = TRUE /\ job = <<>> /\ audit = <<>> /\ trail = <<>> /\ written = 0
    /\ mem = [w \in Windows |-> <<>>] /\ disk = [w \in Windows |-> <<>>]
    /\ cleared = [w \in Windows |-> 0]
    /\ left \in Budgets

StoresNext ==
    \/ \E w \in Windows : Push(w) \/ Clear(w)
    \/ AppendStep \/ ReplaceStep \/ AuditStep \/ TrimStep \/ ForgetStep \/ AnswerStep

--------------------------------------------------------------------------------
\* A written line is lost to readers only when the attempt that last moved bytes
\* before it left a fragment for it to join.
Spliced(i) ==
    \E j \in 1..i - 1 : trail[j].how = "torn" /\ \A k \in j + 1..i - 1 : trail[k].how = "refused"
Legible ==
    Kept([i \in 1..Len(trail) |-> trail[i].line],
         {i \in 1..Len(trail) : trail[i].how = "wrote" /\ ~Spliced(i)})

\* The audit never loses, repeats or reorders a line it reported as persisted:
\* what it holds is the tail of the lines written so far, all of them until the
\* cap is reached (audit.ts: the append is the fail-closed gate of every verdict,
\* and trimming, crashes and failed replacements must not take back what it said).
CommittedIsAudited ==
    /\ IsSuffix(Readable(audit), Legible)
    /\ Len(audit) < AuditMax => Readable(audit) = Legible

\* What a confirmed clear covered never comes back, through later pushes, file
\* replacements and restarts (the clear routes of route-installers.ts answer 200
\* only for a clear the next boot does not undo).
ClearedStaysCleared ==
    \A w \in Windows : \A l \in Range(mem[w]) \cup Range(Readable(disk[w])) : l.id > cleared[w]

\* No step but a clear takes a record out of what a boot would load, unless Cap
\* newer ones stand in its place (the replacement writes the window in memory,
\* so a record memory lost earlier would be lost for good by the next one).
ReplacementKeepsTheWindow ==
    [][\A w \in Windows :
         \A l \in Range(LoadWindow(disk[w])) \ Range(LoadWindow(disk'[w])) :
           \/ job = <<>> /\ disk'[w] = <<>>
           \/ /\ Len(LoadWindow(disk'[w])) = Cap
              /\ \A n \in Range(LoadWindow(disk'[w])) : n.id > l.id]_storeVars
=============================================================================

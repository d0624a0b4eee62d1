----------------------------- MODULE KeyedMutex -----------------------------
(***************************************************************************)
(* createKeyedMutex (src/src/auto/decision.ts): a map from a key to the    *)
(* promise of the last critical section asked for.  run(key, fn) chains fn *)
(* after that promise, whether it fulfils or rejects, and publishes its    *)
(* own promise as the new tail; when a tail settles it is pruned, unless a *)
(* later call replaced it.                                                 *)
(*                                                                         *)
(* fn is the read-modify-write the mutex exists for: it reads the counter  *)
(* of its key when it starts and writes the successor when it ends.  The   *)
(* chain awaits a thenable fn, so other tasks may run in between.          *)
(***************************************************************************)
EXTENDS Naturals

CONSTANTS Tasks, Locks, LockOf, NoTask

ASSUME MutexAssumption ==
  /\ LockOf \in [Tasks -> Locks]
  /\ NoTask \notin Tasks

VARIABLES
  status,    \* of the promise run returned, "idle" before the call
  prev,      \* the promise it was chained after
  chains,    \* the tail published for each key
  counter,   \* the state the sections protect
  read,      \* what a section read when it started
  ahead      \* history: the calls of its key made before each call

chainVars == <<status, prev, chains, counter, read, ahead>>

Settled  == {"fulfilled", "rejected"}
PromiseStates == {"idle", "pending", "running"} \cup Settled

ChainInit ==
  /\ status = [t \in Tasks |-> "idle"]
  /\ prev = [t \in Tasks |-> NoTask]
  /\ chains = [k \in Locks |-> NoTask]
  /\ counter = [k \in Locks |-> 0]
  /\ read = [t \in Tasks |-> 0]
  /\ ahead = [t \in Tasks |-> {}]

\* run(key, fn) up to its return.
Run(t) ==
  /\ status[t] = "idle"
  /\ status' = [status EXCEPT ![t] = "pending"]
  /\ prev' = [prev EXCEPT ![t] = chains[LockOf[t]]]
  /\ chains' = [chains EXCEPT ![LockOf[t]] = t]
  /\ ahead' = [ahead EXCEPT ![t] =
                 {u \in Tasks : LockOf[u] = LockOf[t] /\ status[u] # "idle"}]
  /\ UNCHANGED <<counter, read>>

\* Faulty variant: a rejected section breaks the chain.
ReadyIfFulfilled(t) ==
  prev[t] # NoTask => status[prev[t]] = "fulfilled"

\* then(fn, fn): either settlement of the previous promise will do.
Ready(t) == prev[t] # NoTask => status[prev[t]] \in Settled

Start(t) ==
  /\ status[t] = "pending" /\ Ready(t)
  /\ status' = [status EXCEPT ![t] = "running"]
  /\ read' = [read EXCEPT ![t] = counter[LockOf[t]]]
  /\ UNCHANGED <<prev, chains, counter, ahead>>

Finish(t) ==
  /\ status[t] = "running"
  /\ \/ /\ status' = [status EXCEPT ![t] = "fulfilled"]
        /\ counter' = [counter EXCEPT ![LockOf[t]] = read[t] + 1]
     \/ /\ status' = [status EXCEPT ![t] = "rejected"]
        /\ UNCHANGED counter
  /\ UNCHANGED <<prev, chains, read, ahead>>

\* Faulty variant: the tail is dropped without asking whose it is.
PrunableAnyTail(t) == status[t] \in Settled /\ chains[LockOf[t]] # NoTask

Prunable(t) == status[t] \in Settled /\ chains[LockOf[t]] = t

\* The finally handler.
Prune(t) ==
  /\ Prunable(t)
  /\ chains' = [chains EXCEPT ![LockOf[t]] = NoTask]
  /\ UNCHANGED <<status, prev, counter, read, ahead>>

ChainNext == \E t \in Tasks : Run(t) \/ Start(t) \/ Finish(t) \/ Prune(t)

ChainSpec == ChainInit /\ [][ChainNext]_chainVars

\* Promise jobs run, and a critical section ends ("callbacks must not await a
\* long operation").
ChainFairness ==
  \A t \in Tasks : WF_chainVars(Start(t)) /\ WF_chainVars(Finish(t)) /\ WF_chainVars(Prune(t))

-----------------------------------------------------------------------------
\* Every piece of state has its type.
ChainTypeOK ==
  /\ status \in [Tasks -> PromiseStates]
  /\ prev \in [Tasks -> Tasks \cup {NoTask}]
  /\ chains \in [Locks -> Tasks \cup {NoTask}]
  /\ counter \in [Locks -> Nat]
  /\ read \in [Tasks -> Nat]
  /\ ahead \in [Tasks -> SUBSET Tasks]

\* "ahead" orders the calls of a key totally, and a call that started has only
\* settled calls ahead of it.
AheadOrdered ==
  /\ \A t \in Tasks : status[t] = "idle" => ahead[t] = {}
  /\ \A t \in Tasks : \A u \in ahead[t] :
       /\ LockOf[u] = LockOf[t] /\ u # t
       /\ status[u] # "idle" /\ t \notin ahead[u]
       /\ status[t] \notin {"idle", "pending"} => status[u] \in Settled
  /\ \A t, u \in Tasks :
       /\ LockOf[t] = LockOf[u] /\ t # u
       /\ status[t] # "idle" /\ status[u] # "idle"
       => t \in ahead[u] \/ u \in ahead[t]

\* A call is chained after the latest of the calls ahead of it, or after nothing
\* once all of them are settled.
LinksFollowOrder ==
  \A t \in Tasks : status[t] # "idle" =>
    IF prev[t] = NoTask THEN \A u \in ahead[t] : status[u] \in Settled
    ELSE prev[t] \in ahead[t] /\ ahead[t] = ahead[prev[t]] \cup {prev[t]}

\* The published tail is the latest call of its key; a key without one has
\* nothing left to wait for.
TailIsLatest ==
  \A t \in Tasks :
    LET tail == chains[LockOf[t]] IN
    IF tail = NoTask THEN status[t] \in {"idle"} \cup Settled
    ELSE /\ LockOf[tail] = LockOf[t] /\ status[tail] # "idle"
         /\ status[t] # "idle" => t \in ahead[tail] \cup {tail}

\* The chain remembers the whole order of arrival although each link knows one
\* neighbour and the map only the last link.
ChainInv == AheadOrdered /\ LinksFollowOrder /\ TailIsLatest

\* Two critical sections of one key never overlap, through any pruning and any
\* rejected section in between.
MutualExclusion ==
  \A t, u \in Tasks :
    /\ status[t] = "running" /\ status[u] = "running" /\ LockOf[t] = LockOf[u]
    => t = u

\* "Lost-update race after an await": what a running section read is still the
\* value of its counter.
NoLostUpdate ==
  \A t \in Tasks : status[t] = "running" => read[t] = counter[LockOf[t]]

\* The sections run in order of arrival and one at a time: the promise chain
\* implements the lock.
Phase == [t \in Tasks |->
  CASE status[t] = "idle"    -> "out"
    [] status[t] = "pending" -> "waiting"
    [] status[t] = "running" -> "inside"
    [] OTHER                 -> "left"]

Lock == INSTANCE FifoLock WITH phase <- Phase

ImplementsFifoLock == Lock!Spec

\* No section waits for ever, not even behind one that rejected.
EverySectionRuns == \A t \in Tasks : (status[t] = "pending") ~> (status[t] \in Settled)

\* The chain map is pruned when the last section of a key settles.
ChainsDrain ==
  \A k \in Locks : (chains[k] # NoTask) ~> (chains[k] = NoTask)

\* A section that rejects takes nothing with it: every section behind it still
\* runs, and the chain it was part of is let go.
SectionsComplete == EverySectionRuns /\ ChainsDrain
=============================================================================

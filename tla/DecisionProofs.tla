--------------------------- MODULE DecisionProofs ---------------------------
(***************************************************************************)
(* What decision.ts promises, for every value of the constants.            *)
(*                                                                         *)
(* createKeyedMutex: the promise chain keeps the order of arrival          *)
(* (ChainInv, inductive together with ChainTypeOK), so sections of one key *)
(* never overlap, no update is lost, and the chain implements FifoLock.    *)
(*                                                                         *)
(* raceHumanDecision: over the queue of promise jobs (RaceInv) a raced     *)
(* approval is a one-shot decision with an honest label, and the notices   *)
(* an agent is told beside it (NoticeInv) are of its calls, once each.     *)
(***************************************************************************)
EXTENDS KeyedMutex, AskNotices, TLAPS
LOCAL INSTANCE SequencesExt

(* The keyed mutex *)

IInv == ChainTypeOK /\ ChainInv /\ NoLostUpdate

USE DEF Settled, PromiseStates

LEMMA InitInv == ChainInit => IInv
BY MutexAssumption DEF ChainInit, IInv, ChainTypeOK, ChainInv, AheadOrdered, LinksFollowOrder,
                      TailIsLatest, NoLostUpdate

\* Sections of one key that are both running would each be settled for the
\* other.
LEMMA ChainExcludes == ChainTypeOK /\ ChainInv => MutualExclusion
BY DEF ChainTypeOK, ChainInv, AheadOrdered, MutualExclusion

LEMMA RunInv == ASSUME NEW t \in Tasks, IInv, Run(t) PROVE IInv'
<1>. USE MutexAssumption DEF IInv, Run
<1>. DEFINE k == LockOf[t]
            tail == chains[k]
            earlier == {u \in Tasks : LockOf[u] = k /\ status[u] # "idle"}
<1>1. ChainTypeOK'
  BY DEF ChainTypeOK
<1>2. AheadOrdered'
  BY DEF ChainTypeOK, ChainInv, AheadOrdered, LinksFollowOrder
<1>3. /\ ahead' = [ahead EXCEPT ![t] = earlier] /\ t \notin earlier
      /\ prev' = [prev EXCEPT ![t] = tail]
      /\ chains' = [chains EXCEPT ![k] = t]
      /\ status' = [status EXCEPT ![t] = "pending"]
  OBVIOUS
<1>4. IF tail = NoTask THEN \A u \in earlier : status[u] \in Settled
      ELSE tail \in earlier /\ earlier = ahead[tail] \cup {tail}
  <2>1. CASE tail = NoTask
    <3>1. ASSUME NEW u \in earlier PROVE status[u] \in Settled
      BY <2>1, <3>1 DEF ChainTypeOK, ChainInv, TailIsLatest
    <3>. QED BY <2>1, <3>1
  <2>2. CASE tail # NoTask
    <3>1. tail \in Tasks /\ k \in Locks
      BY <2>2 DEF ChainTypeOK
    <3>2. LockOf[tail] = k /\ status[tail] # "idle"
      BY <2>2 DEF ChainInv, TailIsLatest
    <3>3. ASSUME NEW u \in earlier PROVE u \in ahead[tail] \cup {tail}
      BY <2>2, <3>3 DEF ChainInv, TailIsLatest
    <3>4. ASSUME NEW u \in ahead[tail] PROVE u \in earlier
      BY <3>1, <3>2, <3>4 DEF ChainTypeOK, ChainInv, AheadOrdered
    <3>. QED BY <2>2, <3>1, <3>2, <3>3, <3>4
  <2>. QED BY <2>1, <2>2
<1>5. LinksFollowOrder'
  <2>1. ASSUME NEW u \in Tasks, status'[u] # "idle" PROVE
          IF prev'[u] = NoTask THEN \A w \in ahead'[u] : status'[w] \in Settled
          ELSE prev'[u] \in ahead'[u] /\ ahead'[u] = ahead'[prev'[u]] \cup {prev'[u]}
    <3>1. CASE u = t
      BY <3>1, <1>3, <1>4 DEF ChainTypeOK
    <3>2. CASE u # t
      BY <3>2, <2>1, <1>3 DEF ChainTypeOK, ChainInv, LinksFollowOrder, AheadOrdered
    <3>. QED BY <3>1, <3>2
  <2>. QED BY <2>1 DEF LinksFollowOrder
<1>6. TailIsLatest'
  <2>1. ASSUME NEW u \in Tasks, LockOf[u] = k
        PROVE chains'[LockOf[u]] = t /\ (status'[u] # "idle" => u \in ahead'[t] \cup {t})
    <3>1. chains'[k] = t /\ ahead'[t] = earlier
      BY <1>3 DEF ChainTypeOK
    <3>2. CASE u = t
      BY <2>1, <3>1, <3>2
    <3>3. CASE u # t
      <4>1. status'[u] = status[u]
        BY <1>3, <3>3 DEF ChainTypeOK
      <4>. QED BY <2>1, <3>1, <4>1
    <3>. QED BY <3>2, <3>3
  <2>2. ASSUME NEW u \in Tasks, LockOf[u] # k, chains[LockOf[u]] = NoTask
        PROVE chains'[LockOf[u]] = NoTask /\ status'[u] \in {"idle"} \cup Settled
    BY <2>2, <1>3 DEF ChainTypeOK, ChainInv, TailIsLatest
  <2>3. ASSUME NEW u \in Tasks, LockOf[u] # k, chains[LockOf[u]] # NoTask
        PROVE /\ chains'[LockOf[u]] = chains[LockOf[u]]
              /\ LockOf[chains[LockOf[u]]] = LockOf[u]
              /\ chains[LockOf[u]] \in Tasks \ {t}
              /\ status'[chains[LockOf[u]]] # "idle"
              /\ status'[u] # "idle" => u \in ahead'[chains[LockOf[u]]] \cup {chains[LockOf[u]]}
    <3>. DEFINE v == chains[LockOf[u]]
    <3>1. v \in Tasks /\ LockOf[u] \in Locks /\ chains'[LockOf[u]] = v
      <4>1. LockOf[u] \in Locks /\ k \in Locks
        OBVIOUS
      <4>2. v \in Tasks
        BY <2>3, <4>1 DEF ChainTypeOK
      <4>3. chains' = [chains EXCEPT ![k] = t] /\ chains \in [Locks -> Tasks \cup {NoTask}]
        BY <1>3 DEF ChainTypeOK
      <4>. QED BY <4>1, <4>2, <4>3, <2>3
    <3>2. /\ LockOf[v] = LockOf[u] /\ status[v] # "idle"
          /\ status[u] # "idle" => u \in ahead[v] \cup {v}
      BY <2>3 DEF ChainInv, TailIsLatest
    <3>3. v # t /\ u # t
      BY <2>3, <3>2
    <3>. HIDE DEF v
    <3>4. status'[v] = status[v] /\ ahead'[v] = ahead[v] /\ status'[u] = status[u]
      BY <3>1, <3>3, <1>3 DEF ChainTypeOK
    <3>. QED BY <3>1, <3>2, <3>3, <3>4 DEF v
  <2>4. LockOf[t] = k /\ status'[t] # "idle"
    BY <1>3 DEF ChainTypeOK
  <2>. QED BY <2>1, <2>2, <2>3, <2>4 DEF TailIsLatest
<1>7. NoLostUpdate'
  BY DEF ChainTypeOK, NoLostUpdate
<1>. QED BY <1>1, <1>2, <1>5, <1>6, <1>7 DEF ChainInv

LEMMA StartInv == ASSUME NEW t \in Tasks, IInv, Start(t) PROVE IInv'
<1>. USE MutexAssumption DEF IInv, Start
<1>1. ChainTypeOK'
  BY DEF ChainTypeOK
<1>2. AheadOrdered'
  BY DEF ChainTypeOK, ChainInv, AheadOrdered, LinksFollowOrder, Ready
<1>3. LinksFollowOrder'
  BY DEF ChainTypeOK, ChainInv, AheadOrdered, LinksFollowOrder, TailIsLatest
<1>4. TailIsLatest'
  BY DEF ChainTypeOK, ChainInv, AheadOrdered, TailIsLatest
<1>5. NoLostUpdate'
  BY DEF ChainTypeOK, NoLostUpdate
<1>. QED BY <1>1, <1>2, <1>3, <1>4, <1>5 DEF ChainInv

LEMMA FinishInv == ASSUME NEW t \in Tasks, IInv, Finish(t) PROVE IInv'
<1>. USE MutexAssumption DEF IInv, Finish
<1>1. ChainTypeOK'
  BY DEF ChainTypeOK
<1>2. AheadOrdered'
  BY DEF ChainTypeOK, ChainInv, AheadOrdered, LinksFollowOrder
<1>6. /\ \A u \in Tasks : status'[u] = "idle" <=> status[u] = "idle"
      /\ \A u \in Tasks : status[u] \in Settled => status'[u] \in Settled
      /\ UNCHANGED <<prev, chains, ahead>>
  BY DEF ChainTypeOK, Settled
<1>7. /\ prev \in [Tasks -> Tasks \cup {NoTask}]
      /\ ahead \in [Tasks -> SUBSET Tasks]
      /\ chains \in [Locks -> Tasks \cup {NoTask}]
  BY DEF ChainTypeOK
<1>3. LinksFollowOrder'
  <2>. USE <1>6, <1>7
  <2>. HIDE DEF Finish, Settled
  <2>. QED BY DEF ChainInv, LinksFollowOrder
<1>4. TailIsLatest'
  <2>. USE <1>6, <1>7
  <2>. HIDE DEF Finish, Settled
  <2>. QED BY DEF ChainInv, TailIsLatest
<1>5. NoLostUpdate'
  BY ChainExcludes DEF ChainTypeOK, NoLostUpdate, MutualExclusion
<1>. QED BY <1>1, <1>2, <1>3, <1>4, <1>5 DEF ChainInv

LEMMA PruneInv == ASSUME NEW t \in Tasks, IInv, Prune(t) PROVE IInv'
<1>. USE MutexAssumption DEF IInv, Prune, Prunable
<1>1. ChainTypeOK'
  BY DEF ChainTypeOK
<1>2. AheadOrdered'
  BY DEF ChainTypeOK, ChainInv, AheadOrdered, LinksFollowOrder
<1>3. LinksFollowOrder'
  BY DEF ChainTypeOK, ChainInv, AheadOrdered, LinksFollowOrder, TailIsLatest
<1>4. TailIsLatest'
  BY DEF ChainTypeOK, ChainInv, AheadOrdered, TailIsLatest
<1>5. NoLostUpdate'
  BY DEF ChainTypeOK, NoLostUpdate
<1>. QED BY <1>1, <1>2, <1>3, <1>4, <1>5 DEF ChainInv

LEMMA InvHolds == ChainSpec => []IInv
<1>1. ChainInit => IInv
  BY InitInv
<1>2. IInv /\ [ChainNext]_chainVars => IInv'
  <2>. SUFFICES ASSUME IInv, [ChainNext]_chainVars PROVE IInv'
    OBVIOUS
  <2>1. CASE UNCHANGED chainVars
    BY <2>1 DEF IInv, ChainTypeOK, ChainInv, AheadOrdered, LinksFollowOrder, TailIsLatest,
                NoLostUpdate, chainVars
  <2>2. CASE ChainNext
    BY <2>2, RunInv, StartInv, FinishInv, PruneInv DEF ChainNext
  <2>. QED BY <2>1, <2>2
<1>. QED BY <1>1, <1>2, PTL DEF ChainSpec

\* The chain keeps the order of arrival through every call, settlement and
\* pruning.
THEOREM ChainKeepsOrder == ChainSpec => []ChainInv
BY InvHolds, PTL DEF IInv

\* "The same key runs strictly in order" (decision.ts): critical sections of one
\* key never overlap.
THEOREM SectionsExclude == ChainSpec => []MutualExclusion
BY InvHolds, ChainExcludes, PTL DEF IInv

\* The lost-update race the mutex exists for cannot happen.
THEOREM UpdatesKept == ChainSpec => []NoLostUpdate
BY InvHolds, PTL DEF IInv

\* Every step of the chain is a step of the first-in first-out lock, or none of
\* its business.
THEOREM ChainImplementsLock == ChainSpec => ImplementsFifoLock
<1>1. ChainInit => Lock!Init
  BY DEF ChainInit, Lock!Init, Phase
<1>2. IInv /\ [ChainNext]_chainVars => [Lock!Next]_(Lock!vars)
  <2>. SUFFICES ASSUME IInv, [ChainNext]_chainVars PROVE [Lock!Next]_(Lock!vars)
    OBVIOUS
  <2>. USE DEF IInv, Lock!vars
  <2>1. CASE UNCHANGED chainVars
    BY <2>1 DEF chainVars, Phase
  <2>2. ASSUME NEW t \in Tasks, Run(t) PROVE Lock!Arrive(t)
    BY <2>2 DEF ChainTypeOK, Run, Lock!Arrive, Phase
  <2>3. ASSUME NEW t \in Tasks, Start(t) PROVE Lock!Enter(t)
    <3>1. \A u \in ahead[t] : u \in Tasks /\ status[u] \in Settled
      BY <2>3, MutexAssumption
         DEF ChainTypeOK, ChainInv, AheadOrdered, LinksFollowOrder, Start, Ready
    <3>2. \A u \in ahead[t] : Phase[u] = "left"
      BY <3>1 DEF Phase
    <3>3. Phase[t] = "waiting" /\ Phase' = [Phase EXCEPT ![t] = "inside"]
      BY <2>3 DEF ChainTypeOK, Start, Phase
    <3>. QED BY <2>3, <3>2, <3>3 DEF Start, Lock!Enter
  <2>4. ASSUME NEW t \in Tasks, Finish(t) PROVE Lock!Leave(t)
    BY <2>4 DEF ChainTypeOK, Finish, Lock!Leave, Phase
  <2>5. ASSUME NEW t \in Tasks, Prune(t) PROVE UNCHANGED Lock!vars
    BY <2>5 DEF Prune, Phase
  <2>. QED BY <2>1, <2>2, <2>3, <2>4, <2>5 DEF ChainNext, Lock!Next
<1>. QED BY <1>1, <1>2, InvHolds, PTL DEF ChainSpec, Lock!Spec, ImplementsFifoLock

-----------------------------------------------------------------------------
(* The race *)

Values == Outcomes \cup {"error", Nothing}
Kinds  == {"delegate", "opened", "claim", "tagNext", "tagRace", "raceNext", "raceRace", "return"}
JobSet == [do : Kinds, value : Values, hops : Nat]
Open   == returned = Pending

RaceTypeOK ==
  /\ jobs \in Seq(JobSet)
  /\ gate \in {"none", "held", "released", "cancelled"}
  /\ next \in {"uncalled", "pending", "settled"}
  /\ reviewer \in {"working", "done"}
  /\ onTimeout \in Outcomes
  /\ timer \in {"armed", "fired", "cleared"}
  /\ timedOut \in BOOLEAN /\ claimed \in BOOLEAN /\ finishedByNext \in BOOLEAN
  /\ raced \in Outcomes \cup {Nothing}
  /\ won \in [via : {"none", "next", "race"}, value : Values]
  /\ returned \in [outcome : Values, timedOut : BOOLEAN, claimed : BOOLEAN]
  /\ noticed \in BOOLEAN /\ forwarded \in BOOLEAN

\* What the delegated approval settles with was said by the panel, or is the
\* error of a cancellation.
SaidByNext(value) ==
  IF value = "error" THEN <<"cancelled", "error">> \in spoken
  ELSE value \in Outcomes /\ <<"panel", value>> \in spoken

\* A job carries what its event said, and the one that returns is due only
\* while nothing has been returned.
JobOK(i) == LET job == jobs[i] IN
  /\ job.do = "delegate" => Open /\ Len(jobs) = 1
  /\ job.do = "opened" => gate \in {"released", "cancelled"}
  /\ job.do = "claim" =>
       reviewer = "done" /\ job.value \in Outcomes /\ <<"claim", job.value>> \in spoken
  /\ job.do \in {"tagNext", "raceNext"} => (Open => SaidByNext(job.value))
  /\ job.do = "raceNext" => finishedByNext
  /\ job.do \in {"tagRace", "raceRace"} => raced # Nothing /\ job.value = raced
  /\ job.do = "return" => Open /\ won # NoArm

JobsOK == \A i \in 1..Len(jobs) : JobOK(i)

\* The answer of the reviewer and the return of the race are queued once.
Single(do) == \A i, j \in 1..Len(jobs) : jobs[i].do = do /\ jobs[j].do = do => i = j

GateOK ==
  /\ gate = "cancelled" => ~Open
  /\ ~Open => gate \in {"none", "cancelled"}

\* The arm that won carries what its side said.
WonOK ==
  \/ won = NoArm /\ Open
  \/ won.via = "next" /\ finishedByNext /\ (Open => SaidByNext(won.value))
  \/ won.via = "race" /\ raced # Nothing /\ won.value = raced

\* While the decision is open, the promise of the race was resolved by the side
\* the flags name ...
RacedOK ==
  Open /\ raced # Nothing =>
    IF timedOut THEN ~claimed /\ <<"host", raced>> \in spoken
    ELSE claimed /\ <<"claim", raced>> \in spoken

\* ... and an expired countdown has the queue for itself until the race returns.
ExpiryOK ==
  Open /\ timedOut =>
    /\ raced # Nothing /\ timer = "fired" /\ Len(jobs) = 1
    /\ \/ jobs[1].do \in {"tagRace", "raceRace"} /\ won = NoArm
       \/ jobs[1].do = "return" /\ won.via = "race"

TimerOK ==
  /\ Open => (noticed <=> timedOut) /\ (claimed => timer # "armed")
  /\ NoticeMeansTimeout /\ TimerDisarmed

RaceInv ==
  /\ RaceTypeOK /\ JobsOK /\ Single("claim") /\ Single("return")
  /\ GateOK /\ WonOK /\ RacedOK /\ ExpiryOK /\ TimerOK

\* The queue without its first job.
LEMMA Rests ==
  ASSUME RaceTypeOK, ~Idle
  PROVE  /\ Len(jobs) \in Nat \ {0} /\ Head(jobs) = jobs[1] /\ Head(jobs) \in JobSet
         /\ Tail(jobs) \in Seq(JobSet) /\ Len(Tail(jobs)) = Len(jobs) - 1
         /\ \A i \in 1..Len(Tail(jobs)) :
              Tail(jobs)[i] = jobs[i + 1] /\ i + 1 \in 1..Len(jobs)
BY DEF RaceTypeOK, Idle

\* ... and with one more at its end.
LEMMA Moves ==
  ASSUME RaceTypeOK, ~Idle, NEW j \in JobSet
  PROVE  /\ Append(Tail(jobs), j) \in Seq(JobSet) /\ Len(Append(Tail(jobs), j)) = Len(jobs)
         /\ \A i \in 1..Len(jobs) :
              Append(Tail(jobs), j)[i] = IF i = Len(jobs) THEN j ELSE jobs[i + 1]
<1>. DEFINE q == Tail(jobs)
<1>1. q \in Seq(JobSet) /\ Len(q) = Len(jobs) - 1 /\ Len(jobs) \in Nat
      /\ \A i \in 1..Len(q) : q[i] = jobs[i + 1]
  BY Rests
<1>. HIDE DEF q
<1>2. /\ Append(q, j) \in Seq(JobSet) /\ Len(Append(q, j)) = Len(q) + 1
      /\ \A i \in 1..(Len(q) + 1) : Append(q, j)[i] = IF i = Len(q) + 1 THEN j ELSE q[i]
  BY <1>1
<1>3. ASSUME NEW i \in 1..Len(jobs)
      PROVE  Append(q, j)[i] = IF i = Len(jobs) THEN j ELSE jobs[i + 1]
  BY <1>1, <1>2
<1>4. Len(Append(q, j)) = Len(jobs)
  BY <1>1, <1>2
<1>5. /\ Append(q, j) \in Seq(JobSet) /\ Len(Append(q, j)) = Len(jobs)
      /\ \A i \in 1..Len(jobs) : Append(q, j)[i] = IF i = Len(jobs) THEN j ELSE jobs[i + 1]
  BY <1>2, <1>3, <1>4
<1>. QED BY <1>5, Zenon DEF q

LEMMA Jobs ==
  ASSUME NEW do \in Kinds, NEW value \in Values
  PROVE  Job(do, value, 0) \in JobSet /\ Job(do, value, 0).do = do
         /\ Job(do, value, 0).value = value
BY DEF Job, JobSet

LEMMA RaceInitInv == Init => RaceInv
<1>. SUFFICES ASSUME Init PROVE RaceInv
  OBVIOUS
<1>1. Job("delegate", Nothing, 0) \in JobSet /\ Job("delegate", Nothing, 0).do = "delegate"
  BY DEF Job, JobSet, Kinds, Values
<1>2. /\ jobs \in Seq(JobSet) /\ Len(jobs) = 1 /\ jobs[1].do = "delegate"
  BY <1>1 DEF Init
<1>3. RaceTypeOK
  BY <1>2, RaceAssumption DEF Init, RaceTypeOK, NoArm, Pending, Values, Outcomes
<1>4. Open /\ won = NoArm /\ raced = Nothing /\ ~timedOut /\ ~claimed /\ ~noticed
  BY DEF Init, Open
<1>5. JobsOK /\ Single("claim") /\ Single("return")
  BY <1>2, <1>4 DEF JobsOK, JobOK, Single
<1>6. GateOK /\ WonOK /\ RacedOK /\ ExpiryOK /\ TimerOK
  BY <1>4 DEF Init, GateOK, WonOK, RacedOK, ExpiryOK, TimerOK, NoticeMeansTimeout, TimerDisarmed,
              Open, Pending
<1>. QED BY <1>3, <1>5, <1>6 DEF RaceInv

\* Removing the first job, or moving it to the end, disturbs nothing.
LEMMA QuietInv ==
  ASSUME RaceInv, ~Idle, NEW j \in JobSet,
         j.do = Head(jobs).do /\ j.value = Head(jobs).value,
         \/ Quiet(Tail(jobs)) /\ (Open => ~timedOut)
         \/ Quiet(Append(Tail(jobs), j))
  PROVE  RaceInv'
<1>. USE DEF RaceInv
<1>1. UNCHANGED <<outer, timer, flags, raced, won, returned, seen>>
  BY DEF Quiet
<1>2. jobs' = Tail(jobs) \/ jobs' = Append(Tail(jobs), j)
  BY DEF Quiet
<1>. DEFINE at(i) == IF i = Len(jobs) THEN 1 ELSE i + 1
<1>3. /\ jobs' \in Seq(JobSet) /\ Len(jobs) \in Nat \ {0} /\ Len(jobs') \in Nat
      /\ Len(jobs') <= Len(jobs) /\ Len(jobs') >= Len(jobs) - 1
      /\ \A i \in 1..Len(jobs') : /\ at(i) \in 1..Len(jobs)
                                  /\ jobs'[i].do = jobs[at(i)].do
                                  /\ jobs'[i].value = jobs[at(i)].value
  <2>1. CASE jobs' = Tail(jobs)
    BY <2>1, Rests
  <2>2. CASE jobs' = Append(Tail(jobs), j)
    <3>1. Len(jobs') = Len(jobs) /\ jobs' \in Seq(JobSet)
      BY <2>2, Rests, Moves
    <3>2. \A i \in 1..Len(jobs) : jobs'[i] = IF i = Len(jobs) THEN j ELSE jobs[i + 1]
      BY <2>2, Moves
    <3>3. ASSUME NEW i \in 1..Len(jobs')
          PROVE  at(i) \in 1..Len(jobs) /\ jobs'[i].do = jobs[at(i)].do
                 /\ jobs'[i].value = jobs[at(i)].value
      <4>1. CASE i = Len(jobs)
        BY <4>1, <3>1, <3>2, Rests
      <4>2. CASE i # Len(jobs)
        BY <4>2, <3>1, <3>2, Rests
      <4>. QED BY <4>1, <4>2
    <3>. QED BY <3>1, <3>3, Rests
  <2>. QED BY <1>2, <2>1, <2>2
<1>4. RaceTypeOK'
  BY <1>1, <1>3 DEF RaceTypeOK, outer, flags, seen
<1>5. ASSUME NEW do \in {"claim", "return"} PROVE Single(do)'
  <2>. SUFFICES ASSUME NEW i \in 1..Len(jobs'), NEW k \in 1..Len(jobs'),
                       jobs'[i].do = do, jobs'[k].do = do
                PROVE  i = k
    BY DEF Single
  <2>1. Single(do)
    OBVIOUS
  <2>2. at(i) = at(k)
    <3>. HIDE DEF at
    <3>. QED BY <1>3, <2>1 DEF Single
  <2>3. i \in Nat /\ k \in Nat
    BY <1>3
  <2>. QED BY <1>3, <2>2, <2>3
<1>6. JobsOK'
  <2>. SUFFICES ASSUME NEW i \in 1..Len(jobs') PROVE JobOK(i)'
    BY DEF JobsOK
  <2>1. PICK k \in 1..Len(jobs) : jobs'[i].do = jobs[k].do /\ jobs'[i].value = jobs[k].value
    <3>. HIDE DEF at
    <3>. QED BY <1>3
  <2>2. JobOK(k) /\ jobs[k] \in JobSet
    BY DEF JobsOK, RaceTypeOK
  <2>3. Len(jobs) = 1 => Len(jobs') = 1
    <3>1. Len(jobs') \in Nat /\ Len(jobs) \in Nat /\ Len(jobs') <= Len(jobs)
      BY <1>3
    <3>2. i \in Nat /\ 1 <= i /\ i <= Len(jobs')
      BY <3>1
    <3>. DEFINE m == Len(jobs)
                n == Len(jobs')
    <3>3. m \in Nat /\ n \in Nat /\ n <= m /\ 1 <= n
      BY <3>1, <3>2
    <3>. HIDE DEF m, n
    <3>4. m = 1 => n = 1
      BY <3>3
    <3>. QED BY <3>4 DEF m, n
  <2>4. UNCHANGED <<returned, gate, reviewer, spoken, finishedByNext, raced, won>>
    BY <1>1 DEF outer, flags, seen
  <2>. DEFINE d == jobs[k].do
              v == jobs[k].value
  <2>5. jobs'[i].do = d /\ jobs'[i].value = v
    BY <2>1
  <2>. HIDE DEF d, v
  <2>. QED BY <2>2, <2>3, <2>4, <2>5 DEF JobOK, SaidByNext, Open, d, v
<1>7. GateOK' /\ WonOK' /\ RacedOK' /\ TimerOK'
  BY <1>1 DEF GateOK, WonOK, RacedOK, TimerOK, NoticeMeansTimeout, TimerDisarmed, Open, SaidByNext,
              outer, flags, seen
<1>8. ExpiryOK'
  <2>. SUFFICES ASSUME Open', timedOut' PROVE ExpiryOK'
    BY DEF ExpiryOK
  <2>1. Open /\ timedOut /\ raced' = raced /\ timer' = timer /\ won' = won
    BY <1>1 DEF Open, outer, flags, seen
  <2>2. Len(jobs) = 1 /\ jobs[1].do \in {"tagRace", "raceRace", "return"}
    BY <2>1 DEF ExpiryOK
  <2>3. jobs' = Append(Tail(jobs), j)
    BY <2>1, <1>2 DEF Quiet
  <2>4. Len(jobs') = 1 /\ at(1) = 1
    BY <2>2, <2>3, Rests, Moves
  <2>5. jobs'[1].do = jobs[1].do
    BY <1>3, <2>4
  <2>. HIDE DEF at
  <2>. QED BY <2>1, <2>2, <2>4, <2>5 DEF ExpiryOK, outer, flags, seen
<1>. QED BY <1>4, <1>5, <1>6, <1>7, <1>8

\* What a job that runs to its end leaves behind: the rest of the queue, or that
\* and one new job.
Popped    == jobs' = Tail(jobs)
Pushed(j) == jobs' = Append(Tail(jobs), j)

LEMMA PoppedQueue ==
  ASSUME RaceTypeOK, ~Idle, Popped
  PROVE  /\ jobs' \in Seq(JobSet) /\ Len(jobs) \in Nat \ {0} /\ Len(jobs') = Len(jobs) - 1
         /\ \A i \in 1..Len(jobs') : i + 1 \in 1..Len(jobs) /\ jobs'[i] = jobs[i + 1]
BY Rests DEF Popped

LEMMA PushedQueue ==
  ASSUME RaceTypeOK, ~Idle, NEW j \in JobSet, Pushed(j)
  PROVE  /\ jobs' \in Seq(JobSet) /\ Len(jobs) \in Nat \ {0} /\ Len(jobs') = Len(jobs)
         /\ jobs'[Len(jobs)] = j
         /\ \A i \in 1..Len(jobs') :
              i # Len(jobs) => i + 1 \in 1..Len(jobs) /\ jobs'[i] = jobs[i + 1]
<1>1. /\ jobs' \in Seq(JobSet) /\ Len(jobs') = Len(jobs)
      /\ \A i \in 1..Len(jobs) : jobs'[i] = IF i = Len(jobs) THEN j ELSE jobs[i + 1]
  BY Moves, Zenon DEF Pushed
<1>2. Len(jobs) \in Nat \ {0}
  BY Rests
<1>3. ASSUME NEW i \in 1..Len(jobs'), i # Len(jobs)
      PROVE  i + 1 \in 1..Len(jobs) /\ jobs'[i] = jobs[i + 1]
  BY <1>1, <1>2, <1>3
<1>4. jobs'[Len(jobs)] = j
  BY <1>1, <1>2
<1>. QED BY <1>1, <1>2, <1>3, <1>4

\* The other jobs stay good while nothing they rest on is taken back; only the
\* job that returns may close the decision.
Kept ==
  /\ UNCHANGED <<reviewer, spoken>>
  /\ gate \in {"released", "cancelled"} => gate' \in {"released", "cancelled"}
  /\ finishedByNext => finishedByNext'
  /\ raced # Nothing => raced' = raced
  /\ won # NoArm => won' # NoArm
  /\ Open' => Open
  /\ Open /\ Head(jobs).do # "return" => Open'

LEMMA OthersOK ==
  ASSUME RaceInv, ~Idle, Kept, NEW i \in 1..Len(jobs'), i + 1 \in 1..Len(jobs),
         jobs'[i] = jobs[i + 1]
  PROVE  JobOK(i)'
<1>. DEFINE d == jobs[i + 1].do
            v == jobs[i + 1].value
<1>1. JobOK(i + 1)
  BY DEF RaceInv, JobsOK
<1>2. Len(jobs) \in Nat /\ Head(jobs) = jobs[1] /\ 1 \in 1..Len(jobs)
  BY Rests DEF RaceInv
<1>3. d # "delegate"
  BY <1>1, <1>2 DEF JobOK
<1>4. d = "return" => Head(jobs).do # "return"
  BY <1>2 DEF RaceInv, Single
<1>5. jobs'[i].do = d /\ jobs'[i].value = v
  OBVIOUS
<1>. HIDE DEF d, v
<1>. QED BY <1>1, <1>3, <1>4, <1>5 DEF Kept, JobOK, SaidByNext, d, v

LEMMA PoppedJobs ==
  ASSUME RaceInv, ~Idle, Kept, Popped
  PROVE  JobsOK' /\ Single("claim")' /\ Single("return")'
<1>1. /\ Len(jobs) \in Nat \ {0} /\ Len(jobs') = Len(jobs) - 1
      /\ \A i \in 1..Len(jobs') : i + 1 \in 1..Len(jobs) /\ jobs'[i] = jobs[i + 1]
  BY PoppedQueue DEF RaceInv
<1>2. ASSUME NEW i \in 1..Len(jobs') PROVE JobOK(i)'
  BY <1>1, OthersOK
<1>3. ASSUME NEW do, Single(do) PROVE Single(do)'
  <2>. SUFFICES ASSUME NEW i \in 1..Len(jobs'), NEW k \in 1..Len(jobs'),
                       jobs'[i].do = do, jobs'[k].do = do
                PROVE  i = k
    BY DEF Single
  <2>1. i + 1 = k + 1
    BY <1>1, <1>3 DEF Single
  <2>. QED BY <1>1, <2>1
<1>. QED BY <1>2, <1>3 DEF JobsOK, RaceInv

LEMMA PushedJobs ==
  ASSUME RaceInv, ~Idle, Kept, NEW j \in JobSet, Pushed(j), JobOK(Len(jobs))', j.do # "claim",
         j.do = "return" => won = NoArm
  PROVE  JobsOK' /\ Single("claim")' /\ Single("return")'
<1>1. /\ Len(jobs) \in Nat \ {0} /\ Len(jobs') = Len(jobs) /\ jobs'[Len(jobs)] = j
      /\ \A i \in 1..Len(jobs') :
           i # Len(jobs) => i + 1 \in 1..Len(jobs) /\ jobs'[i] = jobs[i + 1]
  BY PushedQueue DEF RaceInv
<1>2. ASSUME NEW i \in 1..Len(jobs'), i # Len(jobs) PROVE JobOK(i)'
  BY <1>1, <1>2, OthersOK
<1>3. ASSUME NEW i \in 1..Len(jobs), jobs[i].do = "return" PROVE j.do # "return"
  BY <1>3 DEF RaceInv, JobsOK, JobOK
<1>4. ASSUME NEW do \in {"claim", "return"} PROVE Single(do)'
  <2>. SUFFICES ASSUME NEW i \in 1..Len(jobs'), NEW k \in 1..Len(jobs'),
                       jobs'[i].do = do, jobs'[k].do = do
                PROVE  i = k
    BY DEF Single
  <2>1. Single(do)
    BY DEF RaceInv
  <2>2. CASE i # Len(jobs) /\ k # Len(jobs)
    <3>1. i + 1 = k + 1
      BY <1>1, <2>1, <2>2 DEF Single
    <3>. QED BY <1>1, <3>1
  <2>3. CASE i = Len(jobs) /\ k # Len(jobs)
    BY <1>1, <1>3, <2>3
  <2>4. CASE i # Len(jobs) /\ k = Len(jobs)
    BY <1>1, <1>3, <2>4
  <2>. QED BY <2>2, <2>3, <2>4
<1>5. JobsOK'
  BY <1>1, <1>2 DEF JobsOK
<1>. QED BY <1>4, <1>5

LEMMA HeadOK ==
  ASSUME RaceInv, ~Idle
  PROVE  /\ Head(jobs) \in JobSet /\ JobOK(1) /\ jobs[1] = Head(jobs)
         /\ Head(jobs).do \notin {"tagRace", "raceRace", "return"} => (Open => ~timedOut)
<1>1. Head(jobs) \in JobSet /\ jobs[1] = Head(jobs) /\ 1 \in 1..Len(jobs)
  BY Rests DEF RaceInv
<1>. QED BY <1>1 DEF RaceInv, JobsOK, ExpiryOK

LEMMA CallNextInv ==
  ASSUME RaceInv, ~Idle, Open => ~timedOut, CallNext(Tail(jobs))
  PROVE  RaceInv'
<1>. USE DEF CallNext
<1>1. Kept /\ Popped
  BY DEF Kept, Popped, flags, Open
<1>2. RaceTypeOK'
  BY <1>1, PoppedQueue DEF RaceInv, RaceTypeOK, flags
<1>3. JobsOK' /\ Single("claim")' /\ Single("return")'
  BY <1>1, PoppedJobs
<1>4. GateOK' /\ WonOK' /\ RacedOK' /\ ExpiryOK' /\ TimerOK'
  BY DEF RaceInv, GateOK, WonOK, RacedOK, ExpiryOK, TimerOK, NoticeMeansTimeout, TimerDisarmed,
         Open, SaidByNext, flags
<1>. QED BY <1>2, <1>3, <1>4 DEF RaceInv

LEMMA DelegateInv ==
  ASSUME RaceInv, ~Idle, Head(jobs).do = "delegate", Delegate(Tail(jobs))
  PROVE  RaceInv'
<1>1. Open => ~timedOut
  BY HeadOK
<1>2. CASE CallNext(Tail(jobs))
  BY <1>1, <1>2, CallNextInv
<1>3. CASE Quiet(Tail(jobs))
  BY <1>1, <1>3, QuietInv, HeadOK
<1>. QED BY <1>2, <1>3 DEF Delegate

LEMMA OpenedInv ==
  ASSUME RaceInv, ~Idle, Head(jobs).do = "opened", Opened(Tail(jobs))
  PROVE  RaceInv'
<1>1. Open => ~timedOut
  BY HeadOK
<1>2. CASE CallNext(Tail(jobs))
  BY <1>1, <1>2, CallNextInv
<1>3. CASE gate = "cancelled" /\ Quiet(Append(Tail(jobs), Job("tagNext", Nothing, 0)))
  <2>. DEFINE j == Job("tagNext", Nothing, 0)
  <2>1. j \in JobSet /\ j.do = "tagNext"
    BY DEF Job, JobSet, Kinds, Values
  <2>. HIDE DEF j
  <2>2. Pushed(j) /\ UNCHANGED <<outer, timer, flags, raced, won, returned, seen>>
    BY <1>3 DEF Quiet, Pushed, j
  <2>3. ~Open
    BY <1>3 DEF RaceInv, GateOK
  <2>4. Kept
    BY <2>2 DEF Kept, Open, outer, flags, seen
  <2>5. jobs' \in Seq(JobSet) /\ jobs'[Len(jobs')] = j
    BY <2>1, <2>2, PushedQueue DEF RaceInv
  <2>6. JobOK(Len(jobs))'
    BY <2>1, <2>2, <2>3, <2>5 DEF JobOK, Open
  <2>7. JobsOK' /\ Single("claim")' /\ Single("return")'
    BY <2>1, <2>2, <2>4, <2>6, PushedJobs
  <2>8. RaceTypeOK'
    BY <2>2, <2>5 DEF RaceInv, RaceTypeOK, outer, flags, seen
  <2>9. GateOK' /\ WonOK' /\ RacedOK' /\ ExpiryOK' /\ TimerOK'
    BY <1>1, <2>2 DEF RaceInv, GateOK, WonOK, RacedOK, ExpiryOK, TimerOK, NoticeMeansTimeout,
                      TimerDisarmed, Open, SaidByNext, outer, flags, seen
  <2>. QED BY <2>7, <2>8, <2>9 DEF RaceInv
<1>. QED
  <2>1. gate = "cancelled" \/ Forwards
    BY DEF Forwards
  <2>. QED BY <1>2, <1>3, <2>1 DEF Opened, Forwards

LEMMA TagNextInv ==
  ASSUME RaceInv, ~Idle, Head(jobs).do = "tagNext", TagNext(Head(jobs).value, Tail(jobs))
  PROVE  RaceInv'
<1>. DEFINE v == Head(jobs).value
            j == Job("raceNext", v, 0)
<1>1. (Open => ~timedOut) /\ v \in Values /\ (Open => SaidByNext(v))
  BY HeadOK DEF JobSet, JobOK
<1>2. j \in JobSet /\ j.do = "raceNext" /\ j.value = v
  BY <1>1 DEF Job, JobSet, Kinds
<1>3. /\ Pushed(j) /\ finishedByNext'
      /\ UNCHANGED <<outer, timer, timedOut, claimed, raced, won, returned, seen>>
  BY DEF TagNext, Pushed
<1>. HIDE DEF j, v
<1>4. Kept
  BY <1>3 DEF Kept, Open, outer, seen
<1>5. jobs' \in Seq(JobSet) /\ jobs'[Len(jobs')] = j
  BY <1>2, <1>3, PushedQueue DEF RaceInv
<1>6. JobOK(Len(jobs))'
  BY <1>1, <1>2, <1>3, <1>5 DEF JobOK, Open, SaidByNext, seen
<1>7. JobsOK' /\ Single("claim")' /\ Single("return")'
  BY <1>2, <1>3, <1>4, <1>6, PushedJobs
<1>8. RaceTypeOK'
  BY <1>3, <1>5 DEF RaceInv, RaceTypeOK, outer, seen
<1>9. GateOK' /\ WonOK' /\ RacedOK' /\ ExpiryOK' /\ TimerOK'
  BY <1>1, <1>3 DEF RaceInv, GateOK, WonOK, RacedOK, ExpiryOK, TimerOK, NoticeMeansTimeout,
                    TimerDisarmed, Open, SaidByNext, outer, seen
<1>. QED BY <1>7, <1>8, <1>9 DEF RaceInv

LEMMA TagRaceInv ==
  ASSUME RaceInv, ~Idle, Head(jobs).do = "tagRace", TagRace(Head(jobs).value, Tail(jobs))
  PROVE  RaceInv'
<1>. DEFINE v == Head(jobs).value
            j == Job("raceRace", v, 0)
<1>1. v \in Values /\ raced # Nothing /\ v = raced
  BY HeadOK DEF JobSet, JobOK
<1>2. j \in JobSet /\ j.do = "raceRace" /\ j.value = v
  BY <1>1 DEF Job, JobSet, Kinds
<1>3. Pushed(j) /\ UNCHANGED <<outer, timer, flags, raced, won, returned, seen>>
  BY DEF TagRace, Quiet, Pushed
<1>. HIDE DEF j, v
<1>4. Kept
  BY <1>3 DEF Kept, Open, outer, flags, seen
<1>5. jobs' \in Seq(JobSet) /\ jobs'[Len(jobs')] = j /\ Len(jobs') = Len(jobs)
  BY <1>2, <1>3, PushedQueue DEF RaceInv
<1>6. JobOK(Len(jobs))'
  BY <1>1, <1>2, <1>3, <1>5 DEF JobOK, Open
<1>7. JobsOK' /\ Single("claim")' /\ Single("return")'
  BY <1>2, <1>3, <1>4, <1>6, PushedJobs
<1>8. RaceTypeOK'
  BY <1>3, <1>5 DEF RaceInv, RaceTypeOK, outer, flags, seen
<1>9. GateOK' /\ WonOK' /\ RacedOK' /\ TimerOK'
  BY <1>1, <1>3 DEF RaceInv, GateOK, WonOK, RacedOK, TimerOK, NoticeMeansTimeout,
                    TimerDisarmed, Open, SaidByNext, outer, flags, seen
<1>10. ExpiryOK'
  <2>. SUFFICES ASSUME Open', timedOut' PROVE ExpiryOK'
    BY DEF ExpiryOK
  <2>1. Open /\ timedOut /\ UNCHANGED <<raced, timer, won>>
    BY <1>3 DEF Open, outer, flags, seen
  <2>2. Len(jobs) = 1 /\ won = NoArm /\ timer = "fired"
    BY <2>1, HeadOK DEF RaceInv, ExpiryOK
  <2>. QED BY <1>1, <1>2, <1>5, <2>1, <2>2 DEF ExpiryOK
<1>. QED BY <1>7, <1>8, <1>9, <1>10 DEF RaceInv

\* The first arm wins; of the countdown, with the queue for itself.
LEMMA WinInv ==
  ASSUME RaceInv, ~Idle, NEW via \in {"next", "race"},
         Head(jobs).do = (IF via = "next" THEN "raceNext" ELSE "raceRace"),
         Race(via, Head(jobs).value, Tail(jobs))
  PROVE  RaceInv'
<1>. DEFINE v == Head(jobs).value
            j == Job("return", Nothing, 0)
<1>1. /\ v \in Values
      /\ via = "next" => finishedByNext /\ (Open => SaidByNext(v)) /\ (Open => ~timedOut)
      /\ via = "race" => raced # Nothing /\ v = raced
  BY HeadOK DEF JobSet, JobOK
<1>2. CASE won # NoArm
  <2>1. Quiet(Tail(jobs))
    BY <1>2 DEF Race
  <2>2. Open => ~timedOut
    <3>1. CASE via = "next"
      BY <3>1, <1>1
    <3>2. CASE via = "race"
      BY <3>2, <1>2, HeadOK DEF RaceInv, ExpiryOK
    <3>. QED BY <3>1, <3>2
  <2>. QED BY <2>1, <2>2, HeadOK, QuietInv
<1>3. CASE won = NoArm
  <2>1. j \in JobSet /\ j.do = "return"
    BY DEF Job, JobSet, Kinds, Values
  <2>2. /\ Pushed(j) /\ won' = [via |-> via, value |-> v]
        /\ UNCHANGED <<outer, timer, flags, raced, returned, seen>>
    BY <1>3 DEF Race, Pushed
  <2>. HIDE DEF j, v
  <2>3. Kept
    BY <2>2, <1>3 DEF Kept, Open, outer, flags, seen
  <2>4. jobs' \in Seq(JobSet) /\ jobs'[Len(jobs')] = j /\ Len(jobs') = Len(jobs)
    BY <2>1, <2>2, PushedQueue DEF RaceInv
  <2>5. won'.via = via /\ won'.value = v /\ won' # NoArm
    BY <2>2 DEF NoArm
  <2>6. Open /\ Open'
    BY <1>3, <2>2 DEF RaceInv, WonOK, Open, NoArm
  <2>7. JobOK(Len(jobs))'
    BY <2>1, <2>4, <2>5, <2>6 DEF JobOK
  <2>8. JobsOK' /\ Single("claim")' /\ Single("return")'
    BY <1>3, <2>1, <2>2, <2>3, <2>7, PushedJobs
  <2>9. RaceTypeOK'
    BY <1>1, <2>2, <2>4 DEF RaceInv, RaceTypeOK, outer, flags, seen
  <2>10. GateOK' /\ RacedOK' /\ TimerOK'
    BY <2>2 DEF RaceInv, GateOK, RacedOK, TimerOK, NoticeMeansTimeout, TimerDisarmed, Open, outer,
                flags, seen
  <2>11. WonOK'
    BY <1>1, <2>2, <2>5, <2>6 DEF WonOK, SaidByNext, flags, seen
  <2>12. ExpiryOK'
    <3>. SUFFICES ASSUME Open', timedOut' PROVE ExpiryOK'
      BY DEF ExpiryOK
    <3>1. timedOut /\ UNCHANGED <<raced, timer>>
      BY <2>2 DEF flags
    <3>2. Len(jobs) = 1 /\ timer = "fired" /\ raced # Nothing
      BY <3>1, <2>6 DEF RaceInv, ExpiryOK
    <3>3. via = "race"
      BY <3>1, <1>1, <2>6
    <3>. QED BY <2>1, <2>4, <2>5, <3>1, <3>2, <3>3 DEF ExpiryOK
  <2>. QED BY <2>8, <2>9, <2>10, <2>11, <2>12 DEF RaceInv
<1>. QED BY <1>2, <1>3

LEMMA ClaimInv ==
  ASSUME RaceInv, ~Idle, Head(jobs).do = "claim", Claim(Head(jobs).value, Tail(jobs))
  PROVE  RaceInv'
<1>. DEFINE v == Head(jobs).value
            j == Job("tagRace", v, 0)
<1>1. /\ v \in Outcomes /\ <<"claim", v>> \in spoken /\ reviewer = "done"
      /\ Open => ~timedOut
  BY HeadOK DEF JobSet, JobOK
<1>2. CASE claimed
  BY <1>2, <1>1, HeadOK, QuietInv DEF Claim
<1>3. CASE ~claimed
  <2>1. /\ claimed' /\ timedOut' = FALSE
        /\ timer' = IF timer = "armed" THEN "cleared" ELSE timer
        /\ UNCHANGED <<outer, finishedByNext, won, returned, seen>>
    BY <1>3 DEF Claim, Settle
  <2>2. Open => raced = Nothing
    BY <1>1, <1>3 DEF RaceInv, RacedOK
  <2>3. /\ raced = Nothing => raced' = v /\ Pushed(j)
        /\ raced # Nothing => raced' = raced /\ Popped
    BY <1>3 DEF Claim, Settle, Pushed, Popped
  <2>. HIDE DEF v
  <2>4. j \in JobSet /\ j.do = "tagRace" /\ j.value = v
    BY <1>1 DEF Job, JobSet, Kinds, Values
  <2>. HIDE DEF j
  <2>5. Kept
    BY <2>1, <2>3 DEF Kept, Open, outer, seen
  <2>6. JobsOK' /\ Single("claim")' /\ Single("return")' /\ jobs' \in Seq(JobSet)
    <3>1. CASE raced = Nothing
      <4>1. jobs' \in Seq(JobSet) /\ jobs'[Len(jobs')] = j /\ Len(jobs') = Len(jobs)
        BY <2>3, <2>4, <3>1, PushedQueue DEF RaceInv
      <4>2. raced' = v /\ v # Nothing
        BY <1>1, <2>3, <3>1 DEF Outcomes, Nothing
      <4>3. JobOK(Len(jobs))'
        BY <2>4, <4>1, <4>2 DEF JobOK
      <4>. QED BY <2>3, <2>4, <2>5, <3>1, <4>1, <4>3, PushedJobs
    <3>2. CASE raced # Nothing
      BY <2>3, <2>5, <3>2, PoppedJobs, PoppedQueue DEF RaceInv
    <3>. QED BY <3>1, <3>2
  <2>7. RaceTypeOK'
    <3>1. raced' \in Outcomes \cup {Nothing}
      BY <1>1, <2>3 DEF RaceInv, RaceTypeOK
    <3>2. timer' \in {"armed", "fired", "cleared"}
      BY <2>1 DEF RaceInv, RaceTypeOK
    <3>3. claimed' \in BOOLEAN /\ timedOut' \in BOOLEAN
      BY <2>1, Zenon
    <3>4. UNCHANGED <<gate, next, reviewer, onTimeout, finishedByNext, won, returned, noticed, forwarded>>
      BY <2>1 DEF outer, seen
    <3>. QED BY <2>6, <3>1, <3>2, <3>3, <3>4 DEF RaceInv, RaceTypeOK
  <2>8. GateOK' /\ ExpiryOK' /\ TimerOK'
    BY <1>1, <2>1 DEF RaceInv, GateOK, ExpiryOK, TimerOK, NoticeMeansTimeout, TimerDisarmed, Open,
                      outer, seen
  <2>9. RacedOK'
    BY <1>1, <2>1, <2>2, <2>3 DEF RacedOK, Open, seen
  <2>10. WonOK'
    BY <2>1, <2>3 DEF RaceInv, WonOK, Open, SaidByNext, seen
  <2>. QED BY <2>6, <2>7, <2>8, <2>9, <2>10 DEF RaceInv
<1>. QED BY <1>2, <1>3

\* The decision is closed on the arm that won, under the label of its side.
LEMMA ReturnInv ==
  ASSUME RaceInv, ~Idle, Head(jobs).do = "return", Return(Tail(jobs))
  PROVE  RaceInv' /\ Open /\ ~Open' /\ <<Label, returned.outcome>>' \in spoken
<1>. USE DEF RaceInv
<1>1. Open /\ won # NoArm
  BY HeadOK DEF JobOK
<1>2. /\ returned' = [outcome |-> won.value, timedOut |-> timedOut, claimed |-> ClaimLabel]
      /\ timer' = IF ClearsTimer /\ timer = "armed" THEN "cleared" ELSE timer
      /\ UNCHANGED <<next, reviewer, onTimeout, flags, raced, won, seen>>
  BY DEF Return
<1>3. /\ returned'.outcome = won.value /\ returned'.timedOut = timedOut
      /\ returned'.claimed = (claimed /\ won.via = "race")
  BY <1>2 DEF ClaimLabel
<1>4. \/ won.via = "next" /\ finishedByNext /\ SaidByNext(won.value)
      \/ won.via = "race" /\ raced # Nothing /\ won.value = raced
  BY <1>1 DEF WonOK
<1>5. won.value # Nothing /\ won.value \in Values
  BY <1>4 DEF SaidByNext, Outcomes, Nothing, RaceTypeOK
<1>6. ~Open'
  BY <1>3, <1>5 DEF Open, Pending
<1>7. timedOut => won.via = "race"
  BY <1>1, HeadOK DEF ExpiryOK
<1>8. <<Label, returned.outcome>>' \in spoken
  <2>1. won.value = "error" => won.via = "next" /\ Label' = "cancelled"
    BY <1>3, <1>4, <1>6 DEF Label, Open, RaceTypeOK, Outcomes
  <2>2. CASE won.via = "next" /\ won.value = "error"
    BY <1>3, <1>4, <2>1, <2>2 DEF SaidByNext
  <2>3. CASE won.via = "next" /\ won.value # "error"
    <3>1. ~timedOut /\ ~returned'.claimed /\ ~returned'.timedOut
      BY <1>3, <1>7, <2>3
    <3>2. Label' = "panel"
      BY <1>3, <1>6, <2>3, <3>1 DEF Label, Open
    <3>. QED BY <1>3, <1>4, <2>3, <3>2 DEF SaidByNext
  <2>4. CASE won.via = "race" /\ timedOut
    <3>1. <<"host", raced>> \in spoken /\ raced \in Outcomes /\ raced # "error"
      BY <1>1, <1>4, <2>4 DEF RacedOK, RaceTypeOK, Outcomes
    <3>2. Label' = "host"
      BY <1>3, <1>4, <1>6, <2>4, <3>1 DEF Label, Open
    <3>. QED BY <1>3, <1>4, <2>4, <3>1, <3>2
  <2>5. CASE won.via = "race" /\ ~timedOut
    <3>1. <<"claim", raced>> \in spoken /\ raced \in Outcomes /\ raced # "error" /\ claimed
      BY <1>1, <1>4, <2>5 DEF RacedOK, RaceTypeOK, Outcomes
    <3>2. Label' = "claim"
      BY <1>3, <1>4, <1>6, <2>5, <3>1 DEF Label, Open
    <3>. QED BY <1>3, <1>4, <2>5, <3>1, <3>2
  <2>. QED BY <1>4, <2>2, <2>3, <2>4, <2>5
<1>9. gate' = (IF gate = "none" THEN "none" ELSE "cancelled")
  BY DEF Return
<1>10. Kept
  BY <1>1, <1>2, <1>6, <1>9 DEF Kept, flags, seen
<1>11. jobs' \in Seq(JobSet) /\ JobsOK' /\ Single("claim")' /\ Single("return")'
  <2>1. CASE gate = "held"
    <3>. DEFINE j == Job("opened", Nothing, 0)
    <3>1. j \in JobSet /\ j.do = "opened" /\ Pushed(j)
      BY <2>1 DEF Job, JobSet, Kinds, Values, Pushed, Return
    <3>. HIDE DEF j
    <3>2. jobs' \in Seq(JobSet) /\ jobs'[Len(jobs')] = j
      BY <3>1, PushedQueue
    <3>3. JobOK(Len(jobs))'
      BY <1>9, <2>1, <3>1, <3>2 DEF JobOK
    <3>. QED BY <1>10, <3>1, <3>2, <3>3, PushedJobs
  <2>2. CASE gate # "held"
    <3>1. Popped
      BY <2>2 DEF Return, Popped
    <3>. QED BY <1>10, <3>1, PoppedJobs, PoppedQueue
  <2>. QED BY <2>1, <2>2
<1>12. RaceTypeOK'
  <2>1. returned' \in [outcome : Values, timedOut : BOOLEAN, claimed : BOOLEAN]
    BY <1>2, <1>5 DEF ClaimLabel, RaceTypeOK
  <2>. QED BY <1>2, <1>9, <1>11, <2>1 DEF RaceTypeOK, flags, seen
<1>13. GateOK' /\ WonOK' /\ RacedOK' /\ ExpiryOK'
  BY <1>1, <1>2, <1>4, <1>6, <1>9 DEF GateOK, WonOK, RacedOK, ExpiryOK, flags
<1>14. TimerOK'
  <2>1. noticed' = noticed /\ (noticed <=> timedOut)
    BY <1>1, <1>2 DEF TimerOK, seen
  <2>2. timer' # "armed"
    BY <1>1, <1>2 DEF TimerOK, ExpiryOK, ClearsTimer
  <2>. QED BY <1>3, <1>6, <2>1, <2>2 DEF TimerOK, NoticeMeansTimeout, TimerDisarmed, Open
<1>. QED BY <1>1, <1>6, <1>8, <1>11, <1>12, <1>13, <1>14

LEMMA RunJobInv == ASSUME RaceInv, RunJob PROVE RaceInv'
<1>. DEFINE job == Head(jobs)
            rest == Tail(jobs)
<1>1. ~Idle /\ job \in JobSet
  BY HeadOK DEF RunJob
<1>2. CASE job.hops > 0
  <2>. DEFINE j == [job EXCEPT !.hops = @ - 1]
  <2>1. j \in JobSet /\ j.do = job.do /\ j.value = job.value
    BY <1>1, <1>2 DEF JobSet
  <2>2. Quiet(Append(rest, j))
    BY <1>2 DEF RunJob
  <2>. HIDE DEF j
  <2>. QED BY <1>1, <2>1, <2>2, QuietInv
<1>3. CASE ~(job.hops > 0)
  <2>1. \/ job.do = "delegate" /\ Delegate(rest)
        \/ job.do = "opened"   /\ Opened(rest)
        \/ job.do = "claim"    /\ Claim(job.value, rest)
        \/ job.do = "tagNext"  /\ TagNext(job.value, rest)
        \/ job.do = "tagRace"  /\ TagRace(job.value, rest)
        \/ job.do = "raceNext" /\ Race("next", job.value, rest)
        \/ job.do = "raceRace" /\ Race("race", job.value, rest)
        \/ job.do = "return"   /\ Return(rest)
    BY <1>3 DEF RunJob
  <2>2. CASE job.do = "delegate" /\ Delegate(rest)
    BY <1>1, <2>2, DelegateInv
  <2>3. CASE job.do = "opened" /\ Opened(rest)
    BY <1>1, <2>3, OpenedInv
  <2>4. CASE job.do = "claim" /\ Claim(job.value, rest)
    BY <1>1, <2>4, ClaimInv
  <2>5. CASE job.do = "tagNext" /\ TagNext(job.value, rest)
    BY <1>1, <2>5, TagNextInv
  <2>6. CASE job.do = "tagRace" /\ TagRace(job.value, rest)
    BY <1>1, <2>6, TagRaceInv
  <2>7. CASE job.do = "raceNext" /\ Race("next", job.value, rest)
    BY <1>1, <2>7, WinInv
  <2>8. CASE job.do = "raceRace" /\ Race("race", job.value, rest)
    BY <1>1, <2>8, WinInv
  <2>9. CASE job.do = "return" /\ Return(rest)
    BY <1>1, <2>9, ReturnInv
  <2>. QED BY <2>1, <2>2, <2>3, <2>4, <2>5, <2>6, <2>7, <2>8, <2>9
<1>. QED BY <1>2, <1>3

\* A macrotask starts from an empty queue: nothing of an expired countdown is
\* under way.
LEMMA IdleFacts ==
  ASSUME RaceInv, Idle
  PROVE  Len(jobs) = 0 /\ (Open => ~timedOut)
BY DEF RaceInv, Idle, ExpiryOK

LEMMA NextSettlesInv ==
  ASSUME RaceInv, NEW side, NEW value, NextSettles(side, value),
         \/ side = "panel" /\ value \in Outcomes
         \/ side = "cancelled" /\ value = "error"
  PROVE  RaceInv'
<1>1. PICK hops \in 0..MaxHops : jobs' = <<Job("tagNext", value, hops)>>
  BY DEF NextSettles
<1>. DEFINE j == Job("tagNext", value, hops)
<1>2. j \in JobSet /\ j.do = "tagNext" /\ j.value = value
  BY RaceAssumption DEF Job, JobSet, Kinds, Values
<1>. HIDE DEF j
<1>3. jobs' \in Seq(JobSet) /\ Len(jobs') = 1 /\ jobs'[1] = j
  BY <1>1, <1>2 DEF j
<1>4. /\ Idle /\ next' = "settled" /\ spoken' = Say(side, value)
      /\ UNCHANGED <<gate, reviewer, onTimeout, timer, flags, raced, won, returned,
                     noticed, forwarded>>
  BY DEF NextSettles
<1>5. SaidByNext(value)' /\ (Open => ~timedOut)
  BY <1>4, IdleFacts DEF SaidByNext, Say, Outcomes
<1>6. JobsOK' /\ Single("claim")' /\ Single("return")'
  BY <1>2, <1>3, <1>5 DEF JobsOK, JobOK, Single
<1>7. RaceTypeOK'
  BY <1>3, <1>4 DEF RaceInv, RaceTypeOK, flags
<1>8. spoken \subseteq spoken'
  BY <1>4 DEF Say
<1>9. GateOK' /\ WonOK' /\ RacedOK' /\ ExpiryOK' /\ TimerOK'
  BY <1>4, <1>5, <1>8 DEF RaceInv, GateOK, WonOK, RacedOK, ExpiryOK, TimerOK, NoticeMeansTimeout,
                          TimerDisarmed, Open, SaidByNext, flags
<1>. QED BY <1>6, <1>7, <1>9 DEF RaceInv

LEMMA ReviewerAnswersInv ==
  ASSUME RaceInv, NEW value \in Outcomes, ReviewerAnswers(value)
  PROVE  RaceInv'
<1>1. PICK hops \in 0..MaxHops : jobs' = <<Job("claim", value, hops)>>
  BY DEF ReviewerAnswers
<1>. DEFINE j == Job("claim", value, hops)
<1>2. j \in JobSet /\ j.do = "claim" /\ j.value = value
  BY RaceAssumption DEF Job, JobSet, Kinds, Values
<1>. HIDE DEF j
<1>3. jobs' \in Seq(JobSet) /\ Len(jobs') = 1 /\ jobs'[1] = j
  BY <1>1, <1>2 DEF j
<1>4. /\ Idle /\ reviewer' = "done" /\ spoken' = Say("claim", value)
      /\ UNCHANGED <<gate, next, onTimeout, timer, flags, raced, won, returned,
                     noticed, forwarded>>
  BY DEF ReviewerAnswers
<1>5. <<"claim", value>> \in spoken' /\ (Open => ~timedOut)
  BY <1>4, IdleFacts DEF Say
<1>6. JobsOK' /\ Single("claim")' /\ Single("return")'
  BY <1>2, <1>3, <1>4, <1>5 DEF JobsOK, JobOK, Single
<1>7. RaceTypeOK'
  BY <1>3, <1>4 DEF RaceInv, RaceTypeOK, flags
<1>8. spoken \subseteq spoken'
  BY <1>4 DEF Say
<1>9. GateOK' /\ WonOK' /\ RacedOK' /\ ExpiryOK' /\ TimerOK'
  BY <1>4, <1>5, <1>8 DEF RaceInv, GateOK, WonOK, RacedOK, ExpiryOK, TimerOK, NoticeMeansTimeout,
                          TimerDisarmed, Open, SaidByNext, flags
<1>. QED BY <1>6, <1>7, <1>9 DEF RaceInv

LEMMA BothSettleInv ==
  ASSUME RaceInv, NEW side, NEW value, NEW claim \in Outcomes, BothSettle(side, value, claim),
         \/ side = "panel" /\ value \in Outcomes
         \/ side = "cancelled" /\ value = "error"
  PROVE  RaceInv'
<1>1. PICK h \in 0..MaxHops, g \in 0..MaxHops :
        jobs' \in {<<Job("tagNext", value, h), Job("claim", claim, g)>>,
                   <<Job("claim", claim, g), Job("tagNext", value, h)>>}
  BY DEF BothSettle
<1>. DEFINE j == Job("tagNext", value, h)
            k == Job("claim", claim, g)
<1>2. /\ j \in JobSet /\ j.do = "tagNext" /\ j.value = value
      /\ k \in JobSet /\ k.do = "claim" /\ k.value = claim
  BY RaceAssumption DEF Job, JobSet, Kinds, Values
<1>3. jobs' = <<j, k>> \/ jobs' = <<k, j>>
  BY <1>1
<1>. HIDE DEF j, k
<1>4. /\ jobs' \in Seq(JobSet) /\ Len(jobs') = 2
      /\ (jobs'[1] = j /\ jobs'[2] = k) \/ (jobs'[1] = k /\ jobs'[2] = j)
  <2>1. CASE jobs' = <<j, k>>
    BY <1>2, <2>1
  <2>2. CASE jobs' = <<k, j>>
    BY <1>2, <2>2
  <2>. QED BY <1>3, <2>1, <2>2
<1>5. /\ Idle /\ next' = "settled" /\ reviewer' = "done"
      /\ spoken' = Say(side, value) \cup {<<"claim", claim>>}
      /\ UNCHANGED <<gate, onTimeout, timer, flags, raced, won, returned, noticed, forwarded>>
  BY DEF BothSettle
<1>6. SaidByNext(value)' /\ <<"claim", claim>> \in spoken' /\ (Open => ~timedOut)
  BY <1>5, IdleFacts DEF SaidByNext, Say, Outcomes
<1>7. JobsOK' /\ Single("claim")' /\ Single("return")'
  <2>1. ASSUME NEW i \in 1..Len(jobs') PROVE jobs'[i] \in {j, k}
    BY <1>4, <2>1
  <2>2. ASSUME NEW i \in 1..Len(jobs') PROVE JobOK(i)'
    BY <1>2, <1>5, <1>6, <2>1 DEF JobOK
  <2>3. Single("claim")' /\ Single("return")'
    BY <1>2, <1>4 DEF Single
  <2>. QED BY <2>2, <2>3 DEF JobsOK
<1>8. RaceTypeOK'
  BY <1>4, <1>5 DEF RaceInv, RaceTypeOK, flags
<1>9. spoken \subseteq spoken'
  BY <1>5 DEF Say
<1>10. GateOK' /\ WonOK' /\ RacedOK' /\ ExpiryOK' /\ TimerOK'
  BY <1>5, <1>6, <1>9 DEF RaceInv, GateOK, WonOK, RacedOK, ExpiryOK, TimerOK, NoticeMeansTimeout,
                          TimerDisarmed, Open, SaidByNext, flags
<1>. QED BY <1>7, <1>8, <1>10 DEF RaceInv

\* An armed countdown means the decision is open; where it is still heeded,
\* nothing has answered.
LEMMA TimerExpiresInv == ASSUME RaceInv, TimerExpires PROVE RaceInv'
<1>1. /\ Idle /\ timer = "armed" /\ timer' = "fired"
      /\ UNCHANGED <<outer, claimed, finishedByNext, won, returned, forwarded>>
  BY DEF TimerExpires
<1>2. Open /\ ~claimed /\ ~timedOut /\ ~noticed
  BY <1>1, IdleFacts DEF RaceInv, TimerOK, TimerDisarmed, Open
<1>3. raced = Nothing
  BY <1>2 DEF RaceInv, RacedOK
<1>4. CASE HeedsTimer
  <2>. DEFINE j == Job("tagRace", onTimeout, 0)
  <2>1. /\ noticed' = TRUE /\ spoken' = Say("host", onTimeout) /\ timedOut' = TRUE
        /\ raced' = onTimeout /\ jobs' = <<j>>
    BY <1>3, <1>4 DEF TimerExpires, Settle, TimerSays
  <2>2. onTimeout \in Outcomes /\ won = NoArm
    BY <1>2, <1>3, <1>4 DEF RaceInv, RaceTypeOK, WonOK, HeedsTimer
  <2>3. j \in JobSet /\ j.do = "tagRace" /\ j.value = onTimeout
    BY <2>2 DEF Job, JobSet, Kinds, Values
  <2>. HIDE DEF j
  <2>4. jobs' \in Seq(JobSet) /\ Len(jobs') = 1 /\ jobs'[1] = j /\ raced' # Nothing
    BY <2>1, <2>2, <2>3 DEF Outcomes, Nothing
  <2>5. JobsOK' /\ Single("claim")' /\ Single("return")'
    BY <2>1, <2>3, <2>4 DEF JobsOK, JobOK, Single
  <2>6. RaceTypeOK'
    BY <1>1, <2>1, <2>2, <2>4 DEF RaceInv, RaceTypeOK, outer
  <2>7. Open' /\ <<"host", raced'>> \in spoken'
    BY <1>1, <1>2, <2>1 DEF Open, Say
  <2>8. GateOK' /\ WonOK' /\ RacedOK' /\ ExpiryOK' /\ TimerOK'
    BY <1>1, <1>2, <2>1, <2>2, <2>3, <2>4, <2>7
       DEF RaceInv, GateOK, WonOK, RacedOK, ExpiryOK, TimerOK, NoticeMeansTimeout,
           TimerDisarmed, Open, outer
  <2>. QED BY <2>5, <2>6, <2>8 DEF RaceInv
<1>5. CASE ~HeedsTimer
  <2>1. UNCHANGED <<noticed, spoken, timedOut, raced, jobs>>
    BY <1>5 DEF TimerExpires
  <2>2. RaceTypeOK'
    BY <1>1, <2>1 DEF RaceInv, RaceTypeOK, outer
  <2>3. JobsOK' /\ Single("claim")' /\ Single("return")'
    BY <1>1, <2>1, IdleFacts DEF JobsOK, Single
  <2>4. GateOK' /\ WonOK' /\ RacedOK' /\ ExpiryOK' /\ TimerOK'
    BY <1>1, <1>2, <2>1 DEF RaceInv, GateOK, WonOK, RacedOK, ExpiryOK, TimerOK, NoticeMeansTimeout,
           TimerDisarmed, Open, SaidByNext, outer
  <2>. QED BY <2>2, <2>3, <2>4 DEF RaceInv
<1>. QED BY <1>4, <1>5

LEMMA GateReleasesInv == ASSUME RaceInv, GateReleases PROVE RaceInv'
<1>. DEFINE j == Job("opened", Nothing, 0)
<1>1. j \in JobSet /\ j.do = "opened"
  BY DEF Job, JobSet, Kinds, Values
<1>2. /\ Idle /\ gate = "held" /\ gate' = "released" /\ jobs' = <<j>>
      /\ UNCHANGED <<next, reviewer, onTimeout, timer, flags, raced, won, returned, seen>>
  BY DEF GateReleases
<1>. HIDE DEF j
<1>3. jobs' \in Seq(JobSet) /\ Len(jobs') = 1 /\ jobs'[1] = j /\ (Open => ~timedOut)
  BY <1>1, <1>2, IdleFacts
<1>4. JobsOK' /\ Single("claim")' /\ Single("return")'
  BY <1>1, <1>2, <1>3 DEF JobsOK, JobOK, Single
<1>5. RaceTypeOK'
  BY <1>2, <1>3 DEF RaceInv, RaceTypeOK, flags, seen
<1>6. GateOK' /\ WonOK' /\ RacedOK' /\ ExpiryOK' /\ TimerOK'
  BY <1>2, <1>3 DEF RaceInv, GateOK, WonOK, RacedOK, ExpiryOK, TimerOK, NoticeMeansTimeout,
                    TimerDisarmed, Open, SaidByNext, flags, seen
<1>. QED BY <1>4, <1>5, <1>6 DEF RaceInv

LEMMA RaceNextInv == ASSUME RaceInv, [Next]_vars PROVE RaceInv'
<1>1. CASE RunJob
  BY <1>1, RunJobInv
<1>2. ASSUME NEW o \in Outcomes, NextSettles("panel", o) PROVE RaceInv'
  BY <1>2, NextSettlesInv, Zenon
<1>3. ASSUME NEW o \in Outcomes, ReviewerAnswers(o) PROVE RaceInv'
  BY <1>3, ReviewerAnswersInv
<1>4. CASE NextSettles("cancelled", "error")
  BY <1>4, NextSettlesInv, Zenon
<1>5. ASSUME NEW o \in Outcomes, BothSettle("cancelled", "error", o) PROVE RaceInv'
  BY <1>5, BothSettleInv, Zenon
<1>6. ASSUME NEW o \in Outcomes, NEW p \in Outcomes, BothSettle("panel", p, o) PROVE RaceInv'
  BY <1>6, BothSettleInv, Zenon
<1>7. CASE Macrotask
  BY <1>2, <1>3, <1>4, <1>5, <1>6, <1>7, TimerExpiresInv, GateReleasesInv, Zenon DEF Macrotask
<1>8. CASE UNCHANGED vars
  BY <1>8 DEF vars, outer, flags, seen, RaceInv, RaceTypeOK, JobsOK, JobOK, Single, GateOK, WonOK,
              RacedOK, ExpiryOK, TimerOK, NoticeMeansTimeout, TimerDisarmed, Open, SaidByNext
<1>. QED BY <1>1, <1>7, <1>8 DEF Next

LEMMA RaceInvHolds == Spec => []RaceInv
<1>1. Init => RaceInv
  BY RaceInitInv
<1>2. RaceInv /\ [Next]_vars => RaceInv'
  BY RaceNextInv
<1>. QED BY <1>1, <1>2, PTL DEF Spec

LEMMA OpenLabel == Open => Label = "nobody" /\ returned.outcome = Nothing
BY DEF Open, Label, Pending, Outcomes, Nothing

\* A step that leaves what askHuman received alone is, for the decision, somebody
\* speaking or nothing.
LEMMA SpeakStep ==
  ASSUME UNCHANGED <<returned, forwarded>>,
         NEW more \in SUBSET ({"panel", "host", "claim", "cancelled"} \X (Outcomes \cup {"error"})),
         spoken' = spoken \cup more
  PROVE  Decision!Speak
BY DEF Decision!Speak, Label

\* The request is forwarded while the decision is open, never after it.
LEMMA ForwardStep ==
  ASSUME RaceInv, ~Idle, NEW rest, CallNext(rest),
         \/ Head(jobs).do = "delegate"
         \/ Head(jobs).do = "opened" /\ gate # "cancelled"
  PROVE  Decision!Forward
<1>1. Open
  BY HeadOK DEF RaceInv, JobOK, GateOK
<1>2. <<Label, returned.outcome>> = <<"nobody", Nothing>>
  BY <1>1, OpenLabel
<1>3. UNCHANGED <<spoken, returned>> /\ forwarded' = TRUE
  BY DEF CallNext
<1>. QED BY <1>2, <1>3 DEF Decision!Forward, Label

LEMMA RaceRefines == ASSUME RaceInv, [Next]_vars PROVE [Decision!Next]_(Decision!vars)
<1>. USE DEF Decision!vars
<1>1. CASE UNCHANGED <<returned, forwarded, spoken>>
  BY <1>1 DEF Label
<1>2. ASSUME NEW side \in {"panel", "cancelled"}, NEW o \in Outcomes \cup {"error"},
             NextSettles(side, o)
      PROVE  Decision!Speak
  <2>. DEFINE more == {<<side, o>>}
  <2>1. spoken' = spoken \cup more /\ UNCHANGED <<returned, forwarded>>
    BY <1>2 DEF NextSettles, Say
  <2>2. more \in SUBSET ({"panel", "host", "claim", "cancelled"} \X (Outcomes \cup {"error"}))
    OBVIOUS
  <2>. HIDE DEF more
  <2>. QED BY <2>1, <2>2, SpeakStep
<1>3. ASSUME NEW o \in Outcomes, ReviewerAnswers(o) PROVE Decision!Speak
  <2>. DEFINE more == {<<"claim", o>>}
  <2>1. spoken' = spoken \cup more /\ UNCHANGED <<returned, forwarded>>
    BY <1>3 DEF ReviewerAnswers, Say
  <2>2. more \in SUBSET ({"panel", "host", "claim", "cancelled"} \X (Outcomes \cup {"error"}))
    OBVIOUS
  <2>. HIDE DEF more
  <2>. QED BY <2>1, <2>2, SpeakStep
<1>4. ASSUME NEW side \in {"panel", "cancelled"}, NEW o \in Outcomes \cup {"error"},
             NEW p \in Outcomes, BothSettle(side, o, p)
      PROVE  Decision!Speak
  <2>. DEFINE more == {<<side, o>>, <<"claim", p>>}
  <2>1. spoken' = spoken \cup more /\ UNCHANGED <<returned, forwarded>>
    BY <1>4 DEF BothSettle, Say
  <2>2. more \in SUBSET ({"panel", "host", "claim", "cancelled"} \X (Outcomes \cup {"error"}))
    OBVIOUS
  <2>. HIDE DEF more
  <2>. QED BY <2>1, <2>2, SpeakStep
<1>5. CASE TimerExpires
  <2>1. onTimeout \in Outcomes /\ UNCHANGED <<returned, forwarded>>
    BY <1>5 DEF RaceInv, RaceTypeOK, TimerExpires
  <2>2. CASE HeedsTimer
    <3>. DEFINE more == {<<"host", onTimeout>>}
    <3>1. spoken' = spoken \cup more
      BY <1>5, <2>2 DEF TimerExpires, Say
    <3>2. more \in SUBSET ({"panel", "host", "claim", "cancelled"} \X (Outcomes \cup {"error"}))
      BY <2>1
    <3>. QED BY <2>1, <3>1, <3>2, SpeakStep DEF Decision!Next
  <2>3. CASE ~HeedsTimer
    BY <1>1, <1>5, <2>1, <2>3 DEF TimerExpires
  <2>. QED BY <2>2, <2>3
<1>6. CASE GateReleases
  BY <1>1, <1>6 DEF GateReleases, seen
<1>7. CASE Macrotask
  BY <1>2, <1>3, <1>4, <1>5, <1>6, <1>7, Zenon DEF Macrotask, Decision!Next
<1>8. CASE RunJob
  <2>1. ~Idle
    BY <1>8 DEF RunJob
  <2>2. ASSUME NEW rest, CallNext(rest),
               \/ Head(jobs).do = "delegate"
               \/ Head(jobs).do = "opened" /\ gate # "cancelled"
        PROVE  Decision!Next
    BY <2>1, <2>2, ForwardStep DEF Decision!Next
  <2>3. ASSUME NEW rest, Quiet(rest) PROVE UNCHANGED <<returned, forwarded, spoken>>
    BY <2>3 DEF Quiet, seen
  <2>4. CASE Head(jobs).do = "return" /\ Return(Tail(jobs))
    <3>1. Open /\ <<Label, returned.outcome>>' \in spoken /\ UNCHANGED <<spoken, forwarded>>
      BY <2>1, <2>4, ReturnInv DEF Return, seen
    <3>2. <<Label, returned.outcome>> = <<"nobody", Nothing>>
      BY <3>1, OpenLabel
    <3>. QED BY <3>1, <3>2 DEF Decision!Next, Decision!Decide
  <2>. QED BY <1>1, <1>8, <2>2, <2>3, <2>4
           DEF RunJob, Delegate, Opened, Forwards, Claim, TagNext, TagRace, Race, seen
<1>. QED BY <1>1, <1>7, <1>8 DEF Next, vars, seen

\* A raced approval is a one-shot decision under the name of the side that won
\* it, and is forwarded only while it is open: every step of the race is a step
\* of OneShotDecision, or none of its business.
THEOREM RaceDecidesOnce == Spec => IsOneShotDecision
<1>1. Init => Decision!Init
  BY OpenLabel DEF Init, Open, Decision!Init
<1>2. RaceInv /\ [Next]_vars => [Decision!Next]_(Decision!vars)
  BY RaceRefines
<1>. QED BY <1>1, <1>2, RaceInvHolds, PTL DEF Spec, Decision!Spec, IsOneShotDecision

\* A returned decision leaves no countdown behind, and a timeout notice was
\* recorded exactly for the asks the countdown decided.
THEOREM RaceLeavesNothing == Spec => [](NoticeMeansTimeout /\ TimerDisarmed)
BY RaceInvHolds, PTL DEF RaceInv, TimerOK

-----------------------------------------------------------------------------
(* The notices *)

Notices == {"greeting", "guidance", "approved"}

\* Of a queue: what it holds, and that it holds it once.
In(q, x) == \E i \in 1..Len(q) : q[i] = x
Once(q)  == \A i, j \in 1..Len(q) : q[i] = q[j] => i = j

NoticeTypeOK ==
  /\ life \in [Calls -> {"unborn", "asked", "running", "refused", "over", "dropped"}]
  /\ pendingNotices \in [Calls -> Seq(Notices)]
  /\ queued \in [Calls -> SUBSET Notices]
  /\ firstAutoNoticeSeen \in BOOLEAN /\ disposed \in BOOLEAN
  /\ delivered \in Seq(Calls \X Notices)
  /\ announced \in Seq({"active", "inactive"})
  /\ sessionPreset \in {"unknown", "gated", "plain"}

\* The raced call waits exactly while its decision is open.
RacedWaits == life[Raced] # "unborn" /\ (life[Raced] = "asked" <=> Open)

\* What is queued for a call that can still have a result waits there, once
\* each.
QueueHolds ==
  \A c \in Calls :
    /\ life[c] = "unborn" => queued[c] = {} /\ pendingNotices[c] = <<>>
    /\ life[c] \in {"asked", "running", "refused"} /\ ~disposed =>
         /\ \A x \in Notices : x \in queued[c] <=> In(pendingNotices[c], x)
         /\ Once(pendingNotices[c])

\* One call is greeted; the raced call is guided by its result alone, and the
\* answer of its reviewer is heard once.
NewsIsFresh ==
  /\ \A c, d \in Calls : "greeting" \in queued[c] /\ "greeting" \in queued[d] => c = d
  /\ ~disposed /\ ~firstAutoNoticeSeen => \A c \in Calls : "greeting" \notin queued[c]
  /\ "guidance" \in queued[Raced] => life[Raced] = "over"
  /\ "approved" \in queued[Raced] =>
       reviewer = "done" /\ \A i \in 1..Len(jobs) : jobs[i].do # "claim"

\* What was told of a call is what was queued for it, when it is over.
TellsAll ==
  \A c \in Calls, x \in Notices :
    In(delivered, <<c, x>>) <=> life[c] = "over" /\ x \in queued[c]

TellsOnce == Once(delivered)

Alternates ==
  /\ \A i \in 1..Len(announced) : announced[i] = IF i % 2 = 1 THEN "active" ELSE "inactive"
  /\ ~disposed => (sessionPreset = "gated" <=> Len(announced) % 2 = 1)

NoticeInv ==
  /\ NoticeTypeOK /\ RacedWaits /\ QueueHolds /\ NewsIsFresh /\ TellsAll /\ TellsOnce /\ Alternates

LEMMA ToSetIs ==
  ASSUME NEW S, NEW q \in Seq(S), NEW x PROVE x \in ToSet(q) <=> In(q, x)
BY DEF ToSet, In

\* One queue behind another.
LEMMA Behind ==
  ASSUME NEW S, NEW q \in Seq(S), NEW n \in Seq(S), Once(q), Once(n),
         \A x \in S : ~(In(q, x) /\ In(n, x))
  PROVE  /\ q \o n \in Seq(S) /\ Once(q \o n)
         /\ \A x \in S : In(q \o n, x) <=> In(q, x) \/ In(n, x)
<1>. DEFINE s == q \o n
<1>1. /\ s \in Seq(S) /\ Len(q) \in Nat /\ Len(n) \in Nat /\ Len(s) = Len(q) + Len(n)
      /\ \A i \in 1..Len(s) : s[i] = IF i <= Len(q) THEN q[i] ELSE n[i - Len(q)]
  OBVIOUS
<1>. HIDE DEF s
<1>2. ASSUME NEW i \in 1..Len(s)
      PROVE  \/ i \in 1..Len(q) /\ s[i] = q[i]
             \/ i > Len(q) /\ i - Len(q) \in 1..Len(n) /\ s[i] = n[i - Len(q)]
  BY <1>1
<1>3. ASSUME NEW i \in 1..Len(q) PROVE i \in 1..Len(s) /\ s[i] = q[i]
  BY <1>1
<1>4. ASSUME NEW i \in 1..Len(n) PROVE i + Len(q) \in 1..Len(s) /\ s[i + Len(q)] = n[i]
  <2>1. i + Len(q) \in 1..Len(s) /\ ~(i + Len(q) <= Len(q)) /\ (i + Len(q)) - Len(q) = i
    BY <1>1
  <2>. QED BY <1>1, <2>1
<1>5. ASSUME NEW x \in S PROVE In(s, x) <=> In(q, x) \/ In(n, x)
  <2>1. ASSUME NEW i \in 1..Len(s), s[i] = x PROVE In(q, x) \/ In(n, x)
    <3>1. CASE i \in 1..Len(q) /\ s[i] = q[i]
      BY <2>1, <3>1 DEF In
    <3>2. CASE i - Len(q) \in 1..Len(n) /\ s[i] = n[i - Len(q)]
      BY <2>1, <3>2 DEF In
    <3>. QED BY <1>2, <3>1, <3>2
  <2>2. ASSUME NEW i \in 1..Len(q), q[i] = x PROVE In(s, x)
    BY <1>3, <2>2 DEF In
  <2>3. ASSUME NEW i \in 1..Len(n), n[i] = x PROVE In(s, x)
    BY <1>4, <2>3 DEF In
  <2>. QED BY <2>1, <2>2, <2>3 DEF In
<1>6. Once(s)
  <2>. SUFFICES ASSUME NEW i \in 1..Len(s), NEW j \in 1..Len(s), s[i] = s[j] PROVE i = j
    BY DEF Once
  <2>1. \A k \in 1..Len(q) : q[k] \in S
    OBVIOUS
  <2>2. \A k \in 1..Len(n) : n[k] \in S
    OBVIOUS
  <2>3. CASE i \in 1..Len(q) /\ s[i] = q[i] /\ j \in 1..Len(q) /\ s[j] = q[j]
    BY <2>3 DEF Once
  <2>4. ASSUME NEW k \in 1..Len(q), NEW l \in 1..Len(n) PROVE q[k] # n[l]
    BY <2>1, <2>2 DEF In
  <2>5. CASE i > Len(q) /\ i - Len(q) \in 1..Len(n) /\ s[i] = n[i - Len(q)]
             /\ j > Len(q) /\ j - Len(q) \in 1..Len(n) /\ s[j] = n[j - Len(q)]
    <3>1. i - Len(q) = j - Len(q)
      BY <2>5 DEF Once
    <3>. QED BY <1>1, <2>5, <3>1
  <2>. QED BY <1>2, <2>3, <2>4, <2>5
<1>. QED BY <1>1, <1>5, <1>6 DEF s

LEMMA None ==
  ASSUME NEW S
  PROVE  /\ <<>> \in Seq(S) /\ Once(<<>>) /\ ToSet(<<>>) = {}
         /\ \A x : ~In(<<>>, x)
BY DEF Once, In, ToSet

LEMMA OneNotice ==
  ASSUME NEW S, NEW y \in S
  PROVE  /\ <<y>> \in Seq(S) /\ Once(<<y>>) /\ ToSet(<<y>>) = {y} /\ <<y>> # <<>>
         /\ \A x : In(<<y>>, x) <=> x = y
<1>1. \A i \in 1..Len(<<y>>) : i = 1 /\ <<y>>[i] = y
  OBVIOUS
<1>2. Len(<<y>>) = 1 /\ DOMAIN <<y>> = 1..1 /\ <<y>>[1] = y
  OBVIOUS
<1>. QED BY <1>1, <1>2 DEF Once, In, ToSet

LEMMA NoticeInitInv == AskInit => NoticeInv
<1>. SUFFICES ASSUME AskInit PROVE NoticeInv
  OBVIOUS
<1>1. Raced \in Calls /\ Open
  BY DEF AskInit, Init, Open, Calls
<1>2. /\ life = [c \in Calls |-> IF c = Raced THEN "asked" ELSE "unborn"]
      /\ pendingNotices = [c \in Calls |->
           IF c = Raced /\ firstAutoNoticeSeen THEN <<"greeting">> ELSE <<>>]
      /\ queued = [c \in Calls |-> {pendingNotices[c][i] : i \in DOMAIN pendingNotices[c]}]
      /\ firstAutoNoticeSeen \in BOOLEAN /\ disposed = FALSE /\ delivered = <<>>
      /\ announced = <<>> /\ sessionPreset = "unknown"
  BY DEF AskInit
<1>3. ASSUME NEW c \in Calls
      PROVE  /\ pendingNotices[c] \in Seq(Notices) /\ Once(pendingNotices[c])
             /\ queued[c] = ToSet(pendingNotices[c])
             /\ queued[c] = (IF c = Raced /\ firstAutoNoticeSeen THEN {"greeting"} ELSE {})
  <2>1. "greeting" \in Notices
    BY DEF Notices
  <2>2. queued[c] = ToSet(pendingNotices[c])
    BY <1>2 DEF ToSet
  <2>3. CASE c = Raced /\ firstAutoNoticeSeen
    BY <1>2, <2>1, <2>2, <2>3, OneNotice
  <2>4. CASE ~(c = Raced /\ firstAutoNoticeSeen)
    BY <1>2, <2>2, <2>4, None
  <2>. QED BY <2>3, <2>4
<1>4. ASSUME NEW c \in Calls, NEW x \in Notices PROVE x \in queued[c] <=> In(pendingNotices[c], x)
  BY <1>3, ToSetIs
<1>5. NoticeTypeOK
  <2>1. queued \in [Calls -> SUBSET Notices]
    BY <1>2, <1>3 DEF Notices
  <2>2. pendingNotices \in [Calls -> Seq(Notices)]
    BY <1>2, <1>3
  <2>3. <<>> \in Seq(Calls \X Notices) /\ <<>> \in Seq({"active", "inactive"})
    OBVIOUS
  <2>4. life \in [Calls -> {"unborn", "asked", "running", "refused", "over", "dropped"}]
    BY <1>2
  <2>. QED BY <1>2, <2>1, <2>2, <2>3, <2>4 DEF NoticeTypeOK
<1>6. RacedWaits /\ QueueHolds
  BY <1>1, <1>2, <1>3, <1>4 DEF RacedWaits, QueueHolds
<1>7. NewsIsFresh
  BY <1>1, <1>2, <1>3 DEF NewsIsFresh
<1>8. TellsAll /\ TellsOnce
  BY <1>2, None DEF TellsAll, TellsOnce
<1>9. Alternates
  BY <1>2 DEF Alternates
<1>. QED BY <1>5, <1>6, <1>7, <1>8, <1>9 DEF NoticeInv

\* What a step of the race leaves alone.
LEMMA RaceFrame ==
  ASSUME UNCHANGED vars
  PROVE  /\ UNCHANGED <<reviewer, jobs, returned>> /\ (Open' <=> Open)
BY DEF vars, outer, Open

LEMMA PreExecutesInv ==
  ASSUME NoticeInv, NEW c \in Calls, PreExecutes(c)
  PROVE  NoticeInv'
<1>. USE DEF NoticeInv
<1>1. /\ life[c] = "unborn" /\ ~disposed /\ firstAutoNoticeSeen' = TRUE
      /\ UNCHANGED <<vars, presetVars, disposed, delivered>>
  BY DEF PreExecutes
<1>2. PICK refused \in BOOLEAN :
        LET greeting == IF firstAutoNoticeSeen THEN <<>> ELSE <<"greeting">>
            guidance == Guidance(c, refused)
        IN  /\ life' = [life EXCEPT ![c] = IF refused THEN "refused" ELSE "running"]
            /\ QueueNotices(c, greeting \o guidance) /\ Guided(c, guidance)
  BY DEF PreExecutes
<1>. DEFINE greeting == IF firstAutoNoticeSeen THEN <<>> ELSE <<"greeting">>
            guidance == Guidance(c, refused)
            news     == greeting \o guidance
<1>3. "greeting" \in Notices /\ "guidance" \in Notices
  BY DEF Notices
<1>4. /\ greeting \in Seq(Notices) /\ Once(greeting)
      /\ \A x : In(greeting, x) <=> ~firstAutoNoticeSeen /\ x = "greeting"
  <2>1. CASE firstAutoNoticeSeen
    BY <2>1, None
  <2>2. CASE ~firstAutoNoticeSeen
    BY <1>3, <2>2, OneNotice
  <2>. QED BY <2>1, <2>2
<1>5. /\ guidance \in Seq(Notices) /\ Once(guidance)
      /\ \A x : In(guidance, x) => x = "guidance"
  <2>1. CASE guidance = <<>>
    BY <2>1, None
  <2>2. CASE guidance = <<"guidance">>
    BY <1>3, <2>2, OneNotice
  <2>. QED BY <2>1, <2>2 DEF Guidance
<1>. HIDE DEF greeting, guidance
<1>6. /\ news \in Seq(Notices) /\ Once(news)
      /\ \A x \in Notices : In(news, x) <=> In(greeting, x) \/ In(guidance, x)
  BY <1>4, <1>5, Behind
<1>7. /\ life' = [life EXCEPT ![c] = IF refused THEN "refused" ELSE "running"]
      /\ pendingNotices' = [pendingNotices EXCEPT ![c] = @ \o news]
      /\ queued' = [queued EXCEPT ![c] = @ \cup ToSet(news)]
  BY <1>2 DEF QueueNotices, greeting, guidance
<1>8. pendingNotices[c] = <<>> /\ queued[c] = {} /\ c # Raced
  BY <1>1 DEF QueueHolds, RacedWaits
<1>. HIDE DEF news
<1>9. /\ pendingNotices'[c] = news /\ queued'[c] = ToSet(news)
      /\ life'[c] \in {"running", "refused"}
      /\ \A d \in Calls \ {c} : /\ pendingNotices'[d] = pendingNotices[d]
                                /\ queued'[d] = queued[d] /\ life'[d] = life[d]
  BY <1>6, <1>7, <1>8 DEF NoticeTypeOK
<1>10. \A x \in Notices : x \in queued'[c] <=> In(news, x)
  BY <1>6, <1>9, ToSetIs
<1>11. queued'[c] \subseteq Notices
  BY <1>6, <1>9 DEF ToSet
<1>12. NoticeTypeOK'
  <2>1. pendingNotices' \in [Calls -> Seq(Notices)]
    BY <1>6, <1>7, <1>9 DEF NoticeTypeOK
  <2>2. queued' \in [Calls -> SUBSET Notices]
    BY <1>7, <1>9, <1>11 DEF NoticeTypeOK
  <2>3. life' \in [Calls -> {"unborn", "asked", "running", "refused", "over", "dropped"}]
    BY <1>7 DEF NoticeTypeOK
  <2>. QED BY <1>1, <2>1, <2>2, <2>3 DEF NoticeTypeOK, presetVars
<1>13. RacedWaits'
  BY <1>1, <1>8, <1>9, RaceFrame DEF RacedWaits, Calls
<1>14. QueueHolds'
  BY <1>1, <1>6, <1>9, <1>10 DEF QueueHolds
<1>15. NewsIsFresh'
  <2>1. "greeting" \in queued'[c] <=> ~firstAutoNoticeSeen
    BY <1>3, <1>4, <1>5, <1>6, <1>10
  <2>. QED BY <1>1, <1>8, <1>9, <2>1, RaceFrame DEF NewsIsFresh, Calls
<1>16. TellsAll'
  <2>. SUFFICES ASSUME NEW d \in Calls, NEW x \in Notices
                PROVE  In(delivered', <<d, x>>) <=> life'[d] = "over" /\ x \in queued'[d]
    BY DEF TellsAll, In
  <2>1. In(delivered, <<d, x>>) <=> life[d] = "over" /\ x \in queued[d]
    BY DEF TellsAll
  <2>. QED BY <1>1, <1>9, <2>1
<1>17. TellsOnce' /\ Alternates'
  BY <1>1 DEF TellsOnce, Alternates, presetVars
<1>. QED BY <1>12, <1>13, <1>14, <1>15, <1>16, <1>17

\* What is told of a call is appended to what was told before it: nothing of
\* this call was.
LEMMA ResultInv ==
  ASSUME NoticeInv, NEW c \in Calls, Result(c)
  PROVE  NoticeInv'
<1>. USE DEF NoticeInv
<1>. DEFINE guidance == Guidance(c, c = Raced /\ life[c] = "refused")
            told     == pendingNotices[c] \o guidance
            m        == [i \in DOMAIN told |-> <<c, told[i]>>]
<1>1. /\ Idle /\ life[c] \in {"running", "refused"} /\ ~disposed
      /\ queued' = [queued EXCEPT ![c] = @ \cup ToSet(guidance)]
      /\ delivered' = delivered \o m
      /\ pendingNotices' = [d \in Calls |-> IF LeavesWith(c, d) THEN <<>> ELSE pendingNotices[d]]
      /\ life' = [life EXCEPT ![c] = "over"]
      /\ UNCHANGED <<vars, firstAutoNoticeSeen, presetVars, disposed>>
  BY DEF Result
<1>2. "guidance" \in Notices
  BY DEF Notices
<1>3. /\ guidance \in Seq(Notices) /\ Once(guidance) /\ ToSet(guidance) \subseteq {"guidance"}
      /\ guidance # <<>> => c = Raced /\ life[c] = "refused"
  <2>1. CASE guidance = <<>>
    BY <2>1, None
  <2>2. CASE guidance # <<>>
    <3>1. guidance = <<"guidance">> /\ c = Raced /\ life[c] = "refused"
      BY <2>2 DEF Guidance
    <3>2. /\ <<"guidance">> \in Seq(Notices) /\ Once(<<"guidance">>)
          /\ ToSet(<<"guidance">>) = {"guidance"}
      BY <1>2, OneNotice
    <3>. QED BY <3>1, <3>2
  <2>. QED BY <2>1, <2>2
<1>. HIDE DEF guidance
<1>4. \A x \in Notices : In(guidance, x) => x = "guidance" /\ c = Raced /\ life[c] = "refused"
  <2>. SUFFICES ASSUME NEW x \in Notices, In(guidance, x)
                PROVE  x = "guidance" /\ c = Raced /\ life[c] = "refused"
    OBVIOUS
  <2>1. x \in ToSet(guidance)
    BY <1>3, ToSetIs
  <2>. QED BY <1>3, <2>1, None
<1>5. /\ pendingNotices[c] \in Seq(Notices) /\ Once(pendingNotices[c])
      /\ \A x \in Notices : x \in queued[c] <=> In(pendingNotices[c], x)
  BY <1>1 DEF NoticeTypeOK, QueueHolds
<1>6. \A x \in Notices : ~(In(pendingNotices[c], x) /\ In(guidance, x))
  BY <1>4, <1>5 DEF NewsIsFresh
<1>7. /\ told \in Seq(Notices) /\ Once(told)
      /\ \A x \in Notices : In(told, x) <=> In(pendingNotices[c], x) \/ In(guidance, x)
  BY <1>3, <1>5, <1>6, Behind
<1>. HIDE DEF told
<1>8. /\ queued'[c] = queued[c] \cup ToSet(guidance) /\ life'[c] = "over"
      /\ \A d \in Calls \ {c} : /\ pendingNotices'[d] = pendingNotices[d]
                                /\ queued'[d] = queued[d] /\ life'[d] = life[d]
  BY <1>1 DEF NoticeTypeOK, LeavesWith
<1>9. \A x \in Notices : x \in queued'[c] <=> In(told, x)
  BY <1>3, <1>5, <1>7, <1>8, ToSetIs
<1>10. /\ m \in Seq(Calls \X Notices) /\ Len(m) = Len(told)
       /\ \A i \in 1..Len(m) : m[i] = <<c, told[i]>> /\ told[i] \in Notices
  BY <1>7
<1>. HIDE DEF m
<1>11. Once(m)
  <2>. SUFFICES ASSUME NEW i \in 1..Len(m), NEW j \in 1..Len(m), m[i] = m[j] PROVE i = j
    BY DEF Once
  <2>1. told[i] = told[j]
    BY <1>10
  <2>. QED BY <1>7, <1>10, <2>1 DEF Once
<1>12. ASSUME NEW d \in Calls, NEW x \in Notices
       PROVE  In(m, <<d, x>>) <=> d = c /\ In(told, x)
  <2>1. ASSUME NEW i \in 1..Len(m), m[i] = <<d, x>> PROVE d = c /\ told[i] = x
    BY <1>10, <2>1
  <2>2. ASSUME NEW i \in 1..Len(told), told[i] = x, d = c PROVE i \in 1..Len(m) /\ m[i] = <<d, x>>
    BY <1>10, <2>2
  <2>. QED BY <1>10, <2>1, <2>2 DEF In
<1>13. \A y \in Calls \X Notices : ~(In(delivered, y) /\ In(m, y))
  <2>. SUFFICES ASSUME NEW d \in Calls, NEW x \in Notices, In(delivered, <<d, x>>), In(m, <<d, x>>)
                PROVE  FALSE
    OBVIOUS
  <2>1. d = c
    BY <1>12
  <2>. QED BY <1>1, <2>1 DEF TellsAll
<1>14. delivered \in Seq(Calls \X Notices) /\ Once(delivered)
  BY DEF NoticeTypeOK, TellsOnce
<1>15. /\ delivered' \in Seq(Calls \X Notices) /\ Once(delivered')
       /\ \A y \in Calls \X Notices : In(delivered', y) <=> In(delivered, y) \/ In(m, y)
  BY <1>1, <1>10, <1>11, <1>13, <1>14, Behind
<1>16. NoticeTypeOK'
  <2>1. pendingNotices' \in [Calls -> Seq(Notices)]
    BY <1>1, None DEF NoticeTypeOK
  <2>2. queued' \in [Calls -> SUBSET Notices]
    BY <1>1, <1>2, <1>3 DEF NoticeTypeOK
  <2>3. life' \in [Calls -> {"unborn", "asked", "running", "refused", "over", "dropped"}]
    BY <1>1 DEF NoticeTypeOK
  <2>. QED BY <1>1, <1>15, <2>1, <2>2, <2>3 DEF NoticeTypeOK, presetVars
<1>17. RacedWaits'
  BY <1>1, <1>8, RaceFrame DEF RacedWaits, Calls
<1>18. QueueHolds'
  BY <1>1, <1>8 DEF QueueHolds
<1>19. NewsIsFresh'
  <2>1. \A d \in Calls, x \in Notices : x # "guidance" => (x \in queued'[d] <=> x \in queued[d])
    BY <1>3, <1>8
  <2>2. "guidance" \in queued'[Raced] => life'[Raced] = "over"
    BY <1>1, <1>8 DEF NewsIsFresh, Calls
  <2>3. "greeting" \in Notices /\ "approved" \in Notices /\ Raced \in Calls
    BY DEF Notices, Calls
  <2>. QED BY <1>1, <2>1, <2>2, <2>3, RaceFrame DEF NewsIsFresh
<1>20. TellsAll'
  <2>. SUFFICES ASSUME NEW d \in Calls, NEW x \in Notices
                PROVE  In(delivered', <<d, x>>) <=> life'[d] = "over" /\ x \in queued'[d]
    BY DEF TellsAll, In
  <2>1. In(delivered, <<d, x>>) <=> life[d] = "over" /\ x \in queued[d]
    BY DEF TellsAll
  <2>2. In(delivered', <<d, x>>) <=> In(delivered, <<d, x>>) \/ (d = c /\ In(told, x))
    BY <1>12, <1>15
  <2>. QED BY <1>1, <1>8, <1>9, <2>1, <2>2
<1>21. TellsOnce' /\ Alternates'
  BY <1>1, <1>15 DEF TellsOnce, Alternates, presetVars
<1>. QED BY <1>16, <1>17, <1>18, <1>19, <1>20, <1>21

NoClaim == \A i \in 1..Len(jobs) : jobs[i].do # "claim"

\* What a job of the race does to what the notices rest on: it queues no answer
\* of the reviewer, and only the job that returns closes the decision.
QueuesNoClaim ==
  \/ Popped
  \/ \E d \in Kinds \ {"claim"}, v \in Values : Pushed(Job(d, v, 0))

LEMMA RunJobQueues ==
  ASSUME RaceInv, RunJob, ~(Head(jobs).hops > 0)
  PROVE  /\ reviewer' = reviewer /\ QueuesNoClaim
         /\ Head(jobs).do = "return" \/ returned' = returned
<1>. DEFINE job == Head(jobs)
            rest == Tail(jobs)
<1>1. job.value \in Values
  BY HeadOK DEF RunJob, JobSet
<1>2. ASSUME NEW d \in Kinds \ {"claim"}, NEW v \in Values, jobs' = Append(rest, Job(d, v, 0))
      PROVE  QueuesNoClaim
  BY <1>2 DEF QueuesNoClaim, Pushed
<1>3. jobs' = rest => QueuesNoClaim
  BY DEF QueuesNoClaim, Popped
<1>. HIDE DEF rest
<1>4. ASSUME Quiet(rest) PROVE reviewer' = reviewer /\ QueuesNoClaim /\ returned' = returned
  BY <1>3, <1>4 DEF Quiet, outer
<1>5. ASSUME NEW d \in Kinds \ {"claim"}, NEW v \in Values, Quiet(Append(rest, Job(d, v, 0)))
      PROVE  reviewer' = reviewer /\ QueuesNoClaim /\ returned' = returned
  BY <1>2, <1>5 DEF Quiet, outer
<1>6. ASSUME CallNext(rest) PROVE reviewer' = reviewer /\ QueuesNoClaim /\ returned' = returned
  BY <1>3, <1>6 DEF CallNext
<1>7. ASSUME Delegate(rest) PROVE reviewer' = reviewer /\ QueuesNoClaim /\ returned' = returned
  BY <1>4, <1>6, <1>7 DEF Delegate
<1>8. ASSUME Opened(rest) PROVE reviewer' = reviewer /\ QueuesNoClaim /\ returned' = returned
  BY <1>5, <1>6, <1>8 DEF Opened, Kinds, Values
<1>9. ASSUME Claim(job.value, rest)
      PROVE  reviewer' = reviewer /\ QueuesNoClaim /\ returned' = returned
  BY <1>1, <1>2, <1>3, <1>4, <1>9 DEF Claim, Settle, outer, Kinds
<1>10. ASSUME TagNext(job.value, rest)
       PROVE  reviewer' = reviewer /\ QueuesNoClaim /\ returned' = returned
  BY <1>1, <1>2, <1>10 DEF TagNext, outer, Kinds
<1>11. ASSUME TagRace(job.value, rest)
       PROVE  reviewer' = reviewer /\ QueuesNoClaim /\ returned' = returned
  BY <1>1, <1>5, <1>11 DEF TagRace, Kinds
<1>12. ASSUME NEW via, Race(via, job.value, rest)
       PROVE  reviewer' = reviewer /\ QueuesNoClaim /\ returned' = returned
  BY <1>2, <1>4, <1>12 DEF Race, outer, Kinds, Values
<1>13. ASSUME Return(rest) PROVE reviewer' = reviewer /\ QueuesNoClaim
  BY <1>2, <1>3, <1>13 DEF Return, Kinds, Values
<1>. QED BY <1>7, <1>8, <1>9, <1>10, <1>11, <1>12, <1>13, Zenon DEF RunJob, rest

LEMMA RunJobEffects ==
  ASSUME RaceInv, RunJob
  PROVE  /\ Head(jobs) \in JobSet /\ reviewer' = reviewer
         /\ (Head(jobs).do = "return" /\ Head(jobs).hops = 0) \/ returned' = returned
         /\ NoClaim => NoClaim'
         /\ Head(jobs).do = "claim" /\ Head(jobs).hops = 0 => NoClaim'
         /\ Head(jobs).do = "claim" => reviewer = "done" /\ ~NoClaim
<1>. DEFINE job == Head(jobs)
<1>1. /\ ~Idle /\ job \in JobSet /\ JobOK(1) /\ jobs[1] = job /\ RaceTypeOK /\ Single("claim")
      /\ Len(jobs) \in Nat \ {0}
  BY HeadOK, Rests DEF RunJob, RaceInv
<1>2. job.do = "claim" => reviewer = "done" /\ ~NoClaim
  BY <1>1 DEF JobOK, NoClaim
<1>3. NoClaim \/ job.do = "claim" => \A i \in 1..Len(jobs) : i # 1 => jobs[i].do # "claim"
  BY <1>1 DEF NoClaim, Single
<1>4. CASE job.hops > 0
  <2>. DEFINE j == [job EXCEPT !.hops = @ - 1]
  <2>1. j \in JobSet /\ j.do = job.do
    BY <1>1, <1>4 DEF JobSet
  <2>2. Pushed(j) /\ UNCHANGED <<reviewer, returned>>
    BY <1>4 DEF RunJob, Quiet, Pushed, outer
  <2>. HIDE DEF j
  <2>3. NoClaim => NoClaim'
    <3>. SUFFICES ASSUME NoClaim, NEW i \in 1..Len(jobs') PROVE jobs'[i].do # "claim"
      BY DEF NoClaim
    <3>. QED BY <1>1, <2>1, <2>2, PushedQueue DEF NoClaim
  <2>4. job.hops # 0
    BY <1>4
  <2>. QED BY <1>1, <1>2, <2>2, <2>3, <2>4
<1>5. CASE ~(job.hops > 0)
  <2>1. /\ reviewer' = reviewer /\ QueuesNoClaim /\ job.hops = 0
        /\ job.do = "return" \/ returned' = returned
    BY <1>1, <1>5, RunJobQueues DEF JobSet
  <2>2. NoClaim \/ job.do = "claim" => NoClaim'
    <3>. SUFFICES ASSUME NoClaim \/ job.do = "claim", NEW i \in 1..Len(jobs')
                  PROVE  jobs'[i].do # "claim"
      BY DEF NoClaim
    <3>1. CASE Popped
      <4>1. i + 1 \in 1..Len(jobs) /\ jobs'[i] = jobs[i + 1] /\ i + 1 # 1
        BY <1>1, <3>1, PoppedQueue
      <4>. QED BY <1>3, <4>1
    <3>2. ASSUME NEW d \in Kinds \ {"claim"}, NEW v \in Values, Pushed(Job(d, v, 0))
          PROVE  jobs'[i].do # "claim"
      <4>. DEFINE j == Job(d, v, 0)
      <4>1. j \in JobSet /\ j.do = d /\ Pushed(j)
        BY <3>2 DEF Job, JobSet
      <4>. HIDE DEF j
      <4>2. /\ Len(jobs') = Len(jobs) /\ jobs'[Len(jobs)] = j
            /\ i # Len(jobs) => i + 1 \in 1..Len(jobs) /\ jobs'[i] = jobs[i + 1] /\ i + 1 # 1
        BY <1>1, <4>1, PushedQueue
      <4>. QED BY <1>3, <4>1, <4>2
    <3>. QED BY <2>1, <3>1, <3>2 DEF QueuesNoClaim
  <2>. QED BY <1>1, <1>2, <2>1, <2>2
<1>. QED BY <1>4, <1>5

\* A step that leaves the queues and what was told alone keeps the invariant
\* where the raced call goes on waiting exactly while its decision is open.
LEMMA QuietNotices ==
  ASSUME NoticeInv, UNCHANGED noticeVars, Open' <=> Open,
         NoClaim /\ reviewer = "done" => NoClaim' /\ reviewer' = "done"
  PROVE  NoticeInv'
<1>. USE DEF NoticeInv, noticeVars, queueVars, presetVars
<1>1. NoticeTypeOK' /\ QueueHolds' /\ TellsAll' /\ TellsOnce' /\ Alternates'
  BY DEF NoticeTypeOK, QueueHolds, TellsAll, TellsOnce, Alternates
<1>2. RacedWaits'
  BY DEF RacedWaits
<1>3. NewsIsFresh'
  BY DEF NewsIsFresh, NoClaim
<1>. QED BY <1>1, <1>2, <1>3

LEMMA RunsInv == ASSUME RaceInv, NoticeInv, Runs PROVE NoticeInv'
<1>. USE DEF NoticeInv
<1>. DEFINE job == Head(jobs)
<1>1. /\ RunJob /\ job \in JobSet /\ reviewer' = reviewer
      /\ (job.do = "return" /\ job.hops = 0) \/ returned' = returned
      /\ NoClaim => NoClaim'
      /\ job.do = "claim" /\ job.hops = 0 => NoClaim'
      /\ job.do = "claim" => reviewer = "done" /\ ~NoClaim
  BY RunJobEffects DEF Runs
<1>2. Raced \in Calls
  BY DEF Calls
<1>3. CASE job.hops = 0 /\ Heard(job) /\ QueueNotices(Raced, <<"approved">>)
           /\ UNCHANGED <<life, firstAutoNoticeSeen, rejectGuidanceSeen, rejectGuidanceWindow,
                          presetVars, disposed, delivered>>
  <2>. DEFINE n == <<"approved">>
  <2>1. job.do = "claim" /\ returned = Pending /\ returned' = returned
    BY <1>1, <1>3 DEF Heard
  <2>2. reviewer' = "done" /\ NoClaim' /\ ~NoClaim /\ life[Raced] = "asked"
    BY <1>1, <1>3, <2>1 DEF RacedWaits, Open
  <2>3. "approved" \in Notices /\ "approved" \notin queued[Raced]
    BY <2>2 DEF NewsIsFresh, NoClaim, Notices
  <2>4. /\ n \in Seq(Notices) /\ Once(n) /\ ToSet(n) = {"approved"}
        /\ \A x : In(n, x) <=> x = "approved"
    BY <2>3, OneNotice
  <2>. HIDE DEF n
  <2>5. /\ pendingNotices' = [pendingNotices EXCEPT ![Raced] = @ \o n]
        /\ queued' = [queued EXCEPT ![Raced] = @ \cup {"approved"}]
    BY <1>3, <2>4 DEF QueueNotices, n
  <2>6. /\ pendingNotices'[Raced] = pendingNotices[Raced] \o n
        /\ queued'[Raced] = queued[Raced] \cup {"approved"}
        /\ \A d \in Calls \ {Raced} :
             pendingNotices'[d] = pendingNotices[d] /\ queued'[d] = queued[d]
    BY <1>2, <2>5 DEF NoticeTypeOK
  <2>7. pendingNotices[Raced] \in Seq(Notices)
    BY <1>2 DEF NoticeTypeOK
  <2>8. pendingNotices'[Raced] \in Seq(Notices)
    BY <2>4, <2>6, <2>7
  <2>9. NoticeTypeOK'
    <3>1. pendingNotices' \in [Calls -> Seq(Notices)]
      BY <1>2, <2>5, <2>6, <2>8 DEF NoticeTypeOK
    <3>2. queued' \in [Calls -> SUBSET Notices]
      BY <1>2, <2>3, <2>5 DEF NoticeTypeOK
    <3>. QED BY <1>3, <3>1, <3>2 DEF NoticeTypeOK, presetVars
  <2>10. RacedWaits'
    BY <1>3, <2>1 DEF RacedWaits, Open
  <2>11. QueueHolds'
    <3>1. ASSUME ~disposed
          PROVE  /\ Once(pendingNotices'[Raced])
                 /\ \A x \in Notices : x \in queued'[Raced] <=> In(pendingNotices'[Raced], x)
      <4>1. /\ Once(pendingNotices[Raced])
            /\ \A x \in Notices : x \in queued[Raced] <=> In(pendingNotices[Raced], x)
        BY <1>2, <2>2, <3>1 DEF QueueHolds
      <4>2. \A x \in Notices : ~(In(pendingNotices[Raced], x) /\ In(n, x))
        BY <2>3, <2>4, <4>1
      <4>3. /\ Once(pendingNotices[Raced] \o n)
            /\ \A x \in Notices :
                 In(pendingNotices[Raced] \o n, x) <=> In(pendingNotices[Raced], x) \/ In(n, x)
        BY <2>4, <2>7, <4>1, <4>2, Behind
      <4>. QED BY <2>4, <2>6, <4>1, <4>3
    <3>. QED BY <1>3, <2>2, <2>6, <3>1 DEF QueueHolds
  <2>12. NewsIsFresh'
    <3>1. \A d \in Calls : /\ "greeting" \in queued'[d] <=> "greeting" \in queued[d]
                           /\ "guidance" \in queued'[d] <=> "guidance" \in queued[d]
      BY <2>6
    <3>. QED BY <1>2, <1>3, <2>2, <3>1 DEF NewsIsFresh, NoClaim
  <2>13. TellsAll'
    <3>. SUFFICES ASSUME NEW d \in Calls, NEW x \in Notices
                  PROVE  In(delivered', <<d, x>>) <=> life'[d] = "over" /\ x \in queued'[d]
      BY DEF TellsAll, In
    <3>1. In(delivered, <<d, x>>) <=> life[d] = "over" /\ x \in queued[d]
      BY DEF TellsAll
    <3>. QED BY <1>3, <2>2, <2>6, <3>1
  <2>14. TellsOnce' /\ Alternates'
    BY <1>3 DEF TellsOnce, Alternates, presetVars
  <2>. QED BY <2>9, <2>10, <2>11, <2>12, <2>13, <2>14
<1>4. ASSUME job.hops = 0, job.do = "return", UNCHANGED <<queueVars, presetVars, disposed, delivered>>,
             NEW to \in {"running", "refused"}, life' = [life EXCEPT ![Raced] = to]
      PROVE  NoticeInv'
  <2>1. Open /\ ~Open'
    BY <1>1, <1>4, ReturnInv, HeadOK DEF RunJob
  <2>2. /\ life'[Raced] = to /\ life[Raced] = "asked"
        /\ \A d \in Calls \ {Raced} : life'[d] = life[d]
    BY <1>2, <1>4, <2>1 DEF NoticeTypeOK, RacedWaits
  <2>3. NoticeTypeOK' /\ RacedWaits'
    BY <1>4, <2>1, <2>2 DEF NoticeTypeOK, RacedWaits, queueVars, presetVars
  <2>4. QueueHolds'
    BY <1>2, <1>4, <2>2 DEF QueueHolds, queueVars
  <2>5. NewsIsFresh'
    BY <1>1, <1>4, <2>2 DEF NewsIsFresh, NoClaim, queueVars
  <2>6. TellsAll'
    <3>. SUFFICES ASSUME NEW d \in Calls, NEW x \in Notices
                  PROVE  In(delivered', <<d, x>>) <=> life'[d] = "over" /\ x \in queued'[d]
      BY DEF TellsAll, In
    <3>1. In(delivered, <<d, x>>) <=> life[d] = "over" /\ x \in queued[d]
      BY DEF TellsAll
    <3>. QED BY <1>4, <2>2, <3>1 DEF queueVars
  <2>7. TellsOnce' /\ Alternates'
    BY <1>4 DEF TellsOnce, Alternates, presetVars
  <2>. QED BY <2>3, <2>4, <2>5, <2>6, <2>7
<1>5. CASE (job.hops > 0 \/ ~(Heard(job) \/ job.do = "return")) /\ UNCHANGED noticeVars
  <2>1. job.hops \in Nat
    BY <1>1 DEF JobSet
  <2>2. returned' = returned
    BY <1>1, <1>5, <2>1
  <2>. QED BY <1>1, <1>5, <2>2, QuietNotices DEF Open
<1>. QED BY <1>3, <1>4, <1>5 DEF Runs

\* A macrotask of the race queues the reviewer's answer once.
LEMMA RaceMovesInv == ASSUME RaceInv, NoticeInv, RaceMoves PROVE NoticeInv'
<1>. USE DEF Job
<1>1. ASSUME NEW side, NEW value, NextSettles(side, value)
      PROVE  UNCHANGED returned /\ (reviewer = "done" => NoClaim' /\ reviewer' = "done")
  <2>1. PICK hops \in 0..MaxHops : jobs' = <<Job("tagNext", value, hops)>>
    BY <1>1 DEF NextSettles
  <2>2. Len(jobs') = 1 /\ jobs'[1].do = "tagNext"
    BY <2>1
  <2>. QED BY <1>1, <2>2 DEF NextSettles, NoClaim
<1>2. ASSUME NEW value, ReviewerAnswers(value) PROVE UNCHANGED returned /\ reviewer # "done"
  BY <1>2 DEF ReviewerAnswers
<1>3. ASSUME NEW side, NEW value, NEW claim, BothSettle(side, value, claim)
      PROVE  UNCHANGED returned /\ reviewer # "done"
  BY <1>3 DEF BothSettle
<1>4. CASE TimerExpires
  <2>1. UNCHANGED <<returned, reviewer>>
    BY <1>4 DEF TimerExpires, outer
  <2>2. \/ jobs' = <<>> \/ jobs' = <<Job("tagRace", onTimeout, 0)>>
    BY <1>4 DEF TimerExpires, Settle, Idle
  <2>3. NoClaim'
    BY <2>2 DEF NoClaim
  <2>. QED BY <1>4, <2>1, <2>3, QuietNotices DEF RaceMoves, Open
<1>5. CASE GateReleases
  <2>1. UNCHANGED <<returned, reviewer>> /\ jobs' = <<Job("opened", Nothing, 0)>>
    BY <1>5 DEF GateReleases
  <2>2. NoClaim'
    BY <2>1 DEF NoClaim
  <2>. QED BY <1>5, <2>1, <2>2, QuietNotices DEF RaceMoves, Open
<1>6. ASSUME UNCHANGED returned, reviewer = "done" => NoClaim' /\ reviewer' = "done" PROVE NoticeInv'
  BY <1>6, QuietNotices DEF RaceMoves, Open
<1>. QED BY <1>1, <1>2, <1>3, <1>4, <1>5, <1>6, Zenon DEF RaceMoves, Macrotask

LEMMA StepEndsInv == ASSUME NoticeInv, StepEnds PROVE NoticeInv'
<1>. USE DEF NoticeInv
<1>1. /\ ~disposed /\ \A c \in Calls : life[c] \notin {"asked", "running"}
      /\ pendingNotices' = [c \in Calls |-> <<>>]
      /\ life' = [c \in Calls |-> IF life[c] = "refused" THEN "dropped" ELSE life[c]]
      /\ UNCHANGED <<vars, firstAutoNoticeSeen, queued, presetVars, disposed, delivered>>
  BY DEF StepEnds
<1>2. UNCHANGED <<reviewer, jobs, returned>> /\ (Open' <=> Open)
  BY <1>1, RaceFrame
<1>3. \A c \in Calls : /\ life'[c] \notin {"asked", "running", "refused"}
                       /\ life'[c] = "unborn" <=> life[c] = "unborn"
                       /\ life'[c] = "over" <=> life[c] = "over"
                       /\ pendingNotices'[c] = <<>>
  BY <1>1
<1>4. NoticeTypeOK'
  <2>1. pendingNotices' \in [Calls -> Seq(Notices)]
    BY <1>1, None
  <2>2. life' \in [Calls -> {"unborn", "asked", "running", "refused", "over", "dropped"}]
    BY <1>1 DEF NoticeTypeOK
  <2>. QED BY <1>1, <2>1, <2>2 DEF NoticeTypeOK, presetVars
<1>5. RacedWaits' /\ QueueHolds'
  BY <1>1, <1>2, <1>3 DEF RacedWaits, QueueHolds, Calls
<1>6. NewsIsFresh' /\ TellsOnce' /\ Alternates'
  BY <1>1, <1>2, <1>3 DEF NewsIsFresh, TellsOnce, Alternates, presetVars, Calls
<1>7. TellsAll'
  <2>. SUFFICES ASSUME NEW d \in Calls, NEW x \in Notices
                PROVE  In(delivered', <<d, x>>) <=> life'[d] = "over" /\ x \in queued'[d]
    BY DEF TellsAll, In
  <2>1. In(delivered, <<d, x>>) <=> life[d] = "over" /\ x \in queued[d]
    BY DEF TellsAll
  <2>. QED BY <1>1, <1>3, <2>1
<1>. QED BY <1>4, <1>5, <1>6, <1>7

LEMMA SessionDisposedInv == ASSUME NoticeInv, SessionDisposed PROVE NoticeInv'
<1>. USE DEF NoticeInv
<1>1. /\ disposed' = TRUE /\ pendingNotices' = [c \in Calls |-> <<>>]
      /\ firstAutoNoticeSeen' = FALSE /\ sessionPreset' = "unknown"
      /\ UNCHANGED <<vars, life, queued, announced, delivered>>
  BY DEF SessionDisposed
<1>2. UNCHANGED <<reviewer, jobs, returned>> /\ (Open' <=> Open)
  BY <1>1, RaceFrame
<1>3. \A c \in Calls : pendingNotices'[c] = <<>>
  BY <1>1
<1>4. NoticeTypeOK'
  <2>1. pendingNotices' \in [Calls -> Seq(Notices)]
    BY <1>1, None
  <2>. QED BY <1>1, <2>1 DEF NoticeTypeOK
<1>5. RacedWaits' /\ QueueHolds' /\ NewsIsFresh'
  BY <1>1, <1>2, <1>3 DEF RacedWaits, QueueHolds, NewsIsFresh
<1>6. TellsAll' /\ TellsOnce' /\ Alternates'
  BY <1>1 DEF TellsAll, TellsOnce, Alternates
<1>. QED BY <1>4, <1>5, <1>6

\* Entering makes the count of announcements odd, leaving makes it even.
LEMMA PresetChangesInv ==
  ASSUME NoticeInv, NEW preset \in {"gated", "plain"}, PresetChanges(preset)
  PROVE  NoticeInv'
<1>. USE DEF NoticeInv
<1>1. /\ ~disposed /\ sessionPreset' = preset
      /\ UNCHANGED <<vars, life, queueVars, disposed, delivered>>
      /\ \/ preset = "gated" /\ sessionPreset # "gated" /\ announced' = Append(announced, "active")
         \/ preset # "gated" /\ sessionPreset = "gated" /\ announced' = Append(announced, "inactive")
         \/ (preset = "gated" <=> sessionPreset = "gated") /\ announced' = announced
  BY DEF PresetChanges
<1>2. announced \in Seq({"active", "inactive"}) /\ Len(announced) \in Nat
  BY DEF NoticeTypeOK
<1>3. ASSUME NEW a \in {"active", "inactive"}, announced' = Append(announced, a),
             a = IF Len(announced) % 2 = 0 THEN "active" ELSE "inactive"
      PROVE  /\ announced' \in Seq({"active", "inactive"})
             /\ Len(announced') % 2 = 1 <=> Len(announced) % 2 = 0
             /\ \A i \in 1..Len(announced') :
                  announced'[i] = IF i % 2 = 1 THEN "active" ELSE "inactive"
  <2>1. /\ announced' \in Seq({"active", "inactive"}) /\ Len(announced') = Len(announced) + 1
        /\ announced'[Len(announced) + 1] = a
        /\ \A i \in 1..Len(announced) : announced'[i] = announced[i]
    BY <1>2, <1>3
  <2>2. (Len(announced) + 1) % 2 = 1 <=> Len(announced) % 2 = 0
    BY <1>2
  <2>3. ASSUME NEW i \in 1..Len(announced')
        PROVE  announced'[i] = IF i % 2 = 1 THEN "active" ELSE "inactive"
    <3>1. CASE i = Len(announced) + 1
      BY <1>3, <2>1, <2>2, <3>1
    <3>2. CASE i # Len(announced) + 1
      <4>1. i \in 1..Len(announced)
        BY <1>2, <2>1, <3>2
      <4>. QED BY <2>1, <4>1 DEF Alternates
    <3>. QED BY <3>1, <3>2
  <2>. QED BY <2>1, <2>2, <2>3
<1>4. Len(announced) % 2 \in {0, 1}
  BY <1>2
<1>5. sessionPreset = "gated" <=> Len(announced) % 2 = 1
  BY <1>1 DEF Alternates
<1>6. announced' \in Seq({"active", "inactive"}) /\ Alternates'
  <2>1. CASE preset = "gated" /\ sessionPreset # "gated" /\ announced' = Append(announced, "active")
    BY <1>1, <1>3, <1>4, <1>5, <2>1 DEF Alternates
  <2>2. CASE preset # "gated" /\ sessionPreset = "gated" /\ announced' = Append(announced, "inactive")
    <3>1. Len(announced') % 2 \in {0, 1} /\ ~(Len(announced') % 2 = 1)
      BY <1>3, <1>4, <1>5, <2>2
    <3>. QED BY <1>1, <1>3, <1>4, <1>5, <2>2, <3>1 DEF Alternates
  <2>3. CASE (preset = "gated" <=> sessionPreset = "gated") /\ announced' = announced
    BY <1>1, <1>2, <1>5, <2>3 DEF Alternates
  <2>. QED BY <1>1, <2>1, <2>2, <2>3
<1>7. NoticeTypeOK'
  BY <1>1, <1>6 DEF NoticeTypeOK, queueVars
<1>8. RacedWaits' /\ QueueHolds' /\ NewsIsFresh'
  BY <1>1, RaceFrame DEF RacedWaits, QueueHolds, NewsIsFresh, queueVars
<1>9. TellsAll' /\ TellsOnce'
  BY <1>1 DEF TellsAll, TellsOnce, queueVars
<1>. QED BY <1>6, <1>7, <1>8, <1>9

LEMMA GuidanceExpiresInv == ASSUME NoticeInv, GuidanceExpires PROVE NoticeInv'
<1>. USE DEF NoticeInv
<1>1. UNCHANGED <<vars, life, pendingNotices, firstAutoNoticeSeen, queued, presetVars, disposed,
                  delivered>>
  BY DEF GuidanceExpires
<1>2. NoticeTypeOK' /\ RacedWaits' /\ QueueHolds' /\ NewsIsFresh'
  BY <1>1, RaceFrame DEF NoticeTypeOK, RacedWaits, QueueHolds, NewsIsFresh, presetVars
<1>3. TellsAll' /\ TellsOnce' /\ Alternates'
  BY <1>1 DEF TellsAll, TellsOnce, Alternates, presetVars
<1>. QED BY <1>2, <1>3

LEMMA NoticeNextInv ==
  ASSUME RaceInv, NoticeInv, [AskNext]_<<vars, noticeVars>>
  PROVE  NoticeInv' /\ [Next]_vars
<1>1. CASE UNCHANGED <<vars, noticeVars>>
  BY <1>1, RaceFrame, QuietNotices DEF NoClaim
<1>2. CASE RaceMoves
  BY <1>2, RaceMovesInv DEF RaceMoves, Next
<1>3. CASE Runs
  BY <1>3, RunsInv DEF Runs, Next
<1>4. ASSUME NEW c \in Calls, PreExecutes(c) \/ Result(c) PROVE NoticeInv' /\ UNCHANGED vars
  BY <1>4, PreExecutesInv, ResultInv DEF PreExecutes, Result
<1>5. CASE GuidanceExpires
  BY <1>5, GuidanceExpiresInv DEF GuidanceExpires
<1>6. CASE StepEnds
  BY <1>6, StepEndsInv DEF StepEnds
<1>7. CASE SessionDisposed
  BY <1>7, SessionDisposedInv DEF SessionDisposed
<1>8. ASSUME NEW preset \in {"gated", "plain"}, PresetChanges(preset)
      PROVE  NoticeInv' /\ UNCHANGED vars
  BY <1>8, PresetChangesInv DEF PresetChanges
<1>. QED BY <1>1, <1>2, <1>3, <1>4, <1>5, <1>6, <1>7, <1>8 DEF AskNext

LEMMA NoticesAreTold == NoticeInv => NoticesReachTheAgent
<1>. SUFFICES ASSUME NoticeInv PROVE NoticesReachTheAgent
  OBVIOUS
<1>. USE DEF NoticeInv
<1>1. /\ delivered \in Seq(Calls \X Notices)
      /\ \A i \in 1..Len(delivered) : delivered[i] \in Calls \X Notices
      /\ DOMAIN delivered = 1..Len(delivered)
  BY DEF NoticeTypeOK
<1>2. ASSUME NEW c \in Calls PROVE Told(c) = IF life[c] = "over" THEN queued[c] ELSE {}
  <2>1. queued[c] \subseteq Notices
    BY DEF NoticeTypeOK
  <2>2. ASSUME NEW x \in Told(c) PROVE x \in Notices /\ In(delivered, <<c, x>>)
    <3>1. PICK i \in 1..Len(delivered) : delivered[i][1] = c /\ delivered[i][2] = x
      BY <1>1, <2>2 DEF Told
    <3>2. delivered[i] = <<c, x>> /\ x \in Notices
      BY <1>1, <3>1
    <3>. QED BY <3>2 DEF In
  <2>3. ASSUME NEW x \in Notices, In(delivered, <<c, x>>) PROVE x \in Told(c)
    <3>1. PICK i \in 1..Len(delivered) : delivered[i] = <<c, x>>
      BY <2>3 DEF In
    <3>. QED BY <1>1, <3>1 DEF Told
  <2>4. ASSUME NEW x \in Notices
        PROVE  x \in Told(c) <=> life[c] = "over" /\ x \in queued[c]
    BY <2>2, <2>3 DEF TellsAll
  <2>5. CASE life[c] = "over"
    BY <2>1, <2>2, <2>4, <2>5
  <2>6. CASE life[c] # "over"
    <3>1. Told(c) = {}
      BY <2>2, <2>4, <2>6
    <3>. QED BY <2>6, <3>1
  <2>. QED BY <2>5, <2>6
<1>3. ASSUME NEW i \in DOMAIN delivered, NEW j \in DOMAIN delivered, i # j
      PROVE  /\ delivered[i] # delivered[j]
             /\ ~(delivered[i][2] = "greeting" /\ delivered[j][2] = "greeting")
  <2>1. delivered[i] # delivered[j]
    BY <1>1, <1>3 DEF TellsOnce, Once
  <2>2. ASSUME delivered[i][2] = "greeting", delivered[j][2] = "greeting" PROVE FALSE
    <3>1. PICK c \in Calls : delivered[i] = <<c, "greeting">>
      BY <1>1, <2>2
    <3>2. PICK d \in Calls : delivered[j] = <<d, "greeting">>
      BY <1>1, <2>2
    <3>3. In(delivered, <<c, "greeting">>) /\ In(delivered, <<d, "greeting">>)
      BY <1>1, <3>1, <3>2 DEF In
    <3>4. "greeting" \in queued[c] /\ "greeting" \in queued[d]
      BY <3>3 DEF TellsAll, Notices
    <3>. QED BY <2>1, <3>1, <3>2, <3>4 DEF NewsIsFresh
  <2>. QED BY <2>1, <2>2
<1>4. \A i \in DOMAIN announced : announced[i] = IF i % 2 = 1 THEN "active" ELSE "inactive"
  <2>1. DOMAIN announced = 1..Len(announced)
    BY DEF NoticeTypeOK
  <2>. QED BY <2>1 DEF Alternates
<1>. QED BY <1>2, <1>3, <1>4 DEF NoticesReachTheAgent

\* What was queued for a call reaches the agent once and whole when the call has
\* a result and never otherwise, one call is greeted, and the announcements of
\* the gated presets alternate, for every set of calls of a step and every limit
\* of guidance.
THEOREM NoticesAlwaysReach == AskSpec => []NoticesReachTheAgent
<1>1. AskInit => RaceInv /\ NoticeInv
  BY RaceInitInv, NoticeInitInv DEF AskInit
<1>2. RaceInv /\ NoticeInv /\ [AskNext]_<<vars, noticeVars>> => (RaceInv /\ NoticeInv)'
  BY NoticeNextInv, RaceNextInv
<1>. QED BY <1>1, <1>2, NoticesAreTold, PTL DEF AskSpec

\* With its step around it the race is still a one-shot decision that leaves no
\* countdown and no false notice behind: the safety half of RaceIsSound.
THEOREM AskDecidesOnce ==
  AskSpec => IsOneShotDecision /\ [](NoticeMeansTimeout /\ TimerDisarmed)
<1>1. AskInit => Init /\ RaceInv /\ NoticeInv
  BY RaceInitInv, NoticeInitInv DEF AskInit
<1>2. RaceInv /\ NoticeInv /\ [AskNext]_<<vars, noticeVars>> => (RaceInv /\ NoticeInv)' /\ [Next]_vars
  BY NoticeNextInv, RaceNextInv
<1>3. AskSpec => Spec
  BY <1>1, <1>2, PTL DEF AskSpec, Spec
<1>. QED BY <1>3, RaceDecidesOnce, RaceLeavesNothing, PTL
=============================================================================

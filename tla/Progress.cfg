\* Under the fairness of the host timers alone an ask settles and its maps drain;
\* four critical sections, three of one key, of which any may reject.
CONSTANTS
  c1 = c1
  s1 = s1
  k1 = k1
  Calls = {c1}
  Sessions <- OneSession
  Keys <- OneKey
  SessionOf <- SameSession
  KeyOf <- SameKey
  MaxConsecutive = 1
  MaxTotal = 2
  LearnThreshold = 1
  LearnCap = 1
  DefaultMode = "smart"
  LaneInputs = {"locked", "loop", "ordinary"}
  RiskInputs = {"LOW", "MEDIUM", "HIGH"}
  ModeInputs = {"manual", "smart", "unattended"}
  VerdictInputs = {"ALLOW", "ALLOW-CRITICAL", "DENY", "ESCALATE", "FAILURE"}
  TimeoutInputs = {"low-risk-allow"}
  Outside = {"client", "sweep", "reset", "abort", "hold"}
  t1 = t1
  t2 = t2
  t3 = t3
  t4 = t4
  m1 = m1
  m2 = m2
  NoTask = NoTask
  Tasks = {t1, t2, t3, t4}
  Locks = {m1, m2}
  LockOf <- Keys4
SPECIFICATION ProgressSpec
CHECK_DEADLOCK FALSE
PROPERTIES
  AskEnds
  ImplementsFifoLock
  SectionsComplete

\* One request through every lane, with every verdict and every outside handler.
CONSTANTS
  c1 = c1
  s1 = s1
  k1 = k1
  Calls = {c1}
  Sessions <- OneSession
  Keys <- OneKey
  SessionOf <- SameSession
  KeyOf <- SameKey
  MaxConsecutive = 1
  MaxTotal = 2
  LearnThreshold = 1
  LearnCap = 1
  DefaultMode = "smart"
  LaneInputs = {"deny", "allow", "plain", "direct", "locked", "loop", "ordinary"}
  RiskInputs = {"LOW", "MEDIUM", "HIGH"}
  ModeInputs = {"manual", "smart", "unattended"}
  VerdictInputs = {"ALLOW", "ALLOW-CRITICAL", "DENY", "ESCALATE", "FAILURE"}
  TimeoutInputs = {"allow", "low-risk-allow", "reject"}
  Outside = {"client", "page", "sweep", "notice", "reset", "mode", "abort", "hold"}
SPECIFICATION Spec
CHECK_DEADLOCK FALSE
INVARIANTS
  AuditMatchesResult
  ProvenanceHonest
  FailsClosed
  MapsFollowTheAsk
  FollowTellsTheTruth
  NoticeIsTrue

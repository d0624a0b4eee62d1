\* A direct human request whose answer cannot be audited.
CONSTANTS
  c1 = c1
  c2 = c2
  s1 = s1
  k1 = k1
  Calls = {c1, c2}
  Sessions <- OneSession
  Keys <- OneKey
  SessionOf <- SameSession
  KeyOf <- SameKey
  MaxConsecutive = 1
  MaxTotal = 2
  LearnThreshold = 1
  LearnCap = 1
  DefaultMode = "smart"
  LaneInputs = {"direct"}
  RiskInputs = {"LOW", "MEDIUM", "HIGH"}
  ModeInputs = {"manual", "smart", "unattended"}
  VerdictInputs = {"ALLOW", "ALLOW-CRITICAL", "DENY", "ESCALATE", "FAILURE"}
  TimeoutInputs = {"allow", "low-risk-allow", "reject"}
  Outside = {}
SPECIFICATION Spec
CHECK_DEADLOCK FALSE
PROPERTIES
  UnauditedNeverTrains

\* A global reset while an unattended review is in flight.
CONSTANTS
  c1 = c1
  s1 = s1
  k1 = k1
  Calls = {c1}
  Sessions <- OneSession
  Keys <- OneKey
  SessionOf <- SameSession
  KeyOf <- SameKey
  MaxConsecutive = 1
  MaxTotal = 2
  LearnThreshold = 1
  LearnCap = 1
  DefaultMode = "unattended"
  LaneInputs = {"ordinary"}
  RiskInputs = {"LOW", "MEDIUM", "HIGH"}
  ModeInputs = {"manual", "smart", "unattended"}
  VerdictInputs = {"ALLOW", "ALLOW-CRITICAL", "DENY", "ESCALATE", "FAILURE"}
  TimeoutInputs = {"allow", "low-risk-allow", "reject"}
  Outside = {"reset"}
SPECIFICATION Spec
CHECK_DEADLOCK FALSE
INVARIANTS
  UnattendedNeverRidesTimeout

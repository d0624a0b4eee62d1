\* Two requests of one session under one signature: the breaker trips, a
\* confirmation is earned, spent, reset and revoked, sessions change mode and go.
CONSTANTS
  c1 = c1
  c2 = c2
  s1 = s1
  k1 = k1
  Calls = {c1, c2}
  Sessions <- OneSession
  Keys <- OneKey
  SessionOf <- SameSession
  KeyOf <- SameKey
  MaxConsecutive = 1
  MaxTotal = 2
  LearnThreshold = 1
  LearnCap = 1
  DefaultMode = "smart"
  LaneInputs = {"direct", "ordinary"}
  RiskInputs = {"LOW", "MEDIUM"}
  ModeInputs = {"unattended"}
  VerdictInputs = {"ALLOW", "DENY"}
  TimeoutInputs = {"low-risk-allow"}
  Outside = {"mode", "dispose"}
SPECIFICATION Spec
CHECK_DEADLOCK FALSE
SYMMETRY CallSymmetry
PROPERTIES
  BreakerHonest
  LearningHonest

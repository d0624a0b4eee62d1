\* A call of any kind beside a call on the same file, under nine settings.
CONSTANTS
  c1 = c1
  c2 = c2
  Calls = {c1, c2}
  Agents <- Sessions
  Origin <- Headers
  CallsOf <- OneOfAnyKind
  Configs <- Operators
  RuleTexts <- RulesTexts
  Threshold = 2
  MaxKeys = 1
  PlanCap = 1
  MaxChanges = 1
SPECIFICATION Spec
CHECK_DEADLOCK FALSE
INVARIANTS
  AuditedBeforeRun
  LocksHold
  OperatorTerminals
  EscalationHolds
  ProvenanceEarned

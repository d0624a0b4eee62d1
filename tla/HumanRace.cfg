\* Every order of click, claim, cancellation, expiry and held panel, beside a
\* second call of the step.
CONSTANTS
  MaxHops = 3
  TimeoutInputs = {"allowed-once", "rejected"}
  Siblings = {"sibling"}
  MaxGuidance = 1
  MaxSwitches = 2
SPECIFICATION FairAskSpec
CHECK_DEADLOCK FALSE
INVARIANT NoticesReachTheAgent
PROPERTY RaceIsSound

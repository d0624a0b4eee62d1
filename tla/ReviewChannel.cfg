\* Half-second ticks: the shipped defaults (5, 8 and 10 seconds, a wait of 5
\* seconds per attempt, back-off 0.5, guard 1.5), and a one-second countdown.
CONSTANTS
  Budgets = {2, 10, 16, 20}
  RetryLimits = {0, 1, 2}
  AttemptTimeout = 10
  Backoff = 1
  Guard = 3
  RetryAfters = {0, 2, 12}
  Statuses = {200, 302, 400, 401, 404, 413, 429, 499, 500, 503}
  MaxSnapshot = 4
SPECIFICATION FairSpec
CHECK_DEADLOCK FALSE
INVARIANTS
  FailureBeatsCountdown
PROPERTIES
  RetryDiscipline
  ReviewReturns

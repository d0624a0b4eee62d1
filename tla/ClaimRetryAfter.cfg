\* A provider asks for a wait that no longer fits.
CONSTANTS
  Budgets = {2, 10, 16, 20}
  RetryLimits = {0, 1, 2}
  AttemptTimeout = 10
  Backoff = 1
  Guard = 3
  RetryAfters = {0, 2, 12}
  Statuses = {200, 302, 400, 401, 404, 413, 429, 499, 500, 503}
  MaxSnapshot = 0
SPECIFICATION Spec
CHECK_DEADLOCK FALSE
INVARIANTS
  WaitFitsWindow

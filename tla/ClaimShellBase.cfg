SPECIFICATION Spec
CONSTANTS
  Workspaces = {"workspace"}
  Segments <- Typed
  Places = {"elsewhere", "dshHome"}
  MaxNested = 1
  MaxSegments = 3
INVARIANT DeletionsFollowTheShell
CHECK_DEADLOCK FALSE

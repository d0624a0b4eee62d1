SPECIFICATION Spec
CONSTANTS
  Workspaces = {"workspace", "zone"}
  Segments <- Typed
  Places = {"elsewhere", "dshHome"}
  MaxNested = 2
  MaxSegments = 3
INVARIANTS
  AllowedIsHarmless
  FuseCoversTheRun
  OpeningStaysInTheZone
CHECK_DEADLOCK FALSE

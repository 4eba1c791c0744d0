\* three requests, two daemons, sync tasks, crashes
SPECIFICATION Spec
CONSTANTS
  Pipes = {p1, p2}
  MaxTasks = 3
  SyncKinds = {TRUE, FALSE}
  Sizes = {1}
  LimitBytes = 0
  ReplyPool = 1
  SendDepth = 2
  Targets = {}
  CancelIds = {}
  MaxCancels = 1
  Markers = {FALSE}
  MayFail = FALSE
  MayStop = FALSE
  MayCrash = TRUE
SYMMETRY PipeSymmetry
INVARIANTS TypeOK ContextHeldOnce WorkConserving SyncBarrier
PROPERTIES ImplementsPool
CHECK_DEADLOCK FALSE

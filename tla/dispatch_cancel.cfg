\* cancellation and departing daemons
SPECIFICATION Spec
CONSTANTS
  Pipes = {p1, p2}
  MaxTasks = 2
  SyncKinds = {FALSE}
  Sizes = {1}
  LimitBytes = 0
  ReplyPool = 1
  SendDepth = 2
  Targets = {}
  CancelIds = {1, 2}
  MaxCancels = 1
  Markers = {TRUE, FALSE}
  MayFail = FALSE
  MayStop = FALSE
  MayCrash = TRUE
SYMMETRY PipeSymmetry
INVARIANTS CountersExact StartSendNeverBlocks TaskNotDropped NoRequestAbandoned
CHECK_DEADLOCK FALSE

\* the memory budget and the waits of the R thread
SPECIFICATION Spec
CONSTANTS
  Pipes = {p1}
  MaxTasks = 3
  SyncKinds = {FALSE}
  Sizes = {1, 2}
  LimitBytes = 2
  ReplyPool = 1
  SendDepth = 2
  Targets = {1}
  CancelIds = {2}
  MaxCancels = 1
  Markers = {FALSE}
  MayFail = FALSE
  MayStop = FALSE
  MayCrash = TRUE
INVARIANTS NoLostWakeup QueuedBytesExact
CHECK_DEADLOCK FALSE

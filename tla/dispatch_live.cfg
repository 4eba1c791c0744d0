\* every request is settled
SPECIFICATION FairSpec
CONSTANTS
  Pipes = {p1, p2}
  MaxTasks = 2
  SyncKinds = {FALSE}
  Sizes = {1}
  LimitBytes = 0
  ReplyPool = 1
  SendDepth = 2
  Targets = {}
  CancelIds = {}
  MaxCancels = 1
  Markers = {TRUE, FALSE}
  MayFail = FALSE
  MayStop = FALSE
  MayCrash = TRUE
PROPERTIES EveryRequestSettled
CHECK_DEADLOCK FALSE

\* stop always ends
SPECIFICATION FairSpec
CONSTANTS
  Pipes = {p1, p2}
  MaxTasks = 1
  SyncKinds = {FALSE}
  Sizes = {1}
  LimitBytes = 0
  ReplyPool = 1
  SendDepth = 2
  Targets = {}
  CancelIds = {}
  MaxCancels = 1
  Markers = {FALSE}
  MayFail = TRUE
  MayStop = TRUE
  MayCrash = TRUE
PROPERTIES StopCompletes
CHECK_DEADLOCK FALSE

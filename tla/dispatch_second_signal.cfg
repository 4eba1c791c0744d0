\* two requests to one daemon, each cancelled once
SPECIFICATION Spec
CONSTANTS
  Pipes = {p1}
  MaxTasks = 2
  SyncKinds = {FALSE}
  Sizes = {1}
  LimitBytes = 0
  ReplyPool = 1
  SendDepth = 2
  Targets = {}
  CancelIds = {1, 2}
  MaxCancels = 1
  Markers = {FALSE}
  MayFail = FALSE
  MayStop = FALSE
  MayCrash = TRUE
INVARIANTS OneTaskOneSignalInFlight
CHECK_DEADLOCK FALSE

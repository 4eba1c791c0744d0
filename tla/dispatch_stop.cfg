\* stop and failing allocations at any moment
SPECIFICATION Spec
CONSTANTS
  Pipes = {p1, p2}
  MaxTasks = 2
  SyncKinds = {FALSE}
  Sizes = {1}
  LimitBytes = 0
  ReplyPool = 1
  SendDepth = 2
  Targets = {}
  CancelIds = {1}
  MaxCancels = 1
  Markers = {FALSE}
  MayFail = TRUE
  MayStop = TRUE
  MayCrash = TRUE
SYMMETRY PipeSymmetry
INVARIANTS SenderNotFreed RepCloseNeverBlocks NothingAfterFree

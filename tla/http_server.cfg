SPECIFICATION FairSpec
CONSTANTS
  w1 = w1
  s1 = s1
  q1 = q1
  Ws = {w1}
  Streams = {s1}
  Reqs = {q1}
  MaxMsgs = 2
  Quiet = TRUE
  Top = Top
INVARIANT TypeOK
INVARIANT SafeToFree
INVARIANT CleanupIsLast
INVARIANT FinishedOnce
PROPERTY NothingAfterEnd
PROPERTY ImplementsConnLife
PROPERTY RequestFinished
PROPERTY StopFreesConns
CHECK_DEADLOCK FALSE

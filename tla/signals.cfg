SPECIFICATION FairSpec
CONSTANTS
  ca = ca
  c1 = c1
  c2 = c2
  p1 = p1
  p2 = p2
  Cvs = {ca, c1, c2}
  Links <- Chain
  Pipes = {p1, p2}
  Monitored = ca
  Grow = 1
  MaxSignals = 2
  Quiet = TRUE
INVARIANT TypeOK
INVARIANT SleepsForReason
INVARIANT WaitsMatched
INVARIANT KnownPipes
PROPERTY AllForwarded
PROPERTY CancelReturns
CHECK_DEADLOCK FALSE

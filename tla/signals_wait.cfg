SPECIFICATION Spec
CONSTANTS
  ca = ca
  c1 = c1
  c2 = c2
  Cvs = {ca, c1, c2}
  Links <- Chain
  Pipes = {}
  Monitored = ca
  Grow = 1
  MaxSignals = 3
  Quiet = FALSE
INVARIANT WaitsMatched
CHECK_DEADLOCK FALSE

SPECIFICATION Spec
CONSTANTS
  w1 = w1
  Ws = {w1}
  Streams = {}
  Reqs = {}
  MaxMsgs = 1
  Quiet = FALSE
  Top = Top
INVARIANT SafeToFree
CHECK_DEADLOCK FALSE

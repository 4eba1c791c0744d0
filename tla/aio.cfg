SPECIFICATION FairSpec
CONSTANTS
  s1 = s1
  s2 = s2
  v1 = v1
  v2 = v2
  Sends = {s1, s2}
  Recvs = {v1, v2}
  Plain = {v2}
  Starts = {{s1, s2}, {v1, v2}}
  Quiet = TRUE
  NoAio = NoAio
INVARIANT TypeOK
INVARIANT FreedUnused
INVARIANT HandedOver
INVARIANT UnloadedClean
INVARIANT ResolvedOnce
INVARIANT RaceNotMissed
PROPERTY MessageTaken
CHECK_DEADLOCK FALSE
PROPERTY PromiseResolved
PROPERTY FinalizerReturns

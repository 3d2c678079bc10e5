SPECIFICATION CoreFairSpec
CONSTANTS
  Fibers = {f1, f2, f3}
  NoFiber = NoFiber
  NoCode = NoCode
  MaxWrites = 2
  RESTART_WINDOW = 3
  RESTART_WINDOW_LIMIT = 2
  RESTART_BACKOFF = 1
  MaxTime = 9
  NoResult = NoResult
  Absent = Absent
  Edited = Edited
  MaxReleases = 3
  MaxCrashes = 2
  Requests = {q1, q2}
  Owners = {o1, o2}
  Nobody = Nobody
  Sessions = {s1, s2}
  Calls = {k1, k2, k3}
  NoSession = NoSession
  MAX_PENDING_TOOL_CALLS = 2
  Exclusive = {k1}
  Pinned = {k2}
  Original = Original
  NoFile = NoFile
  NoCall = NoCall
INVARIANTS
  TypeOK
  OneSession
  LeasesBalance
  ExitIsTruthful
PROPERTIES
  GatePasses
  EditsKept
  OneHeadOneOwner
  StatusTruthful
  StopsEnd
  EveryWriteSettles
CHECK_DEADLOCK FALSE

SPECIFICATION FairSpec
CONSTANTS
  r1 = r1
  r2 = r2
  r3 = r3
  r4 = r4
  s1 = s1
  s2 = s2
  id1 = id1
  p1 = p1
  NoId = NoId
  NoDigest = NoDigest
  Requests = {r1, r3, r4}
  Operations = {o1, o2}
  Sessions = {s1, s2}
  RequestIds = {id1}
  Prompts = {p1}
  Submitted <- MCSubmitted
  StorageFaults = {}
  MaxRestarts = 0
INVARIANTS
  TypeOK
  SlotsExclusive
  PendingOwned
  OwnerNeverStale
PROPERTIES
  Answered

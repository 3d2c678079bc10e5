SPECIFICATION PageSpec
CONSTANTS
  Sessions = {a, b}
  Created = {c}
  None = none
  Slots = {s1, s2}
  MaxIntents = 1
  MaxForeign = 1
  MaxFailures = 0
  Annotations = {n1}
  NoDraft = NoDraft
  MaxWritten = 2
  MaxSubmissions = 2
  MaxReloads = 1
INVARIANTS
  NavigationSound
  SentOnce
PROPERTIES
  DraftsKept
SYMMETRY NavigationSymmetry
CHECK_DEADLOCK FALSE

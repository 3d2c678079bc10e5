SPECIFICATION Spec
CONSTANTS
  Sessions = {a, b}
  Created = {c}
  None = none
  Slots = {s1, s2}
  MaxIntents = 2
  MaxForeign = 0
  MaxFailures = 0
INVARIANT LatestIntentWins
CHECK_DEADLOCK FALSE

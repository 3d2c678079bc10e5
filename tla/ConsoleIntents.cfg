SPECIFICATION ForklessSpec
CONSTANTS
  Sessions = {a, b}
  Created = {c}
  None = none
  Slots = {s1}
  MaxIntents = 3
  MaxForeign = 1
  MaxFailures = 1
INVARIANT LatestIntentWins
PROPERTY Converges
CHECK_DEADLOCK FALSE

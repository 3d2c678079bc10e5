SPECIFICATION FairSpec
CONSTANTS
  Processes = {leader, child}
  Leader = leader
  maxOutputBytes = 2
  MaxChunk = 2
  Panels = {p1, p2}
  Callers = {c1, c2}
  NoPanel = NoPanel
  MaxRegistrations = 2
  MaxReads = 2
  Ops = {o1, o2}
  Children = {1, 2}
  Nobody = Nobody
  MaxScope = 2
  MaxSession = 2
  MaxRuns = 3
  MaxInstances = 2
  MaxCalls = 2
  maxRedirects = 2
  MaxFetches = 2
INVARIANTS
  AnswersAreWhole
  OneAtATime
  PlanIsSound
PROPERTIES
  StartedInPlace
  PanelsAreCurrent
  NoSurvivors
  CallsReturn
CHECK_DEADLOCK FALSE

SPECIFICATION StorageSpec
CONSTANTS
  Calls = {w1, w2, w3}
  Exclusive = {w1}
  Pinned = {w2}
  Original = Original
  NoFile = NoFile
  NoCall = NoCall
  Handlers = {h1, h2}
  Paths = {p1, p2}
  Nobody = Nobody
  Requests = {q1, q2}
  WorkspaceFiles = {a, b}
  Texts = {v1, v2}
  Text = v1
  NoText = NoText
  MaxActs = 2
  Plugins <- CatalogPlugins
  Runtime = Runtime
  Plan <- CatalogPlan
  DependsOn <- CatalogDependencies
  ToolPlugins <- CatalogTools
  Changers = {q1, q2}
  NoPlugin = NoPlugin
  Processes = {o1, o2}
  NoLock = NoLock
  NoEntry = NoEntry
  MaxCost = 2
  MaxDay = 2
  MaxCrashes = 1
  Nodes = {n1, n2}
  Absent = Absent
  maxNodes = 2
  MaxLocks = 3
  Sessions = {s1, s2}
  Digests = {d1, d2, d3}
  None = None
  MaxHeaders = 2
  maxQueued = 2
  maxRunTokens = 3
  streamingUpdateInterval = 3
  MaxRuns = 2
  MaxMessage = 2
  MaxTotal = 5
  Fingerprints = {f1, f2, f3, f4}
  maxFailures = 2
  MaxObserved = 6
  Types = {cs, t1, t2, t3}
  CompactionStart = cs
  Other = other
  maxEventTypes = 3
  maxRecentEvents = 2
  MaxSession = 2
  MaxEvents = 4
  maxCapsules = 3
CONSTRAINTS
  LostRollbackEnds
  ByName
INVARIANTS
  TypeOK
  NeverTorn
  GatewayFilesSound
  SharedFilesSerial
  HandoffsKept
  CountsAddUp
PROPERTIES
  ModeCarried
  ImplementsAtomicFile
  ChangesAsAsked
CHECK_DEADLOCK FALSE

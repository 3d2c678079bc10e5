SPECIFICATION Spec
CONSTANTS
  Handlers = {h1}
  Paths = {p1, p2}
  Nobody = Nobody
INVARIANT AppendsLandInFiles
CHECK_DEADLOCK FALSE

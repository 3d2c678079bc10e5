SPECIFICATION Spec
CONSTANTS
  WorkspaceFiles = {a, b}
  Texts = {v1, v2}
  Text = v1
  Absent = Absent
  MaxActs = 1
INVARIANTS
  RevertDiscards
CHECK_DEADLOCK FALSE

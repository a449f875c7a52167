SPECIFICATION Spec
CONSTANTS
  a = a
  b = b
  c = c
  t = t
  Ids = {a, b, c}
  Titles = {t}
  Statuses = {"todo", "in_progress", "done"}
  Contents <- MCContents
  TargetSets <- MCTargetSets
  Kinds = {"author", "transact"}
  Keep = Keep
  Position <- MCPosition
  MaxCommands = 2
  MaxOps = 2
  MaxFaults = 0
INVARIANT RequestedEdgesLand
CHECK_DEADLOCK FALSE

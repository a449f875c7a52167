SPECIFICATION Spec
CONSTANTS
  p1 = p1
  p2 = p2
  Torn = Torn
  BigLog = 6
  Phases = {p1, p2}
  NoPhase = NoPhase
  FlagSets <- MCFlagSets
  OtherEvents = {"revision_start", "phase_start"}
  MaxRegistry = 1
  MaxRuns = 2
  MaxOthers = 2
  MaxFaults = 1
SYMMETRY Interchangeable
PROPERTY NeverRewritten
CHECK_DEADLOCK FALSE

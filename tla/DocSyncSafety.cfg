SPECIFICATION Spec
CONSTANTS
  A = A
  B = B
  x = x
  y = y
  d1 = d1
  d2 = d2
  Docs = {d1, d2}
  Anchors = {A}
  Bodies = {x, y}
  Statuses = {"draft", "approved"}
  AnchorRank <- MCRank
  Texts <- BatchTexts
  NoFile = NoFile
  NoHash = NoHash
  MetaHash = MetaHash
  MaxPosition = 2
  MaxFaults = 2
  EditorQuiet = TRUE
INVARIANT TypeOK
PROPERTIES EditsSurviveFinalize OverwritesAreBackedUp ApprovedNodeStands
SYMMETRY Symmetry
CHECK_DEADLOCK FALSE

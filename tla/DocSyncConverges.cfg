SPECIFICATION FairSpec
CONSTANTS
  A = A
  B = B
  x = x
  y = y
  d1 = d1
  d2 = d2
  Docs = {d1}
  Anchors = {A, B}
  Bodies = {x, y}
  Statuses = {"draft"}
  AnchorRank <- MCRank
  Texts <- MovedTexts
  NoFile = NoFile
  NoHash = NoHash
  MetaHash = MetaHash
  MaxPosition = 2
  MaxFaults = 2
  EditorQuiet = TRUE
INVARIANT IngestAbsorbs
 
CHECK_DEADLOCK FALSE

SPECIFICATION Spec
CONSTANTS
  Anchors <- MCAnchors
  Texts <- MCTexts
  Entities <- MCEntities
  NoEntity = "none"
  DefinedBy <- MCDefinedBy
  InitialTexts <- MCInitialTexts
  Narratives <- MCNarratives
  Tidy = TRUE
  MaxOps = 3
  MaxPosition = 8
INVARIANT TypeOK
INVARIANT TileCover
INVARIANT EveryHeadingWritable
INVARIANT EntitiesFollowText
PROPERTY RevisionsReachExport
PROPERTY RejectedIsUndone
CHECK_DEADLOCK FALSE

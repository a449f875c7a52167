SPECIFICATION Spec
CONSTANTS
  Anchors <- MCAnchors
  Texts <- MCTexts
  Entities <- MCEntities
  NoEntity = "none"
  DefinedBy <- MCDefinedBy
  InitialTexts <- MCInitialTexts
  Narratives <- MCNarratives
  Tidy = FALSE
  MaxOps = 3
  MaxPosition = 8
CHECK_DEADLOCK FALSE
INVARIANT TileCover

SPECIFICATION Spec
CONSTANTS
  Names <- MCNames
  Signals <- MCSignals
  Hidden <- MCHidden
  MaxFile = 2
  MaxTotal = 3
  MaxDepth = 2
  Unlimited = 9
  MaxEntries = 5
  Trees <- MCSoundTrees
  Archives <- MCArchives
INVARIANTS
  FirstDefectDecides
  ExtractedExactly
  NoCollectionLost
  AnswerIsOfTheTree
  ArchiveByItsCollection
CHECK_DEADLOCK FALSE

SPECIFICATION ArtifactsSpec
CONSTANTS
  d1 = d1
  d2 = d2
  Paths <- TwoDocuments
  Versions = {1, 2}
  None = None
  Torn = Torn
  Unfit <- BadForPublish
  Unloadable <- BadForImport
  MaxEdits = 1
  MaxMishaps = 1
CHECK_DEADLOCK FALSE
INVARIANT OneVersion
PROPERTIES
  KeptForGood
  EventuallyRendered
  EventuallyImported

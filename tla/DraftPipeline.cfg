SPECIFICATION Spec
CHECK_DEADLOCK FALSE
CONSTANT Briefs <- AllBriefs
INVARIANTS
  NamedLayersAreUnique
  RecordedDraftIsComplete
  GraphicRecordAgrees
  SceneMatchesManifest
  CtaStaysOnItsContainer
  LayersOnCanvas
  CopyStackClear
  CompletedIsClean
PROPERTIES
  PatchWorsensNothing

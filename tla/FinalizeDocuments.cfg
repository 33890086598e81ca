SPECIFICATION Spec
CONSTANTS
  MaxAttempts = 3

CHECK_DEADLOCK FALSE
INVARIANTS
  RefsResolve
  SavedIsBacked
  CompletedBundleIsFinal
  BundleOfOneAttempt

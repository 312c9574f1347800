SPECIFICATION Spec
CONSTANTS
  Names <- ClassNames
  None = None
  Members = {"init", "run"}
INVARIANTS
  ParsedOnce
  NearestIsFound
PROPERTIES
  ClassIdentity
  LoadsOnlyItsPath
CHECK_DEADLOCK FALSE

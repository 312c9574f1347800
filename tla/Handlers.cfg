SPECIFICATION HandlerSpec
CONSTANTS
  Names <- ThreeNames
  None = None
  Members = {"init"}
  AnyType = AnyType
  MaxPc = 3
  Tables <- SmallTables
INVARIANTS
  HeapAnswersLikeLineage
  FirstEntryDecides
  LaterEntriesSeeTheHandler
PROPERTIES
  SearchLoadsNothing
CHECK_DEADLOCK FALSE

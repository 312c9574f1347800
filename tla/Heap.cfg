SPECIFICATION Spec
CONSTANTS
  Class <- Classes
  None = None
  Array = Array
  Super <- SuperOf
  Fields <- FieldsOf
  Pools <- JavacPools
  Main = "B"
  StringClass = "String"
  ArrayLengths = {1}
  Locals = 2
  MaxOperands = 2
  MaxObjects = 2
  MaxFrames = 2
  MaxReference = 2
  Arguments = 0
INVARIANTS
  CountsCoverHolders
  OwnFieldsAreRight
PROPERTIES
  OnlyCollectionsHealLeaks
  CollectsOnlyGarbage
  FirstCollectionReturns
  CollectionsTakeArrays
CHECK_DEADLOCK FALSE

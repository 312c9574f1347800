SPECIFICATION Spec
CONSTANTS
  Threads = {t1}
  Addr = {a1, a2, a3}
  Null = Null
  NoThread = NoThread
  Freed = Freed
  AnyType = AnyType
  Objects <- TwoObjects
  Methods <- ThrowMethods
  EntryMethods <- ThrowEntries
  SyncMethods <- ThrowSync
  NativeMethods = {}
  AbstractMethods = {}
  Code <- ThrowCode
  ExceptionTable <- ThrowTable
  Classes <- ClassNames
  Lineage <- ClassLineage
  TimeJumps = TRUE
  DanglingOutcomes = {"running", "aborted"}
  MinMonitor <- NarrowMin
  MaxMonitor = 2
SYMMETRY Symmetry
PROPERTIES
  ExceptionReachesCaller
CHECK_DEADLOCK FALSE

SPECIFICATION Spec
CONSTANTS
  Threads = {t1, t2}
  Addr = {a1, a2, a3, a4, a5, a6}
  Null = Null
  NoThread = NoThread
  Freed = Freed
  AnyType = AnyType
  Objects <- TwoObjects
  Methods <- RawMethods
  EntryMethods <- RawEntries
  SyncMethods <- RawSync
  NativeMethods <- RawNative
  AbstractMethods <- RawAbstract
  Code <- RawCode
  ExceptionTable <- RawTable
  Classes <- ClassNames
  Lineage <- ClassLineage
  TimeJumps = TRUE
  DanglingOutcomes = {"running", "aborted"}
  MinMonitor <- NarrowMin
  MaxMonitor = 2
SYMMETRY Symmetry
INVARIANTS
  PcInCode
  NoLostWakeup
PROPERTIES
  BelowZeroUntilOverflow
CHECK_DEADLOCK FALSE

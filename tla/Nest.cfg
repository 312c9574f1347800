SPECIFICATION Spec
CONSTANTS
  Threads = {t1, t2, t3}
  Addr = {a1, a2, a3, a4, a5, a6}
  Null = Null
  NoThread = NoThread
  Freed = Freed
  AnyType = AnyType
  Objects <- TwoObjects
  Methods <- NestMethods
  EntryMethods <- NestEntries
  SyncMethods <- NestSync
  NativeMethods = {}
  AbstractMethods = {}
  Code <- NestCode
  ExceptionTable <- NestTable
  Classes <- ClassNames
  Lineage <- ClassLineage
  TimeJumps = TRUE
  DanglingOutcomes = {"running", "aborted"}
  MinMonitor <- NarrowMin
  MaxMonitor = 2
SYMMETRY Symmetry
INVARIANTS
  TypeOK
  FrameOwnership
  OnePlacePerThread
  MutualExclusion
  HeldIsLocked
  NoLostWakeup
PROPERTIES
  ImplementsEntryMonitor
CHECK_DEADLOCK FALSE

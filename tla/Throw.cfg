SPECIFICATION Spec
CONSTANTS
  Threads = {t1, t2, t3}
  Addr = {a1, a2, a3, a4, a5, a6}
  Null = Null
  NoThread = NoThread
  Freed = Freed
  AnyType = AnyType
  Objects <- TwoObjects
  Methods <- ThrowMethods
  EntryMethods <- ThrowEntries
  SyncMethods <- ThrowSync
  NativeMethods = {}
  AbstractMethods = {}
  Code <- ThrowCode
  ExceptionTable <- ThrowTable
  Classes <- ClassNames
  Lineage <- ClassLineage
  TimeJumps = FALSE
  DanglingOutcomes = {"running", "aborted"}
  MinMonitor <- NarrowMin
  MaxMonitor = 2
SYMMETRY Symmetry
INVARIANTS
  MutualExclusion
PROPERTIES
  AbandonedMonitorsStayLocked
  BlockedForEver
CHECK_DEADLOCK FALSE

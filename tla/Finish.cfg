SPECIFICATION FairSpec
CONSTANTS
  Threads = {t1, t2}
  Addr = {a1, a2, a3, a4, a5}
  Null = Null
  NoThread = NoThread
  Freed = Freed
  AnyType = AnyType
  Objects <- TwoObjects
  Methods <- OrderMethods
  EntryMethods <- OrderEntries
  SyncMethods <- OrderSync
  NativeMethods = {}
  AbstractMethods = {}
  Code <- OrderCode
  ExceptionTable <- OrderTable
  Classes <- ClassNames
  Lineage <- ClassLineage
  TimeJumps = TRUE
  DanglingOutcomes = {"running"}
  MinMonitor <- NarrowMin
  MaxMonitor = 2
PROPERTIES
  AllThreadsFinish

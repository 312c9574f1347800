SPECIFICATION CallSpec
CONSTANTS
  Threads = {t1, t2, t3}
  Addr = {a1, a2, a3, a4, a5, a6}
  Null = Null
  NoThread = NoThread
  Freed = Freed
  AnyType = AnyType
  Objects <- TwoObjects
  Methods <- InvokeMethods
  EntryMethods <- InvokeEntries
  SyncMethods <- InvokeSync
  NativeMethods = {}
  AbstractMethods = {}
  Code <- InvokeCode
  ExceptionTable <- InvokeTable
  Classes <- ClassNames
  Lineage <- ClassLineage
  TimeJumps = TRUE
  DanglingOutcomes = {"running", "aborted"}
  MinMonitor <- NarrowMin
  MaxMonitor = 2
  CallStack = t3
  VoidMethods <- InvokeVoid
  NoLocals <- InvokeNoLocals
  MaxCalls = 2
SYMMETRY CallSymmetry
INVARIANTS
  NoLostWakeup
PROPERTIES
  FinishedCallsLeaveNoTrace
  OwnerlessForEver
CHECK_DEADLOCK FALSE

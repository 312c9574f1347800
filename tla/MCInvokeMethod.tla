--------------------------- MODULE MCInvokeMethod ---------------------------
(***************************************************************************)
(* A program for checking InvokeMethod: the methods called from C++ return *)
(* a value or nothing, throw, and wait for an object that the caller, or   *)
(* another thread, is inside of.                                           *)
(***************************************************************************)
EXTENDS InvokeMethod, MCJavaVM

CallSymmetry == Permutations(Addr)

InvokeMethods == {"main", "sync", "get", "nest", "fail", "static"}
InvokeEntries == {"main"}
InvokeSync == {"sync", "nest", "static"}
InvokeVoid == {"main", "sync", "nest"}
InvokeNoLocals == {"static"}
InvokeCode ==
  [main   |-> <<Call("o1", "sync"), Plain("return")>>,
   sync   |-> <<Plain("next"), Plain("return")>>,
   get    |-> <<Jump(2), Call("o1", "sync"), Call("o2", "nest"), Plain("return")>>,
   nest   |-> <<Call("o1", "sync"), Plain("return")>>,
   fail   |-> <<Jump(2), Plain("raise"), Throw("Error")>>,
   static |-> <<Plain("return")>>]
InvokeTable == NoEntries(InvokeMethods)
=============================================================================

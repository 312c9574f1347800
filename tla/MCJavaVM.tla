------------------------------ MODULE MCJavaVM ------------------------------
(***************************************************************************)
(* Programs and bounds for checking JavaVM.  Methods, objects and classes  *)
(* are strings; threads and addresses are model values, so that TLC can    *)
(* take them up to permutation.                                            *)
(***************************************************************************)
EXTENDS JavaVMClaims, TLC

Symmetry == Permutations(Threads) \cup Permutations(Addr)

NoEntries(methods) == [m \in methods |-> <<>>]

\* Instructions.
Op(op, obj, method, target, class) ==
  [op |-> op, obj |-> obj, method |-> method, target |-> target, class |-> class]
Plain(op) == Op(op, Null, "main", 0, "Object")
Jump(target) == Op("branch", Null, "main", target, "Object")
Call(obj, method) == Op("invoke", obj, method, 0, "Object")
On(op, obj) == Op(op, obj, "main", 0, "Object")
Throw(class) == Op("athrow", "o1", "main", 0, class)
ThrowNull == Op("athrow", Null, "main", 0, "Object")

TwoObjects == {"o1", "o2"}
OneObject == {"o1"}

\* Object <- Error <- Timeout, and Object <- Other.
ClassNames == {"Object", "Error", "Timeout", "Other"}
ClassLineage ==
  [Object |-> {"Object"}, Error |-> {"Error", "Object"},
   Timeout |-> {"Timeout", "Error", "Object"}, Other |-> {"Other", "Object"}]

-----------------------------------------------------------------------------
(* Nested synchronized calls, in both orders *)

NestMethods == {"main", "swap", "outer", "inner", "leaf"}
NestEntries == {"main", "swap"}
NestSync == {"outer", "inner", "leaf"}
NestCode ==
  [main  |-> <<Call("o1", "outer"), Plain("return")>>,
   swap  |-> <<Call("o2", "inner"), Call("o2", "leaf"), Plain("return")>>,
   outer |-> <<Jump(2), Call("o2", "leaf"), Plain("return")>>,
   inner |-> <<Call("o1", "leaf"), Plain("return")>>,
   leaf  |-> <<Plain("next"), Plain("return")>>]
NestTable == NoEntries(NestMethods)

-----------------------------------------------------------------------------
(* Synchronized calls in one order: no deadlock *)

OrderMethods == {"main", "side", "outer", "leaf"}
OrderEntries == {"main", "side"}
OrderSync == {"outer", "leaf"}
OrderCode ==
  [main  |-> <<Call("o1", "outer"), Plain("return")>>,
   side  |-> <<Call("o2", "leaf"), Call("o1", "leaf"), Plain("return")>>,
   outer |-> <<Call("o2", "leaf"), Plain("return")>>,
   leaf  |-> <<Plain("return")>>]
OrderTable == NoEntries(OrderMethods)

-----------------------------------------------------------------------------
(* Exceptions inside synchronized methods, calls on an object the caller is    *)
(* inside of, and monitorenter on one                                          *)

ThrowMethods == {"main", "side", "again", "cross", "risky", "self", "leaf"}
ThrowEntries == {"main", "side", "again", "cross"}
ThrowSync == {"risky", "self", "leaf"}
ThrowCode ==
  [main  |-> <<Call("o1", "risky"), Call("o1", "leaf"), Plain("return")>>,
   side  |-> <<Call("o2", "leaf"), Call("o1", "leaf"), Plain("raise")>>,
   again |-> <<Jump(2), Call("o2", "self"), Plain("return")>>,
   cross |-> <<Jump(2), Call("o2", "risky"), Call("o1", "self"), Plain("raise")>>,
   risky |-> <<Jump(3), Throw("Timeout"), Throw("Other"), Call("o2", "leaf"),
               Jump(2), Throw("Error")>>,
   self  |-> <<Jump(2), Call("o2", "leaf"), On("monitorenter", "o2")>>,
   leaf  |-> <<Plain("return")>>]
\* The throw at 1 is caught at 4, the throw at 2 escapes, the one at 5 is missed.
ThrowTable ==
  [NoEntries(ThrowMethods) EXCEPT
     !["risky"] = <<[start_pc |-> 1, end_pc |-> 2, handler_pc |-> 4,
                     catch_type |-> "Error"]>>]

-----------------------------------------------------------------------------
(* monitorenter, monitorexit and local 0 as bytecode can use them, and every  *)
(* way to abort the process                                                   *)

RawMethods ==
  {"main", "side", "leaf", "swap", "fault", "native", "table", "range", "enter",
   "exit", "none", "throw", "absent"}
RawEntries == {"main", "side", "fault", "throw", "native"}
RawSync == {"leaf", "swap", "throw"}
RawNative == {"native"}
RawAbstract == {"absent"}
RawCode ==
  [main |-> <<Jump(2), On("store0", "o2"), Jump(4), On("monitorexit", "o1"),
              On("monitorenter", "o1")>>,
   side |-> <<Jump(2), Call("o1", "leaf"), Call("o1", "swap"), Plain("return")>>,
   leaf |-> <<Plain("next"), Plain("return")>>,
   swap |-> <<On("store0", "o2"), Plain("return")>>,
   fault  |-> <<Jump(3), Call(Null, "native"), Call(Null, "leaf"),
                Call(Null, "table"), Plain("assert")>>,
   throw  |-> <<Throw("Other")>>,
   native |-> <<>>,
   table  |-> <<Jump(2), Throw("Error"), Call("o1", "range"), Plain("return")>>,
   range  |-> <<Jump(2), Throw("Error"), Call("o1", "enter"), Plain("return")>>,
   enter  |-> <<Jump(2), On("monitorenter", Null), Call("o1", "exit"),
                Plain("return")>>,
   exit   |-> <<Jump(2), On("monitorexit", Null), Call("o1", "none"),
                Plain("return")>>,
   none   |-> <<Jump(2), ThrowNull, Call("o1", "absent"), ThrowNull>>,
   absent |-> <<>>]
\* catch_type 0 aborts in "table", an empty range in "range", and in "none" the null
\* thrown at 1, not the one at 3.
RawTable ==
  [NoEntries(RawMethods) EXCEPT
     !["table"] = <<[start_pc |-> 0, end_pc |-> 1, handler_pc |-> 0,
                     catch_type |-> AnyType]>>,
     !["range"] = <<[start_pc |-> 2, end_pc |-> 1, handler_pc |-> 0,
                     catch_type |-> "Error"]>>,
     !["none"] = <<[start_pc |-> 0, end_pc |-> 1, handler_pc |-> 2,
                    catch_type |-> "Error"]>>]

-----------------------------------------------------------------------------
(* The range of _monitor.  A frame stuck at monitorexit goes through all of    *)
(* it; in the programs without one, no count leaves 0..1.                      *)

NarrowMin == -2
=============================================================================

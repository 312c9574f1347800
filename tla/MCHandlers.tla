----------------------------- MODULE MCHandlers -----------------------------
(***************************************************************************)
(* Every exception table of at most two entries, for objects of classes    *)
(* that were loaded in any order from a few disks.                         *)
(***************************************************************************)
EXTENDS Handlers

ThreeNames == {"A", "B", "C"}

File(this, super) == [this |-> this, super |-> super, methods |-> {}]

\* A <- B <- C, then A <- B and A <- C, then C <- B with class A in the file of B.
Disks ==
  {[A |-> File("A", None), B |-> File("B", "A"), C |-> File("C", "B")],
   [A |-> File("A", None), B |-> File("B", "A"), C |-> File("C", "A")],
   [A |-> None, B |-> File("A", None), C |-> File("C", "B")]}

SmallEntry ==
  [start_pc : 0..MaxPc, end_pc : 0..MaxPc, handler_pc : {0, MaxPc},
   catch_type : {"B", "C", AnyType}]

SmallTables == UNION {[1..n -> SmallEntry] : n \in 0..2}

HandlerInit == HandlerInitOn(Disks)

\* B may be loaded, without its ancestors, before there are objects, which are of B
\* and C.  One exception is thrown: what it leaves in the heap, a later one finds.
FewCalls ==
  /\ thrown = NoThrow
  /\ HandlerNext
  /\ answer'.op = "load" => answer.op = "none" /\ answer'.of = "B"
  /\ \A class \in objects' : class.file # "A"

HandlerSpec == HandlerInit /\ [][FewCalls]_handlerVars
=============================================================================

----------------------------- MODULE Exceptions -----------------------------
(***************************************************************************)
(* Frame::catchException of src/JavaVM.cpp: the search of a method's       *)
(* exception table for the pc of an athrow.  What isInheritFrom of         *)
(* src/JavaClass.cpp answers for the thrown object comes as a set, the     *)
(* names its class inherits from; Classes has the answer of the class      *)
(* heap.                                                                   *)
(***************************************************************************)
EXTENDS Integers, Sequences

CONSTANT AnyType   \* catch_type 0, which names no class

TableEntry(classes) ==
  [start_pc : Nat, end_pc : Nat, handler_pc : Nat, catch_type : classes \cup {AnyType}]

\* Mutant: the end of the range is outside, as the class file format has it.
CoversBeforeEnd(e, pc) == e.start_pc <= pc /\ pc < e.end_pc

\* Both ends of the range are inside.
Covers(e, pc) == e.start_pc <= pc /\ pc <= e.end_pc

\* The assertion on the range fails, or the NULL constant 0 is dereferenced.
Breaks(found, e) ==
  e.start_pc >= e.end_pc \/ (Covers(e, found.pc) /\ e.catch_type = AnyType)

\* Mutant: the pc moves to the start of the range and not to the handler.
TryEntryRestarts(found, e, ancestors) ==
  IF found.outcome \in {"aborted", "escaped"} THEN found
  ELSE IF Breaks(found, e) THEN [pc |-> found.pc, outcome |-> "aborted"]
  ELSE IF ~Covers(e, found.pc) THEN found
  ELSE IF e.catch_type \in ancestors THEN [pc |-> e.start_pc, outcome |-> "caught"]
  ELSE [pc |-> found.pc, outcome |-> "escaped"]

\* One turn of the loop, given what the turns before it found.  "missed": no entry
\* covered the pc; "escaped": isInheritFrom ran past Object, whose missing superclass
\* is a std::runtime_error; "aborted": the process is gone.
TryEntry(found, e, ancestors) ==
  IF found.outcome \in {"aborted", "escaped"} THEN found
  ELSE IF Breaks(found, e) THEN [pc |-> found.pc, outcome |-> "aborted"]
  ELSE IF ~Covers(e, found.pc) THEN found
  ELSE IF e.catch_type \in ancestors THEN [pc |-> e.handler_pc, outcome |-> "caught"]
  ELSE [pc |-> found.pc, outcome |-> "escaped"]

NothingFound(pc) == [pc |-> pc, outcome |-> "missed"]

\* Every entry is tried, also after a match, against the pc reached so far.
Turns(table, pc, ancestors) ==
  LET found[i \in 0..Len(table)] ==
        IF i = 0 THEN NothingFound(pc) ELSE TryEntry(found[i - 1], table[i], ancestors)
  IN  found

CatchException(table, pc, ancestors) == Turns(table, pc, ancestors)[Len(table)]
=============================================================================

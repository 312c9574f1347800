------------------------------ MODULE Handlers ------------------------------
(***************************************************************************)
(* catchException on top of the class heap.  Whether an entry catches is   *)
(* asked of the JavaClass of the thrown object: isInheritFrom climbs by    *)
(* getSuperClass, which loads what the heap does not have, so that an      *)
(* athrow may parse class files and fail in the middle of the table.       *)
(* Exceptions has the search itself, Classes the loading.                  *)
(***************************************************************************)
EXTENDS Classes, Exceptions

CONSTANTS
  Tables,   \* the exception tables to be tried
  MaxPc     \* bound: the pcs of the method are 0 .. MaxPc

ASSUME HandlersAssumption ==
  /\ AnyType \notin Names
  /\ Tables \subseteq Seq(TableEntry(Names))
  /\ MaxPc \in Nat

VARIABLES
  objects,  \* the classes that "new" has made objects of
  thrown    \* the last athrow and what catchException made of it

handlerVars == <<vars, objects, thrown>>

NoThrow == [class |-> None]

\* The entry gets as far as its question to the class of the object.
Asks(found, e) ==
  /\ found.outcome \notin {"aborted", "escaped"}
  /\ e.start_pc < e.end_pc
  /\ Covers(e, found.pc)
  /\ e.catch_type # AnyType

\* One turn of the loop: s.class and s.r are the object's class and the class heap,
\* s.found is what the turns before it found.
TryOnHeap(s, e) ==
  LET r == IF Asks(s.found, e) THEN InheritFrom(s.r, s.class, e.catch_type) ELSE s.r
      inherits == IF r.value = None THEN {} ELSE {e.catch_type}
  IN  [s EXCEPT !.r = r,
                !.found = IF r.failed # None THEN [@ EXCEPT !.outcome = "aborted"]
                          ELSE TryEntry(@, e, inherits)]

TurnsOnHeap(table, pc, class) ==
  LET turns[i \in 0..Len(table)] ==
        IF i = 0 THEN [class |-> class, r |-> Start, found |-> NothingFound(pc)]
        ELSE TryOnHeap(turns[i - 1], table[i])
  IN  turns

CatchOnHeap(table, pc, class) == TurnsOnHeap(table, pc, class)[Len(table)]

\* athrow of an object of this class at pc, in a method with this exception table.
Athrow(table, pc, class) ==
  /\ vm = "running"
  /\ LET s == CatchOnHeap(table, pc, class) IN
     /\ heap' = s.r.heap
     /\ parses' = s.r.parses
     /\ vm' = IF s.r.failed # None THEN s.r.failed
              ELSE IF s.found.outcome = "aborted" THEN "aborted" ELSE "running"
     /\ thrown' = [class |-> class, table |-> table, pc |-> pc, found |-> s.found]
  /\ answer' = Call("athrow", class.file, None)
  /\ UNCHANGED <<disk, objects>>

\* Mutant: only the class itself is loaded for a new object.
NewObjectShallow(n) ==
  /\ Load(n)
  /\ objects' = objects \cup {class \in {LoadClass(Start, n).value} : vm' = "running"}
  /\ UNCHANGED thrown

NewObject(n) ==
  /\ New(n)
  /\ objects' = objects \cup {class \in {LoadClass(Start, n).value} : vm' = "running"}
  /\ UNCHANGED thrown

LoadOnly(n) == Load(n) /\ UNCHANGED <<objects, thrown>>

HandlerInitOn(disks) == InitOn(disks) /\ objects = {} /\ thrown = NoThrow

HandlerNext ==
  \/ \E n \in Names : LoadOnly(n) \/ NewObject(n)
  \/ \E class \in objects, table \in Tables, pc \in 0..MaxPc : Athrow(table, pc, class)

-----------------------------------------------------------------------------
(* The class heap and the search *)

\* Reference: a name and those above it, as the files say.
Ancestors(n) == {Upward(n)[k] : k \in DOMAIN Upward(n)} \ {None}

\* Creating an object has counted the fields of all its ancestors, so the heap has
\* them: an athrow, whatever its table asks, parses no file and leaves no class
\* behind.  A file that holds another class breaks this: see vm "duplicate".
SearchLoadsNothing ==
  [][WellNamed /\ thrown' # thrown => UNCHANGED <<heap, parses>>]_handlerVars

Threw == thrown # NoThrow

Outcome == thrown.found

\* The search over the heap is the search over fixed sets of ancestors, which is all
\* that the scheduler's model knows of classes.
HeapAnswersLikeLineage ==
  Threw /\ WellNamed =>
    Outcome = CatchException(thrown.table, thrown.pc, Ancestors(thrown.class.file))

-----------------------------------------------------------------------------
(* The search and the specification *)

Catches(e) == e.catch_type \in Ancestors(thrown.class.file)

\* Both ends of a range are inside for the code.
Inside(e, pc) == e.start_pc <= pc /\ pc <= e.end_pc

\* Tables without finally, for any nesting of try statements and any number of catch
\* clauses for one range: non-empty ranges of named classes.
Named(table) ==
  \A i \in DOMAIN table :
    table[i].start_pc < table[i].end_pc /\ table[i].catch_type # AnyType

\* The first entry from n on that has the pc inside, if there is one.
FirstInside(table, n, pc) ==
  {k \in n..Len(table) :
     Inside(table[k], pc) /\ \A i \in n..(k - 1) : ~Inside(table[i], pc)}

\* JVM specification, 2.10: the first entry whose range [start_pc, end_pc) holds
\* the pc and whose class matches gives the handler.
JvmHandler(table, pc) ==
  LET match == {i \in DOMAIN table :
                  /\ table[i].start_pc <= pc /\ pc < table[i].end_pc
                  /\ table[i].catch_type = AnyType \/ Catches(table[i])}
  IN  IF match = {} THEN [pc |-> pc, outcome |-> "missed"]
      ELSE LET first == CHOOSE i \in match : \A j \in match : i <= j
           IN  [pc |-> table[first].handler_pc, outcome |-> "caught"]

\* Where the code's search is that of the specification, and where not: the first
\* entry with the pc inside, its end included, decides.  If it is for another class
\* the exception escapes as a std::runtime_error, also when the next catch clause of
\* the same try is the right one.  If it catches, the handler has to be outside of
\* all later ranges, or the next of these decides again.
FirstEntryDecides ==
  Threw /\ WellNamed /\ Named(thrown.table) =>
    LET table == thrown.table
        pc == thrown.pc
    IN  /\ FirstInside(table, 1, pc) = {} => Outcome = JvmHandler(table, pc)
        /\ \A k \in FirstInside(table, 1, pc) :
             LET handler == table[k].handler_pc
                 again == FirstInside(table, k + 1, handler)
             IN  /\ ~Catches(table[k]) => Outcome = [pc |-> pc, outcome |-> "escaped"]
                 /\ Catches(table[k]) /\ again = {} =>
                      /\ Outcome = [pc |-> handler, outcome |-> "caught"]
                      /\ pc # table[k].end_pc => Outcome = JvmHandler(table, pc)
                 /\ Catches(table[k]) /\ (\E j \in again : ~Catches(table[j])) =>
                      Outcome = [pc |-> handler, outcome |-> "escaped"]

\* The search goes on behind a match with the pc of the handler: on any table a
\* caught exception ends at the handler of a matching entry behind which no entry
\* covers that handler, and an exception no entry covers moves nothing.
LaterEntriesSeeTheHandler ==
  Threw /\ WellNamed =>
    /\ Outcome.outcome = "caught" =>
         \E i \in DOMAIN thrown.table :
           /\ Catches(thrown.table[i])
           /\ Outcome.pc = thrown.table[i].handler_pc
           /\ \A j \in (i + 1)..Len(thrown.table) : ~Inside(thrown.table[j], Outcome.pc)
    /\ Outcome.outcome = "missed" => Outcome.pc = thrown.pc
=============================================================================

----------------------------- MODULE ObjectHeap -----------------------------
(***************************************************************************)
(* Objects, strings, arrays, their fields and their reference counts:      *)
(* createObject, createStringObject, createPrimitiveArray and the garbage  *)
(* collector of src/ObjectHeap.h, field look-up and loadConstantItem of    *)
(* src/JavaClass.cpp, and the opcodes of src/opcodes.cpp that move         *)
(* references.  Fields hold references; ints only matter where they        *)
(* overwrite one.  areturn is not implemented, so methods give no object   *)
(* back.                                                                   *)
(***************************************************************************)
EXTENDS Integers, Sequences, FiniteSets, SequencesExt, FiniteSetsExt

CONSTANTS
  Class,       \* the classes objects are made of
  None,        \* no superclass, and no object
  Array,       \* stands for the class that an array does not have
  Super,       \* Super[c]
  Fields,      \* Fields[c]: the fields c declares, in file order
  Pools,       \* the constant pools to be tried, see pool
  Main,        \* the class whose main begins the thread
  StringClass, \* java/lang/String
  ArrayLengths,  \* bound: the lengths of arrays
  Locals,      \* bound: the locals of a frame are 0 .. Locals - 1
  MaxOperands, \* bound: operands on all frames together
  MaxObjects,  \* bound: objects created
  MaxFrames,   \* bound: frames on the thread
  MaxReference, \* bound: the highest count, which returning methods leave behind
  Arguments    \* bound: references passed to a method behind its receiver

ASSUME HeapAssumption ==
  /\ IsFiniteSet(Class) /\ {Main, StringClass} \subseteq Class
  /\ None \notin Class /\ Array \notin Class \cup {None}
  /\ Super \in [Class -> Class \cup {None}]
  /\ \A n \in {Locals, MaxOperands, MaxObjects, MaxFrames, MaxReference, Arguments} : n \in Nat
  /\ ArrayLengths \subseteq Nat

\* A class file declares a field once, and numbers the entries of its pool from 1.
ASSUME ClassFileAssumption ==
  \A c \in Class :
    /\ DOMAIN Fields[c] = 1..Len(Fields[c]) /\ Len(Fields[c]) \in Nat
    /\ IsInjective(Fields[c])
    /\ \A p \in Pools : IsInjective(p[c]) /\ \A ref \in DOMAIN p[c] : p[c][ref] \in Nat \ {0}

VARIABLES
  pool,    \* pool[c][<<q, f>>]: the index of the Fieldref q.f in the pool of c
  object,  \* object[id]: the Object, or Destroyed; _objectMap never forgets an id
  frames,  \* the frames of the thread, top last
  vm       \* "running", "aborted", or "undefined": freed memory or endless recursion,
           \* behind which the process may do anything, and nothing is said of it

vars == <<pool, object, frames, vm>>

-----------------------------------------------------------------------------
(* Values *)

Reference(id) == [type |-> "L", ref |-> id]
Null == [type |-> "n", ref |-> 0]
NativePointer == [type |-> "N", ref |-> 0]
AnInt == [type |-> "I", ref |-> 0]

Destroyed == [class |-> None, slots |-> <<>>, reference |-> 0]
Live(id) == id \in DOMAIN object /\ object[id] # Destroyed

\* An array has no class, and a reference to it the type of null.
ArrayReference(id) == [type |-> "n", ref |-> id]
IsArray(value) == value.type = "n" /\ value.ref # 0

Current == Last(frames)
Top == Last(Current.operands)
Dropped(n) == SubSeq(Current.operands, 1, Len(Current.operands) - n)

-----------------------------------------------------------------------------
(* Layout of an object *)

\* getFieldIndex: the Fieldref of c's own pool that names c and the field; 0 when the
\* methods of c never touch it.
FieldIndex(c, f) == IF <<c, f>> \in DOMAIN pool[c] THEN pool[c][<<c, f>>] ELSE 0

\* Fields of references begin with the type of null.
OwnSlots(c) ==
  [k \in DOMAIN Fields[c] |-> [index |-> FieldIndex(c, Fields[c][k]), value |-> Null]]

\* The classes from c upward.
Lineage(c) ==
  LET up[d \in 0..Cardinality(Class)] ==
        IF d = 0 THEN <<c>>
        ELSE IF Super[Last(up[d - 1])] = None THEN up[d - 1]
        ELSE Append(up[d - 1], Super[Last(up[d - 1])])
  IN  up[Cardinality(Class)]

\* createObject: the fields of the class, then those of its superclasses.
Slots(c) ==
  LET laid[d \in 0..Len(Lineage(c))] ==
        IF d = 0 THEN <<>> ELSE laid[d - 1] \o OwnSlots(Lineage(c)[d])
  IN  laid[Len(Lineage(c))]

\* getfield and putfield take the first slot with the index of the instruction,
\* which is an index into the pool of the method that runs.
MatchingSlots(id, index) ==
  {k \in DOMAIN object[id].slots : object[id].slots[k].index = index}

\* Mutant: the search goes on behind the first match.
LastSlot(id, index) == Max(MatchingSlots(id, index))

FirstSlot(id, index) == Min(MatchingSlots(id, index))

-----------------------------------------------------------------------------
(* Opcodes *)

Counted(objects, value, d) ==
  IF value.type = "L" THEN [objects EXCEPT ![value.ref].reference = @ + d] ELSE objects

\* A count is kept in the object: touching a destroyed one is undefined.
Dangling(value) == value.type = "L" /\ ~Live(value.ref)

\* No store may carry a count over its bound.
Countable(value) == value.type = "L" => object[value.ref].reference < MaxReference

SetCurrent(f) == frames' = [frames EXCEPT ![Len(frames)] = f]

\* A method names the fields its own pool has.
Indices == {pool[Current.class][ref] : ref \in DOMAIN pool[Current.class]}

Room == FoldLeft(LAMBDA n, f : n + Len(f.operands), 0, frames) < MaxOperands

\* Moves between stack and locals that count nothing: aload, dup, pop, aconst_null.
Push(value) ==
  /\ Room
  /\ SetCurrent([Current EXCEPT !.operands = Append(@, value)])
  /\ UNCHANGED <<pool, object, vm>>

ALoad(i) == Current.locals[i].type # "I" /\ Push(Current.locals[i])
AconstNull == Push(Null)
Dup == Current.operands # <<>> /\ Push(Top)

Pop ==
  /\ Current.operands # <<>>
  /\ SetCurrent([Current EXCEPT !.operands = Dropped(1)])
  /\ UNCHANGED <<pool, object, vm>>

New(c) ==
  /\ Len(object) < MaxObjects
  /\ Room
  /\ object' = Append(object, [class |-> c, slots |-> Slots(c), reference |-> 0])
  /\ SetCurrent([Current EXCEPT !.operands = Append(@, Reference(Len(object) + 1))])
  /\ UNCHANGED <<pool, vm>>

\* ldc of a String: a new object every time, whose first slot points to the text.
LdcString ==
  /\ Len(object) < MaxObjects
  /\ Room
  /\ object' = Append(object,
       [class |-> StringClass, slots |-> [Slots(StringClass) EXCEPT ![1].value = NativePointer],
        reference |-> 0])
  /\ SetCurrent([Current EXCEPT !.operands = Append(@, Reference(Len(object) + 1))])
  /\ UNCHANGED <<pool, vm>>

\* createPrimitiveArray gives every element the type of the array and NULL.
Elements(type, length) ==
  [k \in 1..length |-> [index |-> 0, value |-> [type |-> type, ref |-> 0]]]

\* Mutant: the reference has the type of objects.
NewArrayTyped(type, length) ==
  /\ Len(object) < MaxObjects
  /\ Room
  /\ object' = Append(object,
       [class |-> Array, slots |-> Elements(type, length), reference |-> 0])
  /\ SetCurrent([Current EXCEPT !.operands = Append(@, Reference(Len(object) + 1))])
  /\ UNCHANGED <<pool, vm>>

\* newarray and anewarray: the Variable they push keeps the type it was made with.
NewArray(type, length) ==
  /\ Len(object) < MaxObjects
  /\ Room
  /\ object' = Append(object,
       [class |-> Array, slots |-> Elements(type, length), reference |-> 0])
  /\ SetCurrent([Current EXCEPT !.operands = Append(@, ArrayReference(Len(object) + 1))])
  /\ UNCHANGED <<pool, vm>>

ArrayLength ==
  /\ Current.operands # <<>>
  /\ IsArray(Top) /\ Live(Top.ref)
  /\ SetCurrent([Current EXCEPT !.operands = Dropped(1)])
  /\ UNCHANGED <<pool, object, vm>>

\* javac never assigns to "this".
Assignable(i) == i # 0 \/ Current.static

\* astore_0 .. astore_3.
AStore(i) ==
  /\ Assignable(i)
  /\ Current.operands # <<>>
  /\ ~Dangling(Current.locals[i])
  /\ ~Dangling(Top)
  /\ Countable(Top)
  /\ object' = Counted(Counted(object, Current.locals[i], -1), Top, 1)
  /\ SetCurrent([Current EXCEPT !.locals[i] = Top, !.operands = Dropped(1)])
  /\ UNCHANGED <<pool, vm>>

\* istore to a local whose reference is no longer used: nothing is discounted.
IStore(i) ==
  /\ Assignable(i)
  /\ Current.locals[i].type = "L"
  /\ SetCurrent([Current EXCEPT !.locals[i] = AnInt])
  /\ UNCHANGED <<pool, object, vm>>

\* A field no slot answers for is not pushed, and the stack is one short.
GetField(index) ==
  /\ Current.operands # <<>>
  /\ Top.type = "L" /\ Live(Top.ref)
  /\ SetCurrent([Current EXCEPT !.operands =
       IF MatchingSlots(Top.ref, index) = {} THEN Dropped(1)
       ELSE Append(Dropped(1), object[Top.ref].slots[FirstSlot(Top.ref, index)].value)])
  /\ UNCHANGED <<pool, object, vm>>

\* Mutant: the new reference is not counted.
PutFieldUncounted(index) ==
  /\ Len(Current.operands) >= 2
  /\ LET target == Current.operands[Len(Current.operands) - 1] IN
     /\ target.type = "L" /\ Live(target.ref) /\ ~Dangling(Top)
     /\ Countable(Top)
     /\ LET k == FirstSlot(target.ref, index)
            old == object[target.ref].slots[k].value
        IN  IF MatchingSlots(target.ref, index) = {} THEN UNCHANGED object
            ELSE /\ ~Dangling(old)
                 /\ object' = Counted([object EXCEPT ![target.ref].slots[k].value = Top],
                                      old, -1)
  /\ SetCurrent([Current EXCEPT !.operands = Dropped(2)])
  /\ UNCHANGED <<pool, vm>>

PutField(index) ==
  /\ Len(Current.operands) >= 2
  /\ LET target == Current.operands[Len(Current.operands) - 1] IN
     /\ target.type = "L" /\ Live(target.ref) /\ ~Dangling(Top)
     /\ Countable(Top)
     /\ LET k == FirstSlot(target.ref, index)
            old == object[target.ref].slots[k].value
        IN  IF MatchingSlots(target.ref, index) = {} THEN UNCHANGED object
            ELSE /\ ~Dangling(old)
                 /\ object' = Counted(Counted([object EXCEPT ![target.ref].slots[k].value = Top],
                                              old, -1), Top, 1)
  /\ SetCurrent([Current EXCEPT !.operands = Dropped(2)])
  /\ UNCHANGED <<pool, vm>>

\* The process is gone, or nothing is known of it any more.
Ends(how) ==
  /\ vm' = how
  /\ object' = <<>>
  /\ frames' = <<>>
  /\ UNCHANGED pool

\* getfield on null is a failed assertion or a NULL pointer; on a destroyed object,
\* like every other use of one, it is undefined.
Fault(value) == Ends(IF Dangling(value) THEN "undefined" ELSE "aborted")

BadAccess ==
  \/ Current.operands # <<>> /\ (Top = Null \/ Dangling(Top)) /\ Fault(Top)
  \/ /\ Len(Current.operands) >= 2
     /\ LET target == Current.operands[Len(Current.operands) - 1] IN
        (target = Null \/ Dangling(target)) /\ Fault(target)

\* astore or putfield overwrites a reference to a destroyed object, and discounts it in
\* memory that is freed.
StaleStore ==
  /\ \/ /\ Current.operands # <<>>
        /\ \E i \in 0..(Locals - 1) : Assignable(i) /\ Dangling(Current.locals[i])
     \/ /\ Len(Current.operands) >= 2
        /\ LET target == Current.operands[Len(Current.operands) - 1] IN
           /\ target.type = "L" /\ Live(target.ref)
           /\ \E index \in Indices :
                /\ MatchingSlots(target.ref, index) # {}
                /\ Dangling(object[target.ref].slots[FirstSlot(target.ref, index)].value)
  /\ Ends("undefined")

\* Behind the ints of the instruction an array is on top.  iastore writes through
\* the pointer of the first element, which nothing ever sets, and aaload takes the
\* index for the array: the pointer is NULL if it is 0.
ElementAccess ==
  /\ Current.operands # <<>>
  /\ IsArray(Top)
  /\ \/ Ends("aborted")
     \/ Ends("undefined")

-----------------------------------------------------------------------------
(* Calls *)

FrameOf(c, static, locals) ==
  [class |-> c, static |-> static, locals |-> locals, operands |-> <<>>]

\* Receiver and arguments become locals of the new frame and are not counted.
Enter(n) ==
  /\ Len(frames) < MaxFrames
  /\ Len(Current.operands) > n
  /\ LET passed == SubSeq(Current.operands, Len(Current.operands) - n, Len(Current.operands))
     IN  /\ Head(passed).type = "L" /\ Live(Head(passed).ref)
         /\ object[Head(passed).ref].class # Array
         /\ \E c \in ToSet(Lineage(object[Head(passed).ref].class)) \ {StringClass} :
              frames' = Append([frames EXCEPT ![Len(frames)].operands = Dropped(n + 1)],
                FrameOf(c, FALSE, [i \in 0..(Locals - 1) |->
                  IF i \in 0..n THEN passed[i + 1] ELSE Null]))
  /\ UNCHANGED <<pool, object, vm>>

\* Mutant: the locals of the frame are discounted, the receiver among them.
LeaveDiscounting ==
  /\ Len(frames) > 1
  /\ \A i \in 0..(Locals - 1) : ~Dangling(Current.locals[i])
  /\ object' = FoldLeft(LAMBDA objects, i : Counted(objects, Current.locals[i - 1], -1),
                        object, [i \in 1..Locals |-> i])
  /\ frames' = Front(frames)
  /\ UNCHANGED <<pool, vm>>

\* return deletes the frame; its locals are not discounted.
Leave ==
  /\ Len(frames) > 1
  /\ frames' = Front(frames)
  /\ UNCHANGED <<pool, object, vm>>

-----------------------------------------------------------------------------
(* The garbage collector *)

References(objects, x, y) ==
  Cardinality({k \in DOMAIN objects[x].slots : objects[x].slots[k].value = Reference(y)})

Total(f) == FoldFunction(+, 0, f)

\* Paths(objects, x)[d][y]: the paths of d + 1 fields from x to y.
Paths(objects, x) ==
  LET Id == DOMAIN objects
      paths[d \in 0..Len(objects)] ==
        [y \in Id |-> IF d = 0 THEN References(objects, x, y)
                      ELSE Total([z \in Id |-> paths[d - 1][z] * References(objects, z, y)])]
  IN  paths

\* unreferenceAttributes: the recursion discounts an object once for every path that
\* leads to it, and does not care whether the objects on the path stay.
Unreferenced(objects, x) ==
  [y \in DOMAIN objects |->
     [objects[y] EXCEPT !.reference =
        @ - Total([d \in 0..(Len(objects) - 1) |-> Paths(objects, x)[d][y]])]]

\* It ends and touches no freed object.
WalkIsDefined(objects, x) ==
  \A y \in DOMAIN objects :
    /\ Paths(objects, x)[Len(objects)][y] = 0
    /\ objects[y] = Destroyed => \A d \in 0..Len(objects) : Paths(objects, x)[d][y] = 0

\* The elements of an array of objects are NULL with the type of objects.
MeetsNull(objects, x) ==
  \E k \in DOMAIN objects[x].slots : objects[x].slots[k].value = Reference(0)

\* How the process gets over the walk from x.
WalkEnds(objects, x) ==
  CASE MeetsNull(objects, x) -> "aborted"
    [] ~MeetsNull(objects, x) /\ WalkIsDefined(objects, x) -> "running"
    [] OTHER -> "undefined"

\* Mutant: what the object holds is freed with it.
FreedWithFields(heap, x) ==
  LET ends == WalkEnds(heap.objects, x)
  IN  IF ends = "running"
      THEN [heap EXCEPT !.objects =
              [y \in DOMAIN @ |->
                 IF y = x \/ References(@, x, y) > 0 THEN Destroyed ELSE Unreferenced(@, x)[y]]]
      ELSE [heap EXCEPT !.vm = ends]

Freed(heap, x) ==
  LET ends == WalkEnds(heap.objects, x)
  IN  IF ends = "running"
      THEN [heap EXCEPT !.objects = [Unreferenced(@, x) EXCEPT ![x] = Destroyed]]
      ELSE [heap EXCEPT !.vm = ends]

\* Mutant: an object held once is taken for garbage.
CollectOneEarly(heap, x, stale) ==
  CASE heap.vm # "running" -> heap
    [] heap.vm = "running" /\ heap.objects[x] = Destroyed ->
         IF x \in stale THEN heap ELSE [heap EXCEPT !.vm = "undefined"]
    [] OTHER -> IF heap.objects[x].reference > 1 THEN heap ELSE Freed(heap, x)

\* The collector reads the count of every id ever created, freed or not.  Where the
\* memory of a freed object, one of stale, still reads as a positive count, it is passed
\* over; elsewhere it is walked from and freed again.
CollectOne(heap, x, stale) ==
  CASE heap.vm # "running" -> heap
    [] heap.vm = "running" /\ heap.objects[x] = Destroyed ->
         IF x \in stale THEN heap ELSE [heap EXCEPT !.vm = "undefined"]
    [] OTHER -> IF heap.objects[x].reference > 0 THEN heap ELSE Freed(heap, x)

\* _objectMap is walked in the order of the ids.
Collected(stale) ==
  LET after[x \in 0..Len(object)] ==
        IF x = 0 THEN [objects |-> object, vm |-> "running"]
        ELSE CollectOne(after[x - 1], x, stale)
  IN  after[Len(object)]

\* garbageCollector: public, called by nothing in src; an embedder may call it between
\* two instructions.
CollectGarbage ==
  /\ vm = "running"
  /\ object # <<>>
  /\ \E stale \in SUBSET {id \in DOMAIN object : object[id] = Destroyed} :
       LET heap == Collected(stale)
       IN  \/ /\ UNCHANGED <<pool, frames, vm>>
              /\ heap.vm = "running"
              /\ object' = heap.objects
           \/ \E how \in {"aborted", "undefined"} : Ends(how) /\ heap.vm = how

-----------------------------------------------------------------------------

\* The thread begins in a static method.
Init ==
  /\ pool \in Pools
  /\ object = <<>>
  /\ frames = <<FrameOf(Main, TRUE, [i \in 0..(Locals - 1) |-> Null])>>
  /\ vm = "running"

Instruction ==
  /\ vm = "running"
  /\ \/ \E i \in 0..(Locals - 1) : ALoad(i) \/ AStore(i) \/ IStore(i)
     \/ AconstNull
     \/ Dup
     \/ Pop
     \/ \E c \in Class \ {StringClass} : New(c)
     \/ LdcString
     \/ \E type \in {"I", "L"}, length \in ArrayLengths : NewArray(type, length)
     \/ ArrayLength
     \/ ElementAccess
     \/ \E index \in Indices : GetField(index) \/ PutField(index)
     \/ BadAccess
     \/ StaleStore
     \/ \E n \in 0..Arguments : Enter(n)
     \/ Leave

Next == Instruction \/ CollectGarbage

Spec == Init /\ [][Next]_vars

-----------------------------------------------------------------------------
(* What the counts are worth *)

Ids == DOMAIN object
LiveIds == {id \in Ids : Live(id)}
Arrays == {id \in LiveIds : object[id].class = Array}

\* The fields that hold an object, and the locals that astore has written.
HoldingFields(id) ==
  UNION {{<<"field", x, k>> : k \in {k \in DOMAIN object[x].slots :
                                     object[x].slots[k].value = Reference(id)}} : x \in Ids}
HoldingLocals(id) ==
  UNION {{<<"local", d, i>> : i \in {i \in 0..(Locals - 1) :
                                     /\ i # 0 \/ frames[d].static
                                     /\ frames[d].locals[i] = Reference(id)}} : d \in DOMAIN frames}
Holders(id) == Cardinality(HoldingFields(id) \cup HoldingLocals(id))

NothingFreed == \A id \in Ids : object[id] # Destroyed

\* Until something is collected no count is below the fields and assigned locals that
\* hold the object, so the collector cannot take one of them for garbage (for methods
\* without reference parameters: such a parameter is a local that nobody counted).
CountsCoverHolders ==
  NothingFreed => \A id \in Ids : object[id].reference >= Holders(id)

\* What a returning method or an istore leaves counted stays counted: the surplus of a
\* count over its holders falls in no opcode, call, return or collection that frees
\* nothing.  A collection that frees an object discounts what it led to, survivors and
\* what they hold among it.
Surplus(id) == object[id].reference - Holders(id)
Freeing == \E id \in LiveIds : object'[id] = Destroyed
OnlyCollectionsHealLeaks ==
  [][vm' = "running" /\ ~Freeing => \A id \in Ids : Surplus(id)' >= Surplus(id)]_vars

\* A method that runs on an object of its own class reads and writes its own fields
\* where createObject laid them, whatever its superclasses' pools number alike.
OwnFieldsAreRight ==
  \A id \in LiveIds \ Arrays :
    LET c == object[id].class IN
    \A k \in DOMAIN Fields[c] :
      <<c, Fields[c][k]>> \in DOMAIN pool[c] =>
        LET index == pool[c][<<c, Fields[c][k]>>]
        IN  MatchingSlots(id, index) # {} /\ FirstSlot(id, index) = k

\* The objects that the counted locals lead to.
Closed(ids) ==
  /\ {id \in LiveIds : HoldingLocals(id) # {}} \subseteq ids
  /\ \A x \in ids, y \in LiveIds : References(object, x, y) > 0 => y \in ids
Reachable == {id \in LiveIds : \A ids \in SUBSET LiveIds : Closed(ids) => id \in ids}

\* The first collection leaves what the counted locals lead to as it is when every object
\* is held at most once; otherwise it discounts what survivors hold.
CollectsOnlyGarbage ==
  [][/\ CollectGarbage /\ vm' = "running"
     /\ NothingFreed
     /\ \A id \in Ids : Holders(id) <= 1
     => \A id \in Reachable : object'[id] = object[id]]_vars

\* The first collection returns when no object holds itself or an older one and no array
\* of objects has a place.  An older one may be freed already when the walk from its
\* holder gets to it.
FirstCollectionReturns ==
  [][/\ CollectGarbage
     /\ NothingFreed
     /\ \A x, y \in Ids : References(object, x, y) > 0 => x < y
     /\ \A x \in Ids : ~MeetsNull(object, x)
     => vm' = "running"]_vars

\* Nothing counts the references to an array, wherever it is held: a collection that
\* neither crashes nor meets freed memory has freed every array, and met none that was
\* made for objects and has a place.
CollectionsTakeArrays ==
  [][CollectGarbage /\ Arrays # {} =>
       \/ vm' # "running"
       \/ \A id \in Arrays : object'[id] = Destroyed /\ ~MeetsNull(object, id)]_vars
=============================================================================

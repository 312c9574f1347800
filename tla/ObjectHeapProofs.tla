-------------------------- MODULE ObjectHeapProofs --------------------------
(***************************************************************************)
(* What the reference counts of ObjectHeap are worth, for any classes and  *)
(* any number of objects, frames and fields.                               *)
(***************************************************************************)
EXTENDS ObjectHeap, Recursion

-----------------------------------------------------------------------------
(* The states of the heap *)

Value == [type : {"L", "n", "N", "I"}, ref : Nat]
Slot == [index : Nat, value : Value]
Object == [class : Class \cup {Array, None}, slots : Seq(Slot), reference : Int]
Frame == [class : Class, static : BOOLEAN, locals : [0..(Locals - 1) -> Value],
          operands : Seq(Value)]

\* A reference with the type of objects leads to one, or to where one was.
Good(v, objects) ==
  /\ v \in Value
  /\ v.type = "L" => v.ref \in DOMAIN objects /\ objects[v.ref].class # Array

\* The class's own fields come first.
Laid(o) ==
  /\ DOMAIN Fields[o.class] \subseteq DOMAIN o.slots
  /\ \A k \in DOMAIN Fields[o.class] : o.slots[k].index = FieldIndex(o.class, Fields[o.class][k])

ObjectOK(o, objects) ==
  /\ o.class = None => o = Destroyed
  /\ o.class # Array => \A k \in DOMAIN o.slots : Good(o.slots[k].value, objects)
  /\ o.class = Array => o.reference = 0 /\ \A k \in DOMAIN o.slots : o.slots[k].value.ref = 0
  /\ o.class \in Class => Laid(o)

FrameOK(f, objects) ==
  /\ \A i \in 0..(Locals - 1) : Good(f.locals[i], objects)
  /\ \A k \in DOMAIN f.operands : Good(f.operands[k], objects)

HeapOK(objects) ==
  /\ objects \in Seq(Object)
  /\ \A id \in DOMAIN objects : ObjectOK(objects[id], objects)

ThreadOK ==
  /\ frames \in Seq(Frame) /\ frames # <<>>
  /\ \A d \in DOMAIN frames : FrameOK(frames[d], object)

StateOK ==
  /\ vm \in {"running", "aborted", "undefined"}
  /\ vm = "running" => pool \in Pools /\ HeapOK(object) /\ ThreadOK
  /\ vm # "running" => object = <<>> /\ frames = <<>>

-----------------------------------------------------------------------------
(* Records and sequences *)

LEMMA SeqFacts ==
  ASSUME NEW S, NEW s \in Seq(S)
  PROVE  /\ Len(s) \in Nat /\ DOMAIN s = 1..Len(s)
         /\ \A i \in 1..Len(s) : s[i] \in S
OBVIOUS

LEMMA AppendFacts ==
  ASSUME NEW S, NEW s \in Seq(S), NEW x \in S
  PROVE  /\ Append(s, x) \in Seq(S)
         /\ Len(Append(s, x)) = Len(s) + 1
         /\ DOMAIN Append(s, x) = 1..(Len(s) + 1)
         /\ Append(s, x)[Len(s) + 1] = x
         /\ \A i \in 1..Len(s) : Append(s, x)[i] = s[i]
OBVIOUS

LEMMA SubSeqFacts ==
  ASSUME NEW S, NEW s \in Seq(S), NEW n \in 0..Len(s)
  PROVE  /\ SubSeq(s, 1, n) \in Seq(S)
         /\ Len(SubSeq(s, 1, n)) = n
         /\ \A i \in 1..n : SubSeq(s, 1, n)[i] = s[i]
<1>1. n \in Nat /\ n <= Len(s) /\ Len(s) \in Nat
  OBVIOUS
<1> QED
  BY <1>1

LEMMA UpdateFacts ==
  ASSUME NEW S, NEW s \in Seq(S), NEW k \in 1..Len(s), NEW x \in S
  PROVE  /\ [s EXCEPT ![k] = x] \in Seq(S)
         /\ Len([s EXCEPT ![k] = x]) = Len(s)
         /\ \A i \in 1..Len(s) : [s EXCEPT ![k] = x][i] = IF i = k THEN x ELSE s[i]
OBVIOUS

LEMMA ObjectFacts ==
  ASSUME NEW o \in Object
  PROVE  /\ o = [class |-> o.class, slots |-> o.slots, reference |-> o.reference]
         /\ o.class \in Class \cup {Array, None} /\ o.slots \in Seq(Slot) /\ o.reference \in Int
BY DEF Object

LEMMA ObjectUpdates ==
  ASSUME NEW o \in Object, NEW x
  PROVE  /\ [o EXCEPT !.reference = x] = [class |-> o.class, slots |-> o.slots, reference |-> x]
         /\ [o EXCEPT !.slots = x] = [class |-> o.class, slots |-> x, reference |-> o.reference]
BY DEF Object

LEMMA FrameFacts ==
  ASSUME NEW f \in Frame
  PROVE  /\ f = [class |-> f.class, static |-> f.static, locals |-> f.locals,
                 operands |-> f.operands]
         /\ f.class \in Class /\ f.static \in BOOLEAN
         /\ f.locals \in [0..(Locals - 1) -> Value] /\ f.operands \in Seq(Value)
BY DEF Frame

LEMMA ValueFacts ==
  /\ Null \in Value /\ Null.type = "n" /\ Null.ref = 0
  /\ NativePointer \in Value /\ NativePointer.type = "N" /\ NativePointer.ref = 0
  /\ AnInt \in Value /\ AnInt.type = "I" /\ AnInt.ref = 0
  /\ \A id \in Nat : /\ Reference(id) \in Value /\ Reference(id).type = "L"
                     /\ Reference(id).ref = id
                     /\ ArrayReference(id) \in Value /\ ArrayReference(id).type = "n"
                     /\ ArrayReference(id).ref = id
  /\ \A v \in Value, id \in Nat : v = Reference(id) <=> v.type = "L" /\ v.ref = id
BY DEF Value, Null, NativePointer, AnInt, Reference, ArrayReference

LEMMA DestroyedFacts ==
  /\ Destroyed \in Object /\ Destroyed.class = None /\ Destroyed.slots = <<>>
  /\ Destroyed.reference = 0
BY DEF Destroyed, Object

\* What a count does: nothing but to its object's reference.
LEMMA CountedFacts ==
  ASSUME NEW objects \in Seq(Object), NEW v \in Value, NEW d \in Int,
         v.type = "L" => v.ref \in DOMAIN objects
  PROVE  LET q == Counted(objects, v, d)
         IN  /\ q \in Seq(Object) /\ Len(q) = Len(objects) /\ DOMAIN q = DOMAIN objects
             /\ \A id \in DOMAIN objects :
                  /\ q[id].class = objects[id].class /\ q[id].slots = objects[id].slots
                  /\ q[id].reference = objects[id].reference
                                         + (IF v = Reference(id) THEN d ELSE 0)
<1> DEFINE q == Counted(objects, v, d)
<1>1. /\ Len(objects) \in Nat /\ DOMAIN objects = 1..Len(objects)
      /\ \A id \in DOMAIN objects : objects[id] \in Object
  BY SeqFacts
<1>2. CASE v.type # "L"
  <2>1. q = objects
    BY <1>2 DEF Counted
  <2>2. \A id \in DOMAIN objects : v # Reference(id) /\ objects[id].reference \in Int
    BY <1>1, <1>2, ValueFacts, ObjectFacts
  <2> QED
    BY <2>1, <2>2
<1>3. CASE v.type = "L"
  <2> DEFINE o == objects[v.ref]
             p == [class |-> o.class, slots |-> o.slots, reference |-> o.reference + d]
  <2>1. v.ref \in 1..Len(objects) /\ o \in Object /\ o.reference \in Int
    BY <1>1, <1>3, ObjectFacts
  <2>2. [o EXCEPT !.reference = @ + d] = p
    BY <2>1, ObjectUpdates
  <2>3. p \in Object
    BY <2>1, ObjectFacts DEF Object
  <2>4. q = [objects EXCEPT ![v.ref] = [o EXCEPT !.reference = @ + d]]
    BY <1>1, <1>3, <2>1 DEF Counted
  <2>5. q = [objects EXCEPT ![v.ref] = p]
    BY <2>2, <2>4
  <2>6. p.class = o.class /\ p.slots = o.slots /\ p.reference = o.reference + d
    OBVIOUS
  <2> HIDE DEF p, q
  <2>7. /\ q \in Seq(Object) /\ Len(q) = Len(objects)
        /\ \A id \in 1..Len(objects) : q[id] = IF id = v.ref THEN p ELSE objects[id]
    BY <2>1, <2>3, <2>5, UpdateFacts
  <2>8. \A id \in DOMAIN objects : v = Reference(id) <=> id = v.ref
    BY <1>1, <1>3, ValueFacts
  <2>9. \A id \in DOMAIN objects : objects[id].reference \in Int
    BY <1>1, ObjectFacts
  <2> QED
    BY <1>1, <2>1, <2>6, <2>7, <2>8, <2>9 DEF q
<1> QED
  BY <1>2, <1>3

-----------------------------------------------------------------------------
(* How an object is laid out *)

LEMMA ConcatFacts ==
  ASSUME NEW S, NEW s \in Seq(S), NEW t \in Seq(S)
  PROVE  /\ s \o t \in Seq(S)
         /\ Len(s \o t) = Len(s) + Len(t)
         /\ \A i \in 1..(Len(s) + Len(t)) :
              (s \o t)[i] = IF i <= Len(s) THEN s[i] ELSE t[i - Len(s)]
OBVIOUS

LEMMA LineageFacts ==
  ASSUME NEW c \in Class
  PROVE  Lineage(c) \in Seq(Class) /\ Len(Lineage(c)) >= 1 /\ Lineage(c)[1] = c
<1> DEFINE N == Cardinality(Class)
           S == {s \in Seq(Class) : Len(s) >= 1 /\ s[1] = c}
           Step(s) == IF Super[Last(s)] = None THEN s ELSE Append(s, Super[Last(s)])
           F == [p \in (1..N) \X S |-> Step(p[2])]
           up == CHOOSE g : g = [d \in 0..N |-> IF d = 0 THEN <<c>> ELSE Step(g[d - 1])]
<1>1. N \in Nat
  BY FS_CardinalityType, HeapAssumption
<1>2. <<c>> \in S
  OBVIOUS
<1>3. ASSUME NEW s \in S
      PROVE  Step(s) \in S
  <2>1. Last(s) \in Class
    BY DEF Last
  <2>2. Super[Last(s)] \in Class \cup {None}
    BY <2>1, HeapAssumption
  <2>3. s \in Seq(Class) /\ Len(s) \in Nat /\ Len(s) >= 1 /\ s[1] = c
    OBVIOUS
  <2>4. CASE Super[Last(s)] # None
    <3>1. /\ Append(s, Super[Last(s)]) \in Seq(Class)
          /\ Len(Append(s, Super[Last(s)])) = Len(s) + 1
          /\ Append(s, Super[Last(s)])[1] = s[1]
      BY <2>2, <2>3, <2>4, AppendFacts
    <3>2. Len(Append(s, Super[Last(s)])) >= 1
      BY <2>3, <3>1
    <3>3. Append(s, Super[Last(s)]) \in S
      BY <2>3, <3>1, <3>2
    <3> QED
      BY <2>4, <3>3
  <2> QED
    BY <2>3, <2>4
<1>4. \A d \in 1..N, s \in S : F[<<d, s>>] = Step(s)
  OBVIOUS
<1> HIDE DEF Step
<1>5. Keeps(S, F, N)
  BY <1>3, <1>4 DEF Keeps
<1> HIDE DEF F, S, N
<1>6. PICK g : /\ DOMAIN g = 0..N /\ g[0] = <<c>> /\ g = [d \in 0..N |-> g[d]]
               /\ \A d \in 0..N : g[d] \in S
               /\ \A d \in 1..N : g[d] = F[<<d, g[d - 1]>>]
  BY <1>1, <1>2, <1>5, RecursionInSet
<1>7. g[0] = <<c>>
  BY <1>6
<1>8. \A d \in 1..N : g[d] = Step(g[d - 1])
  <2> SUFFICES ASSUME NEW d \in 1..N PROVE g[d] = Step(g[d - 1])
    OBVIOUS
  <2>1. d - 1 \in 0..N
    BY <1>1
  <2> QED
    BY <1>4, <1>6, <2>1
<1>9. g = [d \in 0..N |-> IF d = 0 THEN <<c>> ELSE Step(g[d - 1])]
  <2>1. \A d \in 0..N : g[d] = IF d = 0 THEN <<c>> ELSE Step(g[d - 1])
    BY <1>1, <1>7, <1>8
  <2>2. g = [d \in 0..N |-> g[d]]
    BY <1>6
  <2> QED
    BY <2>1, <2>2
<1>10. up = [d \in 0..N |-> IF d = 0 THEN <<c>> ELSE Step(up[d - 1])]
  BY <1>9
<1>11. Lineage(c) = up[N]
  BY DEF Lineage, Step, N
<1> HIDE DEF up
<1>12. \A d \in 0..N : up[d] \in S
  <2> DEFINE P == {d \in Nat : d \in 0..N => up[d] \in S}
  <2>1. 0 \in P
    BY <1>1, <1>2, <1>10
  <2>2. ASSUME NEW d \in Nat, d \in P
        PROVE  d + 1 \in P
    <3>1. SUFFICES ASSUME d + 1 \in 0..N PROVE up[d + 1] \in S
      OBVIOUS
    <3>2. d \in 0..N /\ d + 1 # 0 /\ (d + 1) - 1 = d
      BY <1>1, <3>1
    <3>3. up[d + 1] = Step(up[d])
      BY <1>10, <3>1, <3>2
    <3> QED
      BY <1>3, <2>2, <3>2, <3>3
  <2>3. Nat \subseteq P
    <3> HIDE DEF P
    <3> QED
      BY <2>1, <2>2, NaturalsInSet
  <2> QED
    BY <2>3
<1> QED
  BY <1>1, <1>11, <1>12 DEF S

LEMMA OwnSlotsFacts ==
  ASSUME NEW c \in Class, pool \in Pools
  PROVE  /\ OwnSlots(c) \in Seq(Slot) /\ Len(OwnSlots(c)) = Len(Fields[c])
         /\ \A k \in 1..Len(Fields[c]) :
              /\ OwnSlots(c)[k].index = FieldIndex(c, Fields[c][k])
              /\ OwnSlots(c)[k].value = Null
<1>1. DOMAIN Fields[c] = 1..Len(Fields[c]) /\ Len(Fields[c]) \in Nat
  BY ClassFileAssumption
<1>2. \A f : FieldIndex(c, f) \in Nat
  BY ClassFileAssumption DEF FieldIndex
<1>3. OwnSlots(c) = [k \in 1..Len(Fields[c]) |->
                       [index |-> FieldIndex(c, Fields[c][k]), value |-> Null]]
  BY <1>1 DEF OwnSlots
<1>4. \A k \in 1..Len(Fields[c]) :
        [index |-> FieldIndex(c, Fields[c][k]), value |-> Null] \in Slot
  BY <1>2, ValueFacts DEF Slot
<1> QED
  BY <1>1, <1>3, <1>4

LEMMA SlotsFacts ==
  ASSUME NEW c \in Class, pool \in Pools
  PROVE  /\ Slots(c) \in Seq(Slot)
         /\ \A k \in DOMAIN Slots(c) : Slots(c)[k].value = Null
         /\ DOMAIN Fields[c] \subseteq DOMAIN Slots(c)
         /\ \A k \in DOMAIN Fields[c] : Slots(c)[k].index = FieldIndex(c, Fields[c][k])
<1> DEFINE N == Len(Lineage(c))
           S == {s \in Seq(Slot) : \A k \in DOMAIN s : s[k].value = Null}
           Step(d, s) == s \o OwnSlots(Lineage(c)[d])
           F == [p \in (1..N) \X S |-> Step(p[1], p[2])]
           laid == CHOOSE g : g = [d \in 0..N |-> IF d = 0 THEN <<>> ELSE Step(d, g[d - 1])]
           Own(s) == /\ DOMAIN Fields[c] \subseteq DOMAIN s
                     /\ \A k \in DOMAIN Fields[c] : s[k].index = FieldIndex(c, Fields[c][k])
<1>1. N \in Nat /\ N >= 1 /\ Lineage(c)[1] = c /\ \A d \in 1..N : Lineage(c)[d] \in Class
  BY LineageFacts
<1>2. <<>> \in S
  OBVIOUS
<1>3. ASSUME NEW d \in 1..N, NEW s \in S
      PROVE  Step(d, s) \in S
  <2> DEFINE own == OwnSlots(Lineage(c)[d])
  <2>1. own \in Seq(Slot) /\ \A k \in 1..Len(own) : own[k].value = Null
    BY <1>1, OwnSlotsFacts
  <2>2. s \in Seq(Slot) /\ \A k \in 1..Len(s) : s[k].value = Null
    BY SeqFacts
  <2> HIDE DEF own
  <2>3. /\ s \o own \in Seq(Slot) /\ Len(s \o own) = Len(s) + Len(own)
        /\ \A i \in 1..(Len(s) + Len(own)) :
             (s \o own)[i] = IF i <= Len(s) THEN s[i] ELSE own[i - Len(s)]
    BY <2>1, <2>2, ConcatFacts
  <2>4. Len(s) \in Nat /\ Len(own) \in Nat
    BY <2>1, <2>2
  <2>5. ASSUME NEW i \in DOMAIN (s \o own)
        PROVE  (s \o own)[i].value = Null
    <3>1. i \in 1..(Len(s) + Len(own))
      BY <2>3
    <3>2. CASE i <= Len(s)
      BY <2>2, <2>3, <2>4, <3>1, <3>2
    <3>3. CASE ~(i <= Len(s))
      <4>1. i - Len(s) \in 1..Len(own)
        BY <2>4, <3>1, <3>3
      <4> QED
        BY <2>1, <2>3, <3>1, <3>3, <4>1
    <3> QED
      BY <3>2, <3>3
  <2> QED
    BY <2>3, <2>5 DEF own
<1>4. \A d \in 1..N, s \in S : F[<<d, s>>] = Step(d, s)
  OBVIOUS
<1> HIDE DEF Step
<1>5. Keeps(S, F, N)
  BY <1>3, <1>4 DEF Keeps
<1> HIDE DEF F, S, N
<1>6. PICK g : /\ DOMAIN g = 0..N /\ g[0] = <<>> /\ g = [d \in 0..N |-> g[d]]
               /\ \A d \in 0..N : g[d] \in S
               /\ \A d \in 1..N : g[d] = F[<<d, g[d - 1]>>]
  BY <1>1, <1>2, <1>5, RecursionInSet
<1>7. g[0] = <<>>
  BY <1>6
<1>8. \A d \in 1..N : g[d] = Step(d, g[d - 1])
  <2> SUFFICES ASSUME NEW d \in 1..N PROVE g[d] = Step(d, g[d - 1])
    OBVIOUS
  <2>1. d - 1 \in 0..N
    BY <1>1
  <2> QED
    BY <1>4, <1>6, <2>1
<1>9. g = [d \in 0..N |-> IF d = 0 THEN <<>> ELSE Step(d, g[d - 1])]
  <2>1. \A d \in 0..N : g[d] = IF d = 0 THEN <<>> ELSE Step(d, g[d - 1])
    BY <1>1, <1>7, <1>8
  <2>2. g = [d \in 0..N |-> g[d]]
    BY <1>6
  <2> QED
    BY <2>1, <2>2
<1>10. laid = [d \in 0..N |-> IF d = 0 THEN <<>> ELSE Step(d, laid[d - 1])]
  BY <1>9
<1>11. Slots(c) = laid[N]
  BY DEF Slots, Step, N
<1> HIDE DEF laid
<1>12. laid[0] = <<>>
  BY <1>1, <1>10
<1>13. \A d \in Nat : d + 1 \in 0..N => laid[d + 1] = Step(d + 1, laid[d])
  <2> SUFFICES ASSUME NEW d \in Nat, d + 1 \in 0..N
               PROVE  laid[d + 1] = Step(d + 1, laid[d])
    OBVIOUS
  <2>1. d + 1 # 0 /\ (d + 1) - 1 = d
    OBVIOUS
  <2> QED
    BY <1>10, <2>1
<1>14. \A d \in 0..N : laid[d] \in S
  <2> DEFINE P == {d \in Nat : d \in 0..N => laid[d] \in S}
  <2>1. 0 \in P
    BY <1>2, <1>12
  <2>2. ASSUME NEW d \in Nat, d \in P
        PROVE  d + 1 \in P
    <3>1. SUFFICES ASSUME d + 1 \in 0..N PROVE laid[d + 1] \in S
      OBVIOUS
    <3>2. d \in 0..N /\ d + 1 \in 1..N
      BY <1>1, <3>1
    <3> QED
      BY <1>3, <1>13, <2>2, <3>1, <3>2
  <2>3. Nat \subseteq P
    <3> HIDE DEF P
    <3> QED
      BY <2>1, <2>2, NaturalsInSet
  <2> QED
    BY <2>3
<1>15. /\ DOMAIN Fields[c] = 1..Len(Fields[c]) /\ Len(Fields[c]) \in Nat
       /\ OwnSlots(c) \in Seq(Slot) /\ Len(OwnSlots(c)) = Len(Fields[c])
       /\ \A k \in 1..Len(Fields[c]) : OwnSlots(c)[k].index = FieldIndex(c, Fields[c][k])
  BY OwnSlotsFacts, ClassFileAssumption
<1>16. \A d \in Nat : d + 1 \in 0..N => Own(laid[d + 1])
  <2> DEFINE P == {d \in Nat : d + 1 \in 0..N => Own(laid[d + 1])}
  <2>1. 0 \in P
    <3>1. 0 + 1 = 1 /\ 1 \in 0..N
      BY <1>1
    <3>2. laid[1] = <<>> \o OwnSlots(c)
      BY <1>1, <1>12, <1>13, <3>1 DEF Step
    <3>3. laid[1] = OwnSlots(c)
      BY <1>15, <3>2
    <3>4. Own(OwnSlots(c))
      BY <1>15
    <3> QED
      BY <3>1, <3>3, <3>4
  <2>2. ASSUME NEW d \in Nat, d \in P
        PROVE  d + 1 \in P
    <3>1. SUFFICES ASSUME (d + 1) + 1 \in 0..N PROVE Own(laid[(d + 1) + 1])
      OBVIOUS
    <3>2. d + 1 \in 0..N /\ (d + 1) + 1 \in 1..N
      BY <1>1, <3>1
    <3> DEFINE s == laid[d + 1]
               own == OwnSlots(Lineage(c)[(d + 1) + 1])
    <3>3. s \in Seq(Slot) /\ Own(s) /\ own \in Seq(Slot)
      BY <1>1, <1>14, <2>2, <3>2, OwnSlotsFacts DEF S
    <3>4. laid[(d + 1) + 1] = s \o own
      <4>1. laid[(d + 1) + 1] = Step((d + 1) + 1, laid[d + 1])
        BY <1>13, <3>1
      <4> QED
        BY <4>1 DEF Step
    <3> HIDE DEF s, own
    <3>5. /\ Len(s \o own) = Len(s) + Len(own) /\ Len(s) \in Nat /\ Len(own) \in Nat
          /\ \A i \in 1..(Len(s) + Len(own)) :
               (s \o own)[i] = IF i <= Len(s) THEN s[i] ELSE own[i - Len(s)]
          /\ DOMAIN s = 1..Len(s)
          /\ s \o own \in Seq(Slot)
      BY <3>3, ConcatFacts, SeqFacts
    <3>6. DOMAIN (s \o own) = 1..(Len(s) + Len(own))
      BY <3>5, SeqFacts
    <3>7. \A k \in DOMAIN s : k \in DOMAIN (s \o own) /\ (s \o own)[k] = s[k]
      BY <3>5, <3>6
    <3> QED
      BY <3>3, <3>4, <3>7
  <2>3. Nat \subseteq P
    <3> HIDE DEF P
    <3> QED
      BY <2>1, <2>2, NaturalsInSet
  <2> QED
    BY <2>3
<1>17. Own(laid[N])
  <2>1. N - 1 \in Nat /\ (N - 1) + 1 = N /\ N \in 0..N
    BY <1>1
  <2> QED
    BY <1>16, <2>1
<1>18. laid[N] \in S
  BY <1>1, <1>14
<1> QED
  BY <1>11, <1>17, <1>18 DEF S

-----------------------------------------------------------------------------
(* Where an object is held *)

FieldsOf(objects, id) ==
  UNION {{<<"field", x, k>> : k \in {k \in DOMAIN objects[x].slots :
                                     objects[x].slots[k].value = Reference(id)}}
         : x \in DOMAIN objects}
LocalsOf(frs, id) ==
  UNION {{<<"local", d, i>> : i \in {i \in 0..(Locals - 1) :
                                     /\ i # 0 \/ frs[d].static
                                     /\ frs[d].locals[i] = Reference(id)}} : d \in DOMAIN frs}
Places(objects, frs, id) == FieldsOf(objects, id) \cup LocalsOf(frs, id)

LEMMA InFieldsOf ==
  ASSUME NEW objects, NEW id, NEW p
  PROVE  p \in FieldsOf(objects, id) <=>
           \E x \in DOMAIN objects : \E k \in DOMAIN objects[x].slots :
             p = <<"field", x, k>> /\ objects[x].slots[k].value = Reference(id)
BY DEF FieldsOf

LEMMA InLocalsOf ==
  ASSUME NEW frs, NEW id, NEW p
  PROVE  p \in LocalsOf(frs, id) <=>
           \E d \in DOMAIN frs, i \in 0..(Locals - 1) :
             /\ p = <<"local", d, i>>
             /\ i # 0 \/ frs[d].static
             /\ frs[d].locals[i] = Reference(id)
BY DEF LocalsOf

LEMMA PlacesHere ==
  /\ \A id : Holders(id) = Cardinality(Places(object, frames, id))
  /\ \A id : HoldingLocals(id) = LocalsOf(frames, id)
BY DEF Holders, HoldingFields, HoldingLocals, Ids, Places, FieldsOf, LocalsOf

LEMMA PlacesThere ==
  ASSUME NEW id
  PROVE  Holders(id)' = Cardinality(Places(object', frames', id))
BY DEF Holders, HoldingFields, HoldingLocals, Ids, Places, FieldsOf, LocalsOf

\* Finitely many finite sets.
LEMMA FiniteUnion ==
  ASSUME NEW n \in Nat, NEW f, DOMAIN f = 1..n, \A x \in 1..n : IsFiniteSet(f[x])
  PROVE  IsFiniteSet(UNION {f[x] : x \in 1..n})
<1> DEFINE P == {k \in Nat : k <= n => IsFiniteSet(UNION {f[x] : x \in 1..k})}
<1>1. 0 \in P
  <2>1. UNION {f[x] : x \in 1..0} = {}
    OBVIOUS
  <2> QED
    BY <2>1, FS_EmptySet
<1>2. ASSUME NEW k \in Nat, k \in P
      PROVE  k + 1 \in P
  <2>1. SUFFICES ASSUME k + 1 <= n
                 PROVE  IsFiniteSet(UNION {f[x] : x \in 1..(k + 1)})
    OBVIOUS
  <2>2. k <= n /\ k + 1 \in 1..n
    BY <2>1
  <2>3. IsFiniteSet(UNION {f[x] : x \in 1..k}) /\ IsFiniteSet(f[k + 1])
    BY <1>2, <2>2
  <2>4. UNION {f[x] : x \in 1..(k + 1)} = (UNION {f[x] : x \in 1..k}) \cup f[k + 1]
    <3>1. 1..(k + 1) = (1..k) \cup {k + 1}
      OBVIOUS
    <3> QED
      BY <3>1
  <2>5. \A A, B : IsFiniteSet(A) /\ IsFiniteSet(B) => IsFiniteSet(A \cup B)
    BY FS_Union
  <2>6. IsFiniteSet((UNION {f[x] : x \in 1..k}) \cup f[k + 1])
    BY <2>3, <2>5
  <2> QED
    BY <2>4, <2>6
<1>3. n \in P
  <2> HIDE DEF P
  <2> QED
    BY <1>1, <1>2, NaturalsInSet
<1> QED
  BY <1>3

LEMMA FinitePlaces ==
  ASSUME NEW objects \in Seq(Object), NEW frs \in Seq(Frame), NEW id
  PROVE  IsFiniteSet(Places(objects, frs, id))
<1>1. IsFiniteSet(FieldsOf(objects, id))
  <2> DEFINE f == [x \in 1..Len(objects) |-> {x} \X (1..Len(objects[x].slots))]
             all == UNION {f[x] : x \in 1..Len(objects)}
             g == [p \in all |-> <<"field", p[1], p[2]>>]
  <2>1. Len(objects) \in Nat /\ DOMAIN objects = 1..Len(objects)
        /\ \A x \in 1..Len(objects) : objects[x].slots \in Seq(Slot)
    BY SeqFacts, ObjectFacts
  <2>2. \A x \in 1..Len(objects) :
          Len(objects[x].slots) \in Nat /\ DOMAIN objects[x].slots = 1..Len(objects[x].slots)
    BY <2>1, SeqFacts
  <2>3. \A x \in 1..Len(objects) : IsFiniteSet(f[x])
    <3> SUFFICES ASSUME NEW x \in 1..Len(objects) PROVE IsFiniteSet(f[x])
      OBVIOUS
    <3>1. IsFiniteSet({x})
      BY FS_Singleton
    <3>3. IsFiniteSet(1..Len(objects[x].slots))
      <4>1. Len(objects[x].slots) \in Int /\ 1 \in Int
        BY <2>2
      <4> QED
        BY <4>1, FS_Interval
    <3>2. f[x] = {x} \X (1..Len(objects[x].slots))
      OBVIOUS
    <3> QED
      BY <3>1, <3>2, <3>3, FS_Product
  <2>4. IsFiniteSet(all)
    <3>1. DOMAIN f = 1..Len(objects)
      OBVIOUS
    <3> HIDE DEF f
    <3> QED
      BY <2>1, <2>3, <3>1, FiniteUnion
  <2> DEFINE image == {g[p] : p \in all}
  <2>5. IsFiniteSet(image)
    <3>1. g \in Surjection(all, image)
      <4> HIDE DEF all
      <4> QED
        BY DEF Surjection
    <3> HIDE DEF all, g, image
    <3> QED
      BY <2>4, <3>1, FS_Surjection
  <2>6. FieldsOf(objects, id) \subseteq image
    <3> SUFFICES ASSUME NEW p \in FieldsOf(objects, id) PROVE p \in image
      OBVIOUS
    <3>0. PICK x \in DOMAIN objects : \E k \in DOMAIN objects[x].slots : p = <<"field", x, k>>
      BY InFieldsOf
    <3>1. PICK k \in DOMAIN objects[x].slots : p = <<"field", x, k>>
      BY <3>0
    <3>2. x \in 1..Len(objects) /\ k \in 1..Len(objects[x].slots)
      BY <2>1, <2>2
    <3>3. <<x, k>> \in f[x]
      BY <3>2
    <3>4. <<x, k>> \in all
      BY <3>2, <3>3
    <3>5. g[<<x, k>>] = p
      <4> HIDE DEF all
      <4> QED
        BY <3>1, <3>4
    <3> QED
      BY <3>4, <3>5
  <2> QED
    BY <2>5, <2>6, FS_Subset
<1>2. IsFiniteSet(LocalsOf(frs, id))
  <2> DEFINE all == (1..Len(frs)) \X (0..(Locals - 1))
             g == [p \in all |-> <<"local", p[1], p[2]>>]
             image == {g[p] : p \in all}
  <2>1. Len(frs) \in Nat /\ DOMAIN frs = 1..Len(frs) /\ Locals \in Nat
    BY SeqFacts, HeapAssumption
  <2>2. IsFiniteSet(all)
    <3>1. IsFiniteSet(1..Len(frs)) /\ IsFiniteSet(0..(Locals - 1))
      BY <2>1, FS_Interval
    <3> QED
      BY <3>1, FS_Product
  <2>3. IsFiniteSet(image)
    <3>1. g \in Surjection(all, image)
      <4> HIDE DEF all
      <4> QED
        BY DEF Surjection
    <3> HIDE DEF all, g, image
    <3> QED
      BY <2>2, <3>1, FS_Surjection
  <2>4. LocalsOf(frs, id) \subseteq image
    <3> SUFFICES ASSUME NEW p \in LocalsOf(frs, id) PROVE p \in image
      OBVIOUS
    <3>1. PICK d \in DOMAIN frs, i \in 0..(Locals - 1) : p = <<"local", d, i>>
      BY InLocalsOf
    <3>2. <<d, i>> \in all
      BY <2>1
    <3>3. g[<<d, i>>] = p
      <4> HIDE DEF all
      <4> QED
        BY <3>1, <3>2
    <3> QED
      BY <3>2, <3>3
  <2> QED
    BY <2>3, <2>4, FS_Subset
<1> QED
  BY <1>1, <1>2, FS_Union DEF Places

-----------------------------------------------------------------------------
(* Steps that keep every object *)

Grown(objects, q) ==
  /\ q \in Seq(Object) /\ Len(objects) <= Len(q)
  /\ \A id \in DOMAIN objects : q[id].class = objects[id].class

ThreadOn(frs, q) ==
  /\ frs \in Seq(Frame) /\ frs # <<>>
  /\ \A d \in DOMAIN frs : FrameOK(frs[d], q)

Worth(objects, frs, id) == objects[id].reference - Cardinality(Places(objects, frs, id))

\* No object is worth less than before, and new ones are worth nothing.
NoneLost(q, frs) ==
  /\ \A id \in DOMAIN object : Worth(q, frs, id) >= Worth(object, frames, id)
  /\ \A id \in DOMAIN q \ DOMAIN object : Worth(q, frs, id) = 0

Kept(q, frs) == Grown(object, q) /\ HeapOK(q) /\ ThreadOn(frs, q)

LEMMA HeapFacts ==
  ASSUME StateOK, vm = "running"
  PROVE  /\ pool \in Pools /\ HeapOK(object) /\ object \in Seq(Object)
         /\ Len(object) \in Nat /\ DOMAIN object = 1..Len(object)
         /\ \A id \in DOMAIN object : /\ object[id] \in Object /\ ObjectOK(object[id], object)
                                      /\ id \in Nat /\ id # 0
         /\ ThreadOn(frames, object)
         /\ Grown(object, object)
<1>1. pool \in Pools /\ HeapOK(object) /\ object \in Seq(Object) /\ ThreadOn(frames, object)
  BY DEF StateOK, HeapOK, ThreadOK, ThreadOn
<1>2. /\ Len(object) \in Nat /\ DOMAIN object = 1..Len(object)
      /\ \A id \in DOMAIN object : object[id] \in Object
  BY <1>1, SeqFacts
<1> QED
  BY <1>1, <1>2 DEF HeapOK, Grown

LEMMA TopFacts ==
  ASSUME StateOK, vm = "running"
  PROVE  /\ frames \in Seq(Frame) /\ Len(frames) \in Nat /\ Len(frames) >= 1
         /\ DOMAIN frames = 1..Len(frames) /\ \A d \in DOMAIN frames : frames[d] \in Frame
         /\ Current = frames[Len(frames)] /\ Current \in Frame /\ FrameOK(Current, object)
         /\ Current.operands \in Seq(Value) /\ Len(Current.operands) \in Nat
         /\ DOMAIN Current.operands = 1..Len(Current.operands)
         /\ \A k \in 1..Len(Current.operands) : Good(Current.operands[k], object)
         /\ Current.operands # <<>> =>
              /\ Len(Current.operands) >= 1 /\ Top = Current.operands[Len(Current.operands)]
              /\ Good(Top, object)
<1>1. frames \in Seq(Frame) /\ frames # <<>> /\ \A d \in DOMAIN frames : FrameOK(frames[d], object)
  BY DEF StateOK, ThreadOK
<1>2. /\ Len(frames) \in Nat /\ Len(frames) >= 1 /\ DOMAIN frames = 1..Len(frames)
      /\ \A d \in DOMAIN frames : frames[d] \in Frame
  BY <1>1, SeqFacts
<1>3. Current = frames[Len(frames)]
  BY DEF Current, Last
<1>4. Len(frames) \in DOMAIN frames
  BY <1>2
<1>5. Current \in Frame /\ FrameOK(Current, object)
  BY <1>1, <1>2, <1>3, <1>4
<1>6. Current.operands \in Seq(Value)
  BY <1>5, FrameFacts
<1>7. /\ Len(Current.operands) \in Nat /\ DOMAIN Current.operands = 1..Len(Current.operands)
      /\ Current.operands # <<>> => Len(Current.operands) >= 1
  BY <1>6, SeqFacts
<1>8. \A k \in 1..Len(Current.operands) : Good(Current.operands[k], object)
  BY <1>5, <1>7 DEF FrameOK
<1>9. Current.operands # <<>> => Top = Current.operands[Len(Current.operands)]
  BY DEF Top, Last
<1> HIDE DEF Current, Top
<1>10. Current.operands # <<>> => Good(Top, object)
  BY <1>7, <1>8, <1>9
<1> QED
  BY <1>1, <1>2, <1>3, <1>5, <1>6, <1>7, <1>8, <1>9, <1>10

LEMMA GrownKeepsGood ==
  ASSUME NEW objects \in Seq(Object), NEW q, Grown(objects, q), NEW v, Good(v, objects)
  PROVE  Good(v, q)
<1>1. DOMAIN objects = 1..Len(objects) /\ DOMAIN q = 1..Len(q)
      /\ Len(objects) \in Nat /\ Len(q) \in Nat /\ Len(objects) <= Len(q)
  BY SeqFacts DEF Grown
<1> QED
  BY <1>1 DEF Good, Grown

LEMMA GrownKeepsFrames ==
  ASSUME NEW objects \in Seq(Object), NEW q, Grown(objects, q), NEW f, FrameOK(f, objects)
  PROVE  FrameOK(f, q)
BY GrownKeepsGood DEF FrameOK

\* The frame on top changes.
LEMMA CurrentSet ==
  ASSUME StateOK, vm = "running", NEW q, Grown(object, q),
         NEW f \in Frame, FrameOK(f, q), SetCurrent(f)
  PROVE  /\ ThreadOn(frames', q)
         /\ Len(frames') = Len(frames) /\ DOMAIN frames' = DOMAIN frames
         /\ \A d \in DOMAIN frames : frames'[d] = IF d = Len(frames) THEN f ELSE frames[d]
<1>1. /\ frames \in Seq(Frame) /\ Len(frames) \in 1..Len(frames) /\ Len(frames) \in Nat
      /\ DOMAIN frames = 1..Len(frames)
  BY TopFacts
<1>2. frames' = [frames EXCEPT ![Len(frames)] = f]
  BY DEF SetCurrent
<1>3. /\ frames' \in Seq(Frame) /\ Len(frames') = Len(frames)
      /\ \A d \in DOMAIN frames : frames'[d] = IF d = Len(frames) THEN f ELSE frames[d]
  BY <1>1, <1>2, UpdateFacts
<1>4. DOMAIN frames' = DOMAIN frames
  BY <1>1, <1>3, SeqFacts
<1>5. \A d \in DOMAIN frames : FrameOK(frames[d], q)
  BY HeapFacts, GrownKeepsFrames DEF ThreadOn
<1>6. frames' # <<>>
  BY <1>1, <1>3
<1> QED
  BY <1>3, <1>4, <1>5, <1>6 DEF ThreadOn

\* Only its operands change.
LEMMA OperandsSet ==
  ASSUME StateOK, vm = "running", NEW q, Grown(object, q),
         NEW ops \in Seq(Value), \A k \in 1..Len(ops) : Good(ops[k], q),
         SetCurrent([Current EXCEPT !.operands = ops])
  PROVE  /\ ThreadOn(frames', q)
         /\ \A id : LocalsOf(frames', id) = LocalsOf(frames, id)
<1> DEFINE f == [class |-> Current.class, static |-> Current.static,
                 locals |-> Current.locals, operands |-> ops]
<1>1. Current \in Frame /\ FrameOK(Current, object) /\ Current = frames[Len(frames)]
  BY TopFacts
<1>2. [Current EXCEPT !.operands = ops] = f
  BY <1>1 DEF Frame
<1>3. f \in Frame
  BY <1>1, FrameFacts DEF Frame
<1>4. f.locals = Current.locals /\ f.operands = ops /\ f.static = Current.static
  OBVIOUS
<1> HIDE DEF f
<1>5. FrameOK(f, q)
  <2>1. FrameOK(Current, q)
    BY <1>1, HeapFacts, GrownKeepsFrames
  <2>2. DOMAIN ops = 1..Len(ops)
    BY SeqFacts
  <2> QED
    BY <1>4, <2>1, <2>2 DEF FrameOK
<1>6. SetCurrent(f)
  BY <1>2
<1>7. /\ ThreadOn(frames', q) /\ DOMAIN frames' = DOMAIN frames
      /\ \A d \in DOMAIN frames : frames'[d] = IF d = Len(frames) THEN f ELSE frames[d]
  BY <1>3, <1>5, <1>6, CurrentSet
<1>8. \A d \in DOMAIN frames : /\ frames'[d].static = frames[d].static
                               /\ frames'[d].locals = frames[d].locals
  BY <1>1, <1>4, <1>7
<1>9. ASSUME NEW id
      PROVE  LocalsOf(frames', id) = LocalsOf(frames, id)
  <2>1. \A p : p \in LocalsOf(frames', id) <=> p \in LocalsOf(frames, id)
    BY <1>7, <1>8, InLocalsOf
  <2> QED
    BY <2>1
<1> QED
  BY <1>7, <1>9

\* Fewer locals hold objects that stay as they are.
LEMMA NothingLostByFewerLocals ==
  ASSUME StateOK, vm = "running", NEW frs \in Seq(Frame),
         \A id : LocalsOf(frs, id) \subseteq LocalsOf(frames, id)
  PROVE  NoneLost(object, frs)
<1>1. ASSUME NEW id \in DOMAIN object
      PROVE  Worth(object, frs, id) >= Worth(object, frames, id)
  <2>1. Places(object, frs, id) \subseteq Places(object, frames, id)
    BY DEF Places
  <2>2. IsFiniteSet(Places(object, frames, id))
    BY HeapFacts, TopFacts, FinitePlaces
  <2>3. Cardinality(Places(object, frs, id)) <= Cardinality(Places(object, frames, id))
    BY <2>1, <2>2, FS_Subset
  <2>4. /\ Cardinality(Places(object, frs, id)) \in Nat
        /\ Cardinality(Places(object, frames, id)) \in Nat
    BY <2>1, <2>2, FS_Subset, FS_CardinalityType
  <2>5. object[id].reference \in Int
    BY HeapFacts, ObjectFacts
  <2> QED
    BY <2>3, <2>4, <2>5 DEF Worth
<1> QED
  BY <1>1 DEF NoneLost

-----------------------------------------------------------------------------
(* Steps that only move operands *)

SoundStep == Kept(object', frames') /\ NoneLost(object', frames') /\ UNCHANGED <<pool, vm>>

LEMMA OperandsStep ==
  ASSUME StateOK, vm = "running", NEW ops \in Seq(Value),
         \A k \in 1..Len(ops) : Good(ops[k], object),
         SetCurrent([Current EXCEPT !.operands = ops]), UNCHANGED <<pool, object, vm>>
  PROVE  SoundStep
<1>1. /\ ThreadOn(frames', object)
      /\ \A id : LocalsOf(frames', id) = LocalsOf(frames, id)
  BY HeapFacts, OperandsSet
<1>2. NoneLost(object, frames')
  <2>1. frames' \in Seq(Frame) /\ \A id : LocalsOf(frames', id) \subseteq LocalsOf(frames, id)
    BY <1>1 DEF ThreadOn
  <2> QED
    BY <2>1, NothingLostByFewerLocals
<1> QED
  BY <1>1, <1>2, HeapFacts DEF SoundStep, Kept

LEMMA DroppedFacts ==
  ASSUME StateOK, vm = "running", NEW n \in Nat, n <= Len(Current.operands)
  PROVE  /\ Dropped(n) \in Seq(Value) /\ Len(Dropped(n)) = Len(Current.operands) - n
         /\ \A k \in 1..Len(Dropped(n)) : Good(Dropped(n)[k], object)
<1>1. /\ Current.operands \in Seq(Value) /\ Len(Current.operands) \in Nat
      /\ \A k \in 1..Len(Current.operands) : Good(Current.operands[k], object)
  BY TopFacts
<1>2. Len(Current.operands) - n \in 0..Len(Current.operands)
  BY <1>1
<1> DEFINE m == Len(Current.operands) - n
<1> HIDE DEF m
<1>3. /\ SubSeq(Current.operands, 1, m) \in Seq(Value)
      /\ Len(SubSeq(Current.operands, 1, m)) = m
      /\ \A i \in 1..m : SubSeq(Current.operands, 1, m)[i] = Current.operands[i]
  BY <1>1, <1>2, SubSeqFacts DEF m
<1>4. Dropped(n) = SubSeq(Current.operands, 1, m)
  BY DEF Dropped, m
<1>5. m \in Nat /\ m <= Len(Current.operands)
  BY <1>1, <1>2 DEF m
<1>6. \A i \in 1..m : i \in 1..Len(Current.operands)
  BY <1>1, <1>5
<1> QED
  BY <1>1, <1>3, <1>4, <1>6 DEF m

\* A value on top of what is left of the operands.
LEMMA AppendGood ==
  ASSUME NEW ops \in Seq(Value), NEW q, \A k \in 1..Len(ops) : Good(ops[k], q),
         NEW v, Good(v, q)
  PROVE  /\ Append(ops, v) \in Seq(Value)
         /\ \A k \in 1..Len(Append(ops, v)) : Good(Append(ops, v)[k], q)
<1>1. v \in Value
  BY DEF Good
<1>2. /\ Append(ops, v) \in Seq(Value) /\ Len(Append(ops, v)) = Len(ops) + 1
      /\ Append(ops, v)[Len(ops) + 1] = v
      /\ \A i \in 1..Len(ops) : Append(ops, v)[i] = ops[i]
      /\ Len(ops) \in Nat
  BY <1>1, AppendFacts
<1>3. ASSUME NEW k \in 1..(Len(ops) + 1)
      PROVE  Good(Append(ops, v)[k], q)
  <2>1. CASE k = Len(ops) + 1
    BY <1>2, <2>1
  <2>2. CASE k # Len(ops) + 1
    <3>1. k \in 1..Len(ops)
      BY <1>2, <2>2
    <3> QED
      BY <1>2, <3>1
  <2> QED
    BY <2>1, <2>2
<1> QED
  BY <1>2, <1>3

LEMMA PushStep ==
  ASSUME StateOK, vm = "running", NEW v, Good(v, object), Push(v)
  PROVE  SoundStep
<1>1. /\ Append(Current.operands, v) \in Seq(Value)
      /\ \A k \in 1..Len(Append(Current.operands, v)) : Good(Append(Current.operands, v)[k], object)
  BY TopFacts, AppendGood
<1>2. SetCurrent([Current EXCEPT !.operands = Append(Current.operands, v)])
  BY DEF Push
<1>3. UNCHANGED <<pool, object, vm>>
  BY DEF Push
<1> QED
  BY <1>1, <1>2, <1>3, OperandsStep

LEMMA DropStep ==
  ASSUME StateOK, vm = "running", Current.operands # <<>>,
         SetCurrent([Current EXCEPT !.operands = Dropped(1)]), UNCHANGED <<pool, object, vm>>
  PROVE  SoundStep
<1>1. 1 \in Nat /\ 1 <= Len(Current.operands)
  BY TopFacts
<1>2. Dropped(1) \in Seq(Value) /\ \A k \in 1..Len(Dropped(1)) : Good(Dropped(1)[k], object)
  BY <1>1, DroppedFacts
<1> HIDE DEF Dropped
<1> QED
  BY <1>2, OperandsStep

LEMMA NullIsGood == \A objects : Good(Null, objects)
BY ValueFacts DEF Good

LEMMA FirstSlotFacts ==
  ASSUME StateOK, vm = "running", NEW id \in DOMAIN object, NEW index,
         MatchingSlots(id, index) # {}
  PROVE  /\ FirstSlot(id, index) \in MatchingSlots(id, index)
         /\ \A k \in MatchingSlots(id, index) : FirstSlot(id, index) <= k
<1>1. MatchingSlots(id, index) \subseteq Nat
  <2>1. object[id].slots \in Seq(Slot)
    BY HeapFacts, ObjectFacts
  <2>2. DOMAIN object[id].slots = 1..Len(object[id].slots)
    BY <2>1, SeqFacts
  <2> QED
    BY <2>2 DEF MatchingSlots
<1>2. PICK m \in MatchingSlots(id, index) : \A k \in MatchingSlots(id, index) : m <= k
  BY <1>1, LeastNatural
<1> QED
  BY <1>1, <1>2 DEF FirstSlot, Min

\* Moves within the frame, and getfield.
LEMMA OperandMoves ==
  ASSUME StateOK, vm = "running",
         \/ \E i \in 0..(Locals - 1) : ALoad(i)
         \/ AconstNull \/ Dup \/ Pop \/ ArrayLength
         \/ \E index \in Indices : GetField(index)
  PROVE  SoundStep
<1>1. ASSUME NEW i \in 0..(Locals - 1), ALoad(i)
      PROVE  SoundStep
  <2>1. Good(Current.locals[i], object)
    BY TopFacts DEF FrameOK
  <2> QED
    BY <1>1, <2>1, PushStep DEF ALoad
<1>2. ASSUME AconstNull
      PROVE  SoundStep
  BY <1>2, NullIsGood, PushStep DEF AconstNull
<1>3. ASSUME Dup
      PROVE  SoundStep
  <2>1. Good(Top, object)
    BY <1>3, TopFacts DEF Dup
  <2> QED
    BY <1>3, <2>1, PushStep DEF Dup
<1>4. ASSUME Pop
      PROVE  SoundStep
  BY <1>4, DropStep DEF Pop
<1>5. ASSUME ArrayLength
      PROVE  SoundStep
  BY <1>5, DropStep DEF ArrayLength
<1>6. ASSUME NEW index \in Indices, GetField(index)
      PROVE  SoundStep
  <2>1. Current.operands # <<>> /\ Top.type = "L" /\ Live(Top.ref) /\ UNCHANGED <<pool, object, vm>>
    BY <1>6 DEF GetField
  <2> DEFINE v == object[Top.ref].slots[FirstSlot(Top.ref, index)].value
  <2>2. CASE MatchingSlots(Top.ref, index) = {}
    <3>1. SetCurrent([Current EXCEPT !.operands = Dropped(1)])
      BY <1>6, <2>2 DEF GetField
    <3> QED
      BY <2>1, <3>1, DropStep
  <2>3. CASE MatchingSlots(Top.ref, index) # {}
    <3>1. SetCurrent([Current EXCEPT !.operands = Append(Dropped(1), v)])
      BY <1>6, <2>3 DEF GetField
    <3>2. 1 \in Nat /\ 1 <= Len(Current.operands)
      BY <2>1, TopFacts
    <3>3. Dropped(1) \in Seq(Value) /\ \A k \in 1..Len(Dropped(1)) : Good(Dropped(1)[k], object)
      BY <3>2, DroppedFacts
    <3>4. Good(v, object)
      <4>1. Good(Top, object) /\ Top.ref \in DOMAIN object
        BY <2>1, TopFacts DEF Live
      <4>2. object[Top.ref].class # Array /\ ObjectOK(object[Top.ref], object)
        BY <2>1, <4>1, HeapFacts DEF Good
      <4>3. FirstSlot(Top.ref, index) \in DOMAIN object[Top.ref].slots
        BY <2>3, <4>1, FirstSlotFacts DEF MatchingSlots
      <4> QED
        BY <4>2, <4>3 DEF ObjectOK
    <3> HIDE DEF Dropped, v
    <3>5. /\ Append(Dropped(1), v) \in Seq(Value)
          /\ \A k \in 1..Len(Append(Dropped(1), v)) : Good(Append(Dropped(1), v)[k], object)
      BY <3>3, <3>4, AppendGood
    <3> QED
      BY <2>1, <3>1, <3>5, OperandsStep
  <2> QED
    BY <2>2, <2>3
<1> QED
  BY <1>1, <1>2, <1>3, <1>4, <1>5, <1>6

-----------------------------------------------------------------------------
(* Steps that create an object *)

LEMMA UnmadeIsUnheld ==
  ASSUME StateOK, vm = "running", NEW id \in Nat, id # 0, id \notin DOMAIN object
  PROVE  Places(object, frames, id) = {}
<1>1. ASSUME NEW p \in FieldsOf(object, id)
      PROVE  FALSE
  <2>1. PICK x \in DOMAIN object : \E k \in DOMAIN object[x].slots :
          object[x].slots[k].value = Reference(id)
    BY <1>1, InFieldsOf
  <2>2. PICK k \in DOMAIN object[x].slots : object[x].slots[k].value = Reference(id)
    BY <2>1
  <2>3. Reference(id).type = "L" /\ Reference(id).ref = id
    BY ValueFacts
  <2>4. ObjectOK(object[x], object)
    BY HeapFacts
  <2> QED
    BY <2>2, <2>3, <2>4 DEF ObjectOK, Good
<1>2. ASSUME NEW p \in LocalsOf(frames, id)
      PROVE  FALSE
  <2>1. PICK d \in DOMAIN frames, i \in 0..(Locals - 1) : frames[d].locals[i] = Reference(id)
    BY <1>2, InLocalsOf
  <2>2. Reference(id).type = "L" /\ Reference(id).ref = id
    BY ValueFacts
  <2>3. FrameOK(frames[d], object)
    BY HeapFacts DEF ThreadOn
  <2> QED
    BY <2>1, <2>2, <2>3 DEF FrameOK, Good
<1> QED
  BY <1>1, <1>2 DEF Places

HoldsNothing(o) == \A k \in DOMAIN o.slots, id \in Nat \ {0} : o.slots[k].value # Reference(id)

LEMMA NewObject ==
  ASSUME StateOK, vm = "running", NEW o \in Object, o.class # None, o.reference = 0,
         HoldsNothing(o), object' = Append(object, o), ObjectOK(o, object'),
         NEW v, Good(v, object'),
         SetCurrent([Current EXCEPT !.operands = Append(Current.operands, v)]),
         UNCHANGED <<pool, vm>>
  PROVE  SoundStep
<1> DEFINE q == Append(object, o)
<1>1. /\ object \in Seq(Object) /\ Len(object) \in Nat /\ DOMAIN object = 1..Len(object)
      /\ q \in Seq(Object) /\ Len(q) = Len(object) + 1 /\ DOMAIN q = 1..(Len(object) + 1)
      /\ q[Len(object) + 1] = o /\ \A id \in DOMAIN object : q[id] = object[id]
  BY HeapFacts, AppendFacts
<1>2. object' = q
  OBVIOUS
<1> HIDE DEF q
<1>3. Grown(object, q)
  BY <1>1 DEF Grown
<1>4. HeapOK(q)
  <2>1. ASSUME NEW id \in DOMAIN object
        PROVE  ObjectOK(q[id], q)
    <3>1. ObjectOK(object[id], object)
      BY HeapFacts
    <3>2. \A w : Good(w, object) => Good(w, q)
      BY <1>1, <1>3, GrownKeepsGood
    <3>3. q[id] = object[id]
      BY <1>1
    <3>4. ObjectOK(object[id], q)
      BY <3>1, <3>2 DEF ObjectOK
    <3> QED
      BY <3>3, <3>4
  <2>2. \A id \in DOMAIN q : id \in DOMAIN object \/ id = Len(object) + 1
    BY <1>1
  <2>3. ObjectOK(q[Len(object) + 1], q)
    BY <1>1, <1>2
  <2> QED
    BY <1>1, <2>1, <2>2, <2>3 DEF HeapOK
<1>5. /\ ThreadOn(frames', q)
      /\ \A id : LocalsOf(frames', id) = LocalsOf(frames, id)
  <2>1. /\ Current.operands \in Seq(Value)
        /\ \A k \in 1..Len(Current.operands) : Good(Current.operands[k], q)
    BY <1>1, <1>3, TopFacts, GrownKeepsGood
  <2>2. Good(v, q)
    BY <1>2
  <2>3. /\ Append(Current.operands, v) \in Seq(Value)
        /\ \A k \in 1..Len(Append(Current.operands, v)) : Good(Append(Current.operands, v)[k], q)
    BY <2>1, <2>2, AppendGood
  <2> QED
    BY <1>3, <2>3, OperandsSet
<1>6. ASSUME NEW id \in DOMAIN q
      PROVE  Places(q, frames', id) = Places(object, frames, id)
  <2>1. id \in Nat \ {0}
    BY <1>1
  <2>2. \A k \in DOMAIN o.slots : o.slots[k].value # Reference(id)
    BY <2>1 DEF HoldsNothing
  <2>3. \A x \in DOMAIN q : x \in DOMAIN object \/ q[x] = o
    BY <1>1
  <2>4. \A x \in DOMAIN object : x \in DOMAIN q /\ q[x] = object[x]
    BY <1>1
  <2>5. \A p : p \in FieldsOf(q, id) <=> p \in FieldsOf(object, id)
    <3> SUFFICES ASSUME NEW p PROVE p \in FieldsOf(q, id) <=> p \in FieldsOf(object, id)
      OBVIOUS
    <3> QED
      BY <2>2, <2>3, <2>4, InFieldsOf
  <2>6. FieldsOf(q, id) = FieldsOf(object, id)
    BY <2>5
  <2> QED
    BY <1>5, <2>6 DEF Places
<1>7. ASSUME NEW id \in DOMAIN object
      PROVE  Worth(q, frames', id) >= Worth(object, frames, id)
  <2>1. q[id].reference = object[id].reference /\ id \in DOMAIN q
    BY <1>1
  <2>2. Worth(q, frames', id) = Worth(object, frames, id)
    BY <1>6, <2>1 DEF Worth
  <2>3. Worth(object, frames, id) \in Int
    <3>1. IsFiniteSet(Places(object, frames, id))
      BY HeapFacts, TopFacts, FinitePlaces
    <3>2. Cardinality(Places(object, frames, id)) \in Nat /\ object[id].reference \in Int
      BY <3>1, FS_CardinalityType, HeapFacts, ObjectFacts
    <3> QED
      BY <3>2 DEF Worth
  <2> QED
    BY <2>2, <2>3
<1>8. ASSUME NEW id \in DOMAIN q \ DOMAIN object
      PROVE  Worth(q, frames', id) = 0
  <2>1. id = Len(object) + 1 /\ id \in Nat /\ id # 0
    BY <1>1
  <2>2. Places(q, frames', id) = {}
    BY <1>6, <2>1, UnmadeIsUnheld
  <2>3. q[id].reference = 0
    BY <1>1, <2>1
  <2> QED
    BY <2>2, <2>3, FS_EmptySet DEF Worth
<1> QED
  BY <1>2, <1>3, <1>4, <1>5, <1>7, <1>8 DEF SoundStep, Kept, NoneLost

\* new, ldc, newarray and anewarray.
LEMMA Creations ==
  ASSUME StateOK, vm = "running",
         \/ \E c \in Class : New(c)
         \/ LdcString
         \/ \E type \in {"I", "L"}, length \in ArrayLengths : NewArray(type, length)
  PROVE  SoundStep
<1>0. /\ Len(object) \in Nat /\ DOMAIN object = 1..Len(object) /\ pool \in Pools
      /\ object \in Seq(Object)
  BY HeapFacts
<1> DEFINE new == Len(object) + 1
<1>1. ASSUME NEW o \in Object
      PROVE  /\ new \in DOMAIN Append(object, o) /\ Append(object, o)[new] = o
             /\ new \in Nat /\ new # 0
             /\ Good(Reference(new), Append(object, o)) <=> o.class # Array
  <2>1. /\ DOMAIN Append(object, o) = 1..(Len(object) + 1)
        /\ Append(object, o)[new] = o /\ new \in 1..(Len(object) + 1) /\ new \in Nat /\ new # 0
    BY <1>0, AppendFacts
  <2>2. Reference(new) \in Value /\ Reference(new).type = "L" /\ Reference(new).ref = new
    BY <2>1, ValueFacts
  <2> HIDE DEF new
  <2> QED
    BY <2>1, <2>2 DEF Good
<1>2. ASSUME NEW c \in Class, NEW slots \in Seq(Slot),
             \A k \in DOMAIN slots : slots[k].value \in {Null, NativePointer},
             DOMAIN slots = DOMAIN Slots(c),
             \A k \in DOMAIN slots : slots[k].index = Slots(c)[k].index,
             object' = Append(object, [class |-> c, slots |-> slots, reference |-> 0]),
             SetCurrent([Current EXCEPT !.operands = Append(Current.operands, Reference(new))]),
             UNCHANGED <<pool, vm>>
      PROVE  SoundStep
  <2> DEFINE o == [class |-> c, slots |-> slots, reference |-> 0]
  <2>1. o \in Object /\ o.class = c /\ o.slots = slots /\ o.reference = 0
    BY DEF Object
  <2>2. c # None /\ c # Array
    BY HeapAssumption
  <2>3. object' = Append(object, o)
    BY <1>2
  <2> HIDE DEF o
  <2>4. Laid(o)
    BY <1>0, <1>2, <2>1, SlotsFacts DEF Laid
  <2>5. \A k \in DOMAIN slots : Good(slots[k].value, object')
    BY <1>2, ValueFacts DEF Good
  <2>6. ObjectOK(o, object')
    BY <2>1, <2>2, <2>4, <2>5 DEF ObjectOK
  <2>7. HoldsNothing(o)
    BY <1>2, <2>1, ValueFacts DEF HoldsNothing
  <2>8. Good(Reference(new), object')
    BY <1>1, <2>1, <2>2, <2>3
  <2> HIDE DEF new
  <2> QED
    BY <1>2, <2>1, <2>2, <2>3, <2>6, <2>7, <2>8, NewObject
<1>3. ASSUME NEW c \in Class, New(c)
      PROVE  SoundStep
  <2>1. /\ Slots(c) \in Seq(Slot)
        /\ \A k \in DOMAIN Slots(c) : Slots(c)[k].value \in {Null, NativePointer}
    BY <1>0, SlotsFacts
  <2> QED
    BY <1>2, <1>3, <2>1 DEF New
<1>4. ASSUME LdcString
      PROVE  SoundStep
  <2> DEFINE s == Slots(StringClass)
             t == [s EXCEPT ![1].value = NativePointer]
  <2>1. StringClass \in Class
    BY HeapAssumption
  <2>2. s \in Seq(Slot) /\ \A k \in DOMAIN s : s[k].value = Null
    BY <1>0, <2>1, SlotsFacts
  <2>3. /\ t \in Seq(Slot) /\ DOMAIN t = DOMAIN s
        /\ \A k \in DOMAIN s : t[k].index = s[k].index /\ t[k].value \in {Null, NativePointer}
    <3>1. CASE s = <<>>
      <4>1. t = <<>>
        BY <3>1
      <4>2. DOMAIN << >> = {} /\ << >> \in Seq(Slot)
        OBVIOUS
      <4> HIDE DEF s, t
      <4> QED
        BY <3>1, <4>1, <4>2
    <3>2. CASE s # <<>>
      <4> DEFINE first == [index |-> s[1].index, value |-> NativePointer]
      <4>1. 1 \in 1..Len(s) /\ s[1] \in Slot /\ DOMAIN s = 1..Len(s) /\ Len(s) \in Nat
        BY <2>2, <3>2, SeqFacts
      <4>2. s[1] = [index |-> s[1].index, value |-> s[1].value] /\ s[1].index \in Nat
        BY <4>1 DEF Slot
      <4>3. first \in Slot /\ first.index = s[1].index /\ first.value = NativePointer
        BY <4>2, ValueFacts DEF Slot
      <4>4. [s[1] EXCEPT !.value = NativePointer] = first
        BY <4>2
      <4>5. t = [s EXCEPT ![1] = [s[1] EXCEPT !.value = NativePointer]]
        BY <4>1
      <4>6. t = [s EXCEPT ![1] = first]
        BY <4>4, <4>5
      <4> HIDE DEF first, s, t
      <4>7. /\ t \in Seq(Slot) /\ Len(t) = Len(s)
            /\ \A i \in 1..Len(s) : t[i] = IF i = 1 THEN first ELSE s[i]
        BY <2>2, <4>1, <4>3, <4>6, UpdateFacts
      <4>8. DOMAIN t = 1..Len(t)
        BY <4>7, SeqFacts
      <4> QED
        BY <2>2, <4>1, <4>3, <4>7, <4>8
    <3> QED
      BY <3>1, <3>2
  <2>4. /\ object' = Append(object, [class |-> StringClass, slots |-> t, reference |-> 0])
        /\ SetCurrent([Current EXCEPT !.operands = Append(Current.operands, Reference(new))])
        /\ UNCHANGED <<pool, vm>>
    BY <1>4 DEF LdcString
  <2> HIDE DEF t, new
  <2> QED
    BY <1>2, <2>1, <2>3, <2>4
<1>5. ASSUME NEW type \in {"I", "L"}, NEW length \in ArrayLengths, NewArray(type, length)
      PROVE  SoundStep
  <2> DEFINE o == [class |-> Array, slots |-> Elements(type, length), reference |-> 0]
  <2>1. /\ Elements(type, length) \in Seq(Slot)
        /\ \A k \in DOMAIN Elements(type, length) :
             Elements(type, length)[k].value = [type |-> type, ref |-> 0]
    BY HeapAssumption DEF Elements, Slot, Value
  <2>2. o \in Object /\ o.class = Array /\ o.reference = 0 /\ o.slots = Elements(type, length)
    BY <2>1 DEF Object
  <2>3. Array # None /\ Array \notin Class
    BY HeapAssumption
  <2>4. object' = Append(object, o)
    BY <1>5 DEF NewArray
  <2> HIDE DEF o
  <2>5. ObjectOK(o, object')
    BY <2>1, <2>2, <2>3 DEF ObjectOK
  <2>6. HoldsNothing(o)
    BY <2>1, <2>2 DEF HoldsNothing, Reference
  <2>7. Good(ArrayReference(new), object')
    <3>1. new \in Nat
      BY <1>0
    <3> QED
      BY <3>1, ValueFacts DEF Good
  <2>8. /\ SetCurrent([Current EXCEPT !.operands = Append(Current.operands, ArrayReference(new))])
        /\ UNCHANGED <<pool, vm>>
    BY <1>5 DEF NewArray
  <2> HIDE DEF new
  <2> QED
    BY <2>2, <2>3, <2>4, <2>5, <2>6, <2>7, <2>8, NewObject
<1> QED
  BY <1>3, <1>4, <1>5

-----------------------------------------------------------------------------
(* Steps that store a reference *)

LEMMA PlaceReplaced ==
  ASSUME NEW S, IsFiniteSet(S), NEW T, NEW p, NEW a \in BOOLEAN, NEW b \in BOOLEAN,
         p \in S <=> a, p \in T <=> b, \A r : r # p => (r \in T <=> r \in S)
  PROVE  /\ Cardinality(S) \in Nat /\ Cardinality(T) \in Nat
         /\ Cardinality(T) = Cardinality(S) - (IF a THEN 1 ELSE 0) + (IF b THEN 1 ELSE 0)
<1> DEFINE R == S \ {p}
<1>1. /\ IsFiniteSet(R) /\ Cardinality(R) = Cardinality(S) - (IF a THEN 1 ELSE 0)
      /\ Cardinality(S) \in Nat /\ Cardinality(R) \in Nat
  <2>1. IsFiniteSet(R) /\ Cardinality(R) = IF p \in S THEN Cardinality(S) - 1 ELSE Cardinality(S)
    BY FS_RemoveElement
  <2>2. Cardinality(S) \in Nat /\ Cardinality(R) \in Nat
    BY <2>1, FS_CardinalityType
  <2> QED
    BY <2>1, <2>2
<1>2. p \notin R
  OBVIOUS
<1>3. T = IF b THEN R \cup {p} ELSE R
  <2>1. \A r : r \in T <=> r \in (IF b THEN R \cup {p} ELSE R)
    OBVIOUS
  <2> QED
    BY <2>1
<1> HIDE DEF R
<1>4. /\ IsFiniteSet(R \cup {p}) /\ Cardinality(R \cup {p}) = Cardinality(R) + 1
  BY <1>1, <1>2, FS_AddElement
<1> QED
  BY <1>1, <1>3, <1>4

\* What was in the place p is old, and what is in it now is v; no other place has changed.
Replaced(p, old, v, q, frs) ==
  \A id \in DOMAIN object :
    /\ p \in Places(object, frames, id) <=> old = Reference(id)
    /\ p \in Places(q, frs, id) <=> v = Reference(id)
    /\ \A r : r # p => (r \in Places(q, frs, id) <=> r \in Places(object, frames, id))

\* The counts say so.
CountedOver(objects, q, old, v) ==
  \A id \in DOMAIN objects :
    q[id].reference = objects[id].reference + (IF old = Reference(id) THEN -1 ELSE 0)
                                            + (IF v = Reference(id) THEN 1 ELSE 0)

SlotsAlike(objects, q) == \A id \in DOMAIN objects : q[id].slots = objects[id].slots

AllGood(ops, q) == \A k \in 1..Len(ops) : Good(ops[k], q)

\* The local i of the current frame is v.
LocalIs(frs, i, v) ==
  /\ DOMAIN frs = DOMAIN frames
  /\ \A d \in DOMAIN frames :
       /\ frs[d].static = frames[d].static
       /\ \A j \in 0..(Locals - 1) : frs[d].locals[j] =
            IF d = Len(frames) /\ j = i THEN v ELSE frames[d].locals[j]

\* One place has another value, and the counts say so.
LEMMA StoreIsCounted ==
  ASSUME StateOK, vm = "running", NEW p, NEW old, NEW v, NEW q, NEW frs,
         DOMAIN q = DOMAIN object, CountedOver(object, q, old, v), Replaced(p, old, v, q, frs)
  PROVE  NoneLost(q, frs)
<1>1. ASSUME NEW id \in DOMAIN object
      PROVE  Worth(q, frs, id) >= Worth(object, frames, id)
  <2> DEFINE S == Places(object, frames, id)
             T == Places(q, frs, id)
             a == old = Reference(id)
             b == v = Reference(id)
             n == object[id].reference
             m == q[id].reference
  <2>1. IsFiniteSet(S) /\ n \in Int
    BY HeapFacts, TopFacts, FinitePlaces, ObjectFacts
  <2>2. m = n + (IF a THEN -1 ELSE 0) + (IF b THEN 1 ELSE 0)
    BY DEF CountedOver
  <2>3. (p \in S <=> a) /\ (p \in T <=> b) /\ \A r : r # p => (r \in T <=> r \in S)
    BY DEF Replaced
  <2>4. a \in BOOLEAN /\ b \in BOOLEAN
    OBVIOUS
  <2>5. Worth(q, frs, id) = m - Cardinality(T) /\ Worth(object, frames, id) = n - Cardinality(S)
    BY DEF Worth
  <2> HIDE DEF S, T, a, b, n, m
  <2>6. /\ Cardinality(S) \in Nat /\ Cardinality(T) \in Nat
        /\ Cardinality(T) = Cardinality(S) - (IF a THEN 1 ELSE 0) + (IF b THEN 1 ELSE 0)
    BY <2>1, <2>3, <2>4, PlaceReplaced
  <2>7. m - Cardinality(T) = n - Cardinality(S)
    BY <2>1, <2>2, <2>6
  <2> QED
    BY <2>1, <2>5, <2>6, <2>7
<1> QED
  BY <1>1 DEF NoneLost

LEMMA CountedTwice ==
  ASSUME NEW objects \in Seq(Object), NEW old \in Value, NEW v \in Value,
         old.type = "L" => old.ref \in DOMAIN objects,
         v.type = "L" => v.ref \in DOMAIN objects
  PROVE  LET q == Counted(Counted(objects, old, -1), v, 1)
         IN  /\ q \in Seq(Object) /\ Len(q) = Len(objects) /\ DOMAIN q = DOMAIN objects
             /\ \A id \in DOMAIN objects :
                  /\ q[id].class = objects[id].class /\ q[id].slots = objects[id].slots
                  /\ q[id].reference = objects[id].reference
                                         + (IF old = Reference(id) THEN -1 ELSE 0)
                                         + (IF v = Reference(id) THEN 1 ELSE 0)
<1> DEFINE r == Counted(objects, old, -1)
           q == Counted(r, v, 1)
<1>1. /\ r \in Seq(Object) /\ Len(r) = Len(objects) /\ DOMAIN r = DOMAIN objects
      /\ \A id \in DOMAIN objects :
           /\ r[id].class = objects[id].class /\ r[id].slots = objects[id].slots
           /\ r[id].reference = objects[id].reference + (IF old = Reference(id) THEN -1 ELSE 0)
  <2>1. -1 \in Int
    OBVIOUS
  <2> QED
    BY <2>1, CountedFacts
<1> HIDE DEF r
<1>2. /\ q \in Seq(Object) /\ Len(q) = Len(r) /\ DOMAIN q = DOMAIN r
      /\ \A id \in DOMAIN r :
           /\ q[id].class = r[id].class /\ q[id].slots = r[id].slots
           /\ q[id].reference = r[id].reference + (IF v = Reference(id) THEN 1 ELSE 0)
  <2>1. 1 \in Int
    OBVIOUS
  <2> QED
    BY <1>1, <2>1, CountedFacts
<1> QED
  BY <1>1, <1>2 DEF r

\* Objects that lose or gain counts stay what they are.
LEMMA CountsKeepHeap ==
  ASSUME NEW objects, HeapOK(objects), NEW q \in Seq(Object), Len(q) = Len(objects),
         \A id \in DOMAIN objects :
           /\ q[id].class = objects[id].class /\ q[id].slots = objects[id].slots
           /\ objects[id].class \notin Class => q[id].reference = objects[id].reference
  PROVE  HeapOK(q) /\ Grown(objects, q)
<1>1. /\ objects \in Seq(Object) /\ Len(objects) \in Nat /\ DOMAIN objects = DOMAIN q
      /\ \A id \in DOMAIN objects : /\ objects[id] \in Object /\ ObjectOK(objects[id], objects)
                                    /\ q[id] \in Object
  BY SeqFacts DEF HeapOK
<1>2. Grown(objects, q)
  BY <1>1 DEF Grown
<1>3. \A w : Good(w, objects) => Good(w, q)
  BY <1>1, <1>2, GrownKeepsGood
<1>4. ASSUME NEW id \in DOMAIN q
      PROVE  ObjectOK(q[id], q)
  <2> DEFINE o == objects[id]
             n == q[id]
  <2>1. /\ n.class = o.class /\ n.slots = o.slots
        /\ o.class \notin Class => n.reference = o.reference
        /\ o \in Object /\ n \in Object /\ ObjectOK(o, objects)
    BY <1>1
  <2> HIDE DEF o, n
  <2>2. n.class = None => n = Destroyed
    <3>1. SUFFICES ASSUME o.class = None PROVE n = Destroyed
      BY <2>1
    <3>2. o = Destroyed /\ o.class \notin Class
      BY <2>1, <3>1, HeapAssumption DEF ObjectOK
    <3>3. n.class = o.class /\ n.slots = o.slots /\ n.reference = o.reference
      BY <2>1, <3>2
    <3>4. n = [class |-> n.class, slots |-> n.slots, reference |-> n.reference]
      BY <2>1, ObjectFacts
    <3>5. o = [class |-> o.class, slots |-> o.slots, reference |-> o.reference]
      BY <2>1, ObjectFacts
    <3> QED
      BY <3>2, <3>3, <3>4, <3>5
  <2>3. Laid(o) => Laid(n)
    BY <2>1 DEF Laid
  <2>4. Array \notin Class
    BY HeapAssumption
  <2>5. ObjectOK(n, q)
    BY <1>3, <2>1, <2>2, <2>3, <2>4 DEF ObjectOK
  <2> QED
    BY <2>5 DEF n
<1> QED
  BY <1>2, <1>4 DEF HeapOK

\* An object a reference leads to, if it was not destroyed, has a class of the program.
LEMMA LedTo ==
  ASSUME StateOK, vm = "running", NEW v, Good(v, object), v.type = "L", ~Dangling(v)
  PROVE  v.ref \in DOMAIN object /\ object[v.ref].class \in Class /\ v \in Value
<1>1. v.ref \in DOMAIN object /\ object[v.ref].class # Array /\ object[v.ref] # Destroyed
      /\ v \in Value
  BY DEF Good, Dangling, Live
<1>2. object[v.ref] \in Object /\ ObjectOK(object[v.ref], object)
  BY <1>1, HeapFacts
<1> QED
  BY <1>1, <1>2, ObjectFacts DEF ObjectOK

\* Counts are taken from what was there and given to what comes.
LEMMA CountedHeap ==
  ASSUME StateOK, vm = "running", NEW objects, HeapOK(objects), Grown(object, objects),
         Len(objects) = Len(object),
         NEW old, Good(old, object), ~Dangling(old), NEW v, Good(v, object), ~Dangling(v)
  PROVE  LET q == Counted(Counted(objects, old, -1), v, 1)
         IN  /\ HeapOK(q) /\ Grown(object, q) /\ Len(q) = Len(object)
             /\ SlotsAlike(objects, q) /\ CountedOver(objects, q, old, v)
<1> DEFINE q == Counted(Counted(objects, old, -1), v, 1)
<1>1. /\ objects \in Seq(Object) /\ DOMAIN objects = DOMAIN object
      /\ \A id \in DOMAIN object : objects[id].class = object[id].class
      /\ \A id \in DOMAIN object : objects[id].reference \in Int /\ id \in Nat
  <2>1. objects \in Seq(Object)
    BY DEF HeapOK
  <2>2. DOMAIN objects = DOMAIN object
    BY <2>1, HeapFacts, SeqFacts
  <2>3. \A id \in DOMAIN objects : objects[id] \in Object
    BY <2>1, SeqFacts
  <2> QED
    BY <2>1, <2>2, <2>3, HeapFacts, ObjectFacts DEF Grown
<1>2. old \in Value /\ v \in Value
  BY DEF Good
<1>3. (old.type = "L" => old.ref \in DOMAIN objects) /\ (v.type = "L" => v.ref \in DOMAIN objects)
  BY <1>1 DEF Good
<1>4. /\ q \in Seq(Object) /\ Len(q) = Len(objects)
      /\ \A id \in DOMAIN objects :
           /\ q[id].class = objects[id].class /\ q[id].slots = objects[id].slots
           /\ q[id].reference = objects[id].reference
                                  + (IF old = Reference(id) THEN -1 ELSE 0)
                                  + (IF v = Reference(id) THEN 1 ELSE 0)
  <2>1. objects \in Seq(Object)
    BY <1>1
  <2> QED
    BY <1>2, <1>3, <2>1, CountedTwice, SMTT(30)
<1> HIDE DEF q
<1>5. \A id \in DOMAIN object :
        object[id].class \notin Class => old # Reference(id) /\ v # Reference(id)
  <2> SUFFICES ASSUME NEW id \in DOMAIN object, object[id].class \notin Class
               PROVE  old # Reference(id) /\ v # Reference(id)
    OBVIOUS
  <2>1. id \in Nat
    BY <1>1
  <2> QED
    BY <1>2, <2>1, LedTo, ValueFacts
<1>6. \A id \in DOMAIN objects :
        objects[id].class \notin Class => q[id].reference = objects[id].reference
  BY <1>1, <1>4, <1>5
<1>7. HeapOK(q) /\ Grown(objects, q)
  BY <1>4, <1>6, CountsKeepHeap
<1>8. Grown(object, q)
  BY <1>1, <1>4, <1>7, HeapFacts DEF Grown
<1>9. SlotsAlike(objects, q) /\ CountedOver(objects, q, old, v)
  BY <1>4 DEF SlotsAlike, CountedOver
<1> QED
  BY <1>4, <1>7, <1>8, <1>9 DEF q

\* A local of the current frame changes, and the operands are n less.
LEMMA LocalSet ==
  ASSUME StateOK, vm = "running", NEW q, Grown(object, q), DOMAIN q = DOMAIN object,
         NEW i \in 0..(Locals - 1), NEW v, Good(v, q),
         NEW ops \in Seq(Value), AllGood(ops, q),
         SetCurrent([Current EXCEPT !.locals[i] = v, !.operands = ops])
  PROVE  ThreadOn(frames', q) /\ LocalIs(frames', i, v)
<1> DEFINE ls == [Current.locals EXCEPT ![i] = v]
           f == [class |-> Current.class, static |-> Current.static,
                 locals |-> ls, operands |-> ops]
<1>1. Current \in Frame /\ FrameOK(Current, object) /\ Current = frames[Len(frames)]
      /\ Len(frames) \in DOMAIN frames
  BY TopFacts
<1>2. Current = [class |-> Current.class, static |-> Current.static,
                 locals |-> Current.locals, operands |-> Current.operands]
      /\ Current.class \in Class /\ Current.static \in BOOLEAN
      /\ Current.locals \in [0..(Locals - 1) -> Value]
  BY <1>1, FrameFacts
<1>3. v \in Value
  BY DEF Good
<1>4. /\ ls \in [0..(Locals - 1) -> Value]
      /\ \A j \in 0..(Locals - 1) : ls[j] = IF j = i THEN v ELSE Current.locals[j]
  BY <1>2, <1>3
<1> HIDE DEF ls
<1>5. [Current EXCEPT !.locals = ls, !.operands = ops] = f
  <2> DEFINE g == [class |-> Current.class, static |-> Current.static,
                   locals |-> ls, operands |-> Current.operands]
  <2>1. [Current EXCEPT !.locals = ls] = g
    BY <1>1 DEF Frame
  <2>2. [g EXCEPT !.operands = ops] = f
    OBVIOUS
  <2>3. [[Current EXCEPT !.locals = ls] EXCEPT !.operands = ops] = f
    BY <2>1, <2>2
  <2>4. [Current EXCEPT !.locals = ls, !.operands = ops]
          = [[Current EXCEPT !.locals = ls] EXCEPT !.operands = ops]
    BY <1>1
  <2> QED
    BY <2>3, <2>4
<1>6. [Current EXCEPT !.locals[i] = v, !.operands = ops] = f
  BY <1>5 DEF ls
<1>7. f \in Frame /\ f.locals = ls /\ f.operands = ops /\ f.static = Current.static
  BY <1>2, <1>4 DEF Frame
<1> HIDE DEF f
<1>8. FrameOK(f, q)
  <2>1. FrameOK(Current, q)
    BY <1>1, HeapFacts, GrownKeepsFrames
  <2>2. DOMAIN ops = 1..Len(ops)
    BY SeqFacts
  <2> QED
    BY <1>4, <1>7, <2>1, <2>2 DEF FrameOK, AllGood
<1>9. SetCurrent(f)
  BY <1>6
<1>10. /\ ThreadOn(frames', q) /\ DOMAIN frames' = DOMAIN frames
       /\ \A d \in DOMAIN frames : frames'[d] = IF d = Len(frames) THEN f ELSE frames[d]
  BY <1>7, <1>8, <1>9, CurrentSet
<1>11. LocalIs(frames', i, v)
  BY <1>1, <1>4, <1>7, <1>10 DEF LocalIs
<1> QED
  BY <1>10, <1>11

\* Where the current frame keeps what its local i holds.
LEMMA LocalPlace ==
  ASSUME StateOK, vm = "running", NEW i \in 0..(Locals - 1), Assignable(i),
         NEW v, NEW q, NEW frs, DOMAIN q = DOMAIN object, SlotsAlike(object, q),
         LocalIs(frs, i, v)
  PROVE  Replaced(<<"local", Len(frames), i>>, Current.locals[i], v, q, frs)
<1> DEFINE p == <<"local", Len(frames), i>>
<1> SUFFICES ASSUME NEW id \in DOMAIN object
             PROVE  /\ p \in Places(object, frames, id) <=> Current.locals[i] = Reference(id)
                    /\ p \in Places(q, frs, id) <=> v = Reference(id)
                    /\ \A r : r # p =>
                         (r \in Places(q, frs, id) <=> r \in Places(object, frames, id))
  BY DEF Replaced
<1>0. /\ DOMAIN frs = DOMAIN frames
      /\ \A d \in DOMAIN frames :
           /\ frs[d].static = frames[d].static
           /\ \A j \in 0..(Locals - 1) : frs[d].locals[j] =
                IF d = Len(frames) /\ j = i THEN v ELSE frames[d].locals[j]
      /\ \A x \in DOMAIN object : q[x].slots = object[x].slots
  BY DEF LocalIs, SlotsAlike
<1>1. Current = frames[Len(frames)] /\ Len(frames) \in DOMAIN frames
  BY TopFacts
<1>2. i # 0 \/ frames[Len(frames)].static
  BY <1>1 DEF Assignable
<1>3. \A objects : p \notin FieldsOf(objects, id)
  BY InFieldsOf
<1>4. \A r : r \in FieldsOf(q, id) <=> r \in FieldsOf(object, id)
  BY <1>0, InFieldsOf
<1>5. p \in LocalsOf(frames, id) <=> Current.locals[i] = Reference(id)
  BY <1>1, <1>2, InLocalsOf
<1>6. p \in LocalsOf(frs, id) <=> v = Reference(id)
  BY <1>0, <1>1, <1>2, InLocalsOf, SMTT(20)
<1>7. ASSUME NEW r, r # p
      PROVE  r \in LocalsOf(frs, id) <=> r \in LocalsOf(frames, id)
  <2>1. \A d \in DOMAIN frames, j \in 0..(Locals - 1) :
          r = <<"local", d, j>> => frs[d].locals[j] = frames[d].locals[j]
    <3> SUFFICES ASSUME NEW d \in DOMAIN frames, NEW j \in 0..(Locals - 1),
                        r = <<"local", d, j>>
                 PROVE  frs[d].locals[j] = frames[d].locals[j]
      OBVIOUS
    <3>1. ~(d = Len(frames) /\ j = i)
      BY <1>7
    <3> QED
      BY <1>0, <3>1
  <2> QED
    BY <1>0, <2>1, InLocalsOf
<1> HIDE DEF p
<1> QED
  BY <1>3, <1>4, <1>5, <1>6, <1>7 DEF Places, p

LEMMA LocalStores ==
  ASSUME StateOK, vm = "running", NEW i \in 0..(Locals - 1), AStore(i) \/ IStore(i)
  PROVE  SoundStep
<1>0. /\ HeapOK(object) /\ Grown(object, object) /\ DOMAIN object = 1..Len(object)
      /\ Good(Current.locals[i], object) /\ object \in Seq(Object)
      /\ \A id \in DOMAIN object : object[id].reference \in Int
  BY HeapFacts, TopFacts, ObjectFacts DEF FrameOK
<1>1. ASSUME AStore(i)
      PROVE  SoundStep
  <2> DEFINE q == Counted(Counted(object, Current.locals[i], -1), Top, 1)
             ops == Dropped(1)
  <2>1. /\ Assignable(i) /\ Current.operands # <<>> /\ object' = q
        /\ ~Dangling(Current.locals[i]) /\ ~Dangling(Top)
        /\ SetCurrent([Current EXCEPT !.locals[i] = Top, !.operands = ops])
        /\ UNCHANGED <<pool, vm>>
    BY <1>1 DEF AStore
  <2>2. Good(Top, object)
    BY <2>1, TopFacts
  <2>3. /\ HeapOK(q) /\ Grown(object, q) /\ Len(q) = Len(object)
        /\ SlotsAlike(object, q) /\ CountedOver(object, q, Current.locals[i], Top)
    BY <1>0, <2>1, <2>2, CountedHeap
  <2> HIDE DEF q
  <2>4. DOMAIN q = DOMAIN object
    BY <1>0, <2>3, SeqFacts DEF Grown
  <2>5. ops \in Seq(Value) /\ AllGood(ops, q)
    <3>1. 1 \in Nat /\ 1 <= Len(Current.operands)
      BY <2>1, TopFacts
    <3>2. Dropped(1) \in Seq(Value) /\ \A k \in 1..Len(Dropped(1)) : Good(Dropped(1)[k], object)
      BY <3>1, DroppedFacts
    <3> QED
      BY <1>0, <2>3, <3>2, GrownKeepsGood DEF AllGood
  <2>6. Good(Top, q)
    BY <1>0, <2>2, <2>3, GrownKeepsGood
  <2> HIDE DEF ops
  <2>7. ThreadOn(frames', q) /\ LocalIs(frames', i, Top)
    BY <2>1, <2>3, <2>4, <2>5, <2>6, LocalSet
  <2> DEFINE p == <<"local", Len(frames), i>>
  <2>8. Replaced(p, Current.locals[i], Top, q, frames')
    BY <2>1, <2>3, <2>4, <2>7, LocalPlace
  <2> HIDE DEF p
  <2>9. NoneLost(q, frames')
    BY <2>3, <2>4, <2>8, StoreIsCounted
  <2> QED
    BY <2>1, <2>3, <2>7, <2>9 DEF SoundStep, Kept
<1>2. ASSUME IStore(i)
      PROVE  SoundStep
  <2>1. /\ Assignable(i) /\ SetCurrent([Current EXCEPT !.locals[i] = AnInt])
        /\ UNCHANGED <<pool, object, vm>>
    BY <1>2 DEF IStore
  <2>2. Current \in Frame
    BY TopFacts
  <2>3. [Current EXCEPT !.locals[i] = AnInt]
          = [Current EXCEPT !.locals[i] = AnInt, !.operands = Current.operands]
    <3> DEFINE ls == [Current.locals EXCEPT ![i] = AnInt]
    <3>1. [Current EXCEPT !.locals = ls] = [Current EXCEPT !.locals = ls, !.operands = Current.operands]
      BY <2>2 DEF Frame
    <3> QED
      BY <3>1
  <2>4. SetCurrent([Current EXCEPT !.locals[i] = AnInt, !.operands = Current.operands])
    BY <2>1, <2>3
  <2>5. /\ Current.operands \in Seq(Value)
        /\ AllGood(Current.operands, object)
    BY TopFacts DEF AllGood
  <2>6. Good(AnInt, object) /\ \A id \in DOMAIN object : AnInt # Reference(id)
    <3>1. \A id \in DOMAIN object : id \in Nat
      BY <1>0
    <3> QED
      BY <3>1, ValueFacts DEF Good
  <2>7. ThreadOn(frames', object) /\ LocalIs(frames', i, AnInt)
    BY <1>0, <2>4, <2>5, <2>6, LocalSet
  <2>8. \A id : LocalsOf(frames', id) \subseteq LocalsOf(frames, id)
    <3> SUFFICES ASSUME NEW id, NEW p \in LocalsOf(frames', id) PROVE p \in LocalsOf(frames, id)
      OBVIOUS
    <3>1. PICK d \in DOMAIN frames', j \in 0..(Locals - 1) :
            /\ p = <<"local", d, j>>
            /\ j # 0 \/ frames'[d].static
            /\ frames'[d].locals[j] = Reference(id)
      BY InLocalsOf
    <3>2. AnInt # Reference(id)
      BY DEF AnInt, Reference
    <3>3. frames[d].locals[j] = Reference(id) /\ (j # 0 \/ frames[d].static)
      BY <2>7, <3>1, <3>2 DEF LocalIs
    <3> QED
      BY <2>7, <3>1, <3>3, InLocalsOf DEF LocalIs
  <2>9. NoneLost(object, frames')
    <3>1. frames' \in Seq(Frame)
      BY <2>7 DEF ThreadOn
    <3> QED
      BY <2>8, <3>1, NothingLostByFewerLocals
  <2> QED
    BY <1>0, <2>1, <2>7, <2>9 DEF SoundStep, Kept
<1> QED
  BY <1>1, <1>2

\* The slot k of the object t is v.
SlotIs(q, t, k, v) ==
  \A x \in DOMAIN object :
    /\ DOMAIN q[x].slots = DOMAIN object[x].slots
    /\ \A j \in DOMAIN object[x].slots : q[x].slots[j].value =
         IF x = t /\ j = k THEN v ELSE object[x].slots[j].value

LEMMA SlotSet ==
  ASSUME StateOK, vm = "running", NEW t \in DOMAIN object, object[t].class \in Class,
         NEW k \in DOMAIN object[t].slots, NEW v, Good(v, object)
  PROVE  LET q == [object EXCEPT ![t].slots[k].value = v]
         IN  /\ HeapOK(q) /\ Grown(object, q) /\ Len(q) = Len(object)
             /\ \A x \in DOMAIN object : q[x].reference = object[x].reference
             /\ SlotIs(q, t, k, v)
<1> DEFINE o == object[t]
           slot == [index |-> o.slots[k].index, value |-> v]
           slots == [o.slots EXCEPT ![k] = slot]
           n == [class |-> o.class, slots |-> slots, reference |-> o.reference]
           q == [object EXCEPT ![t].slots[k].value = v]
<1>1. /\ object \in Seq(Object) /\ Len(object) \in Nat /\ DOMAIN object = 1..Len(object)
      /\ HeapOK(object)
      /\ \A x \in DOMAIN object : object[x] \in Object /\ ObjectOK(object[x], object)
  BY HeapFacts
<1>2. /\ o \in Object /\ o.slots \in Seq(Slot) /\ o.class \in Class /\ o.reference \in Int
      /\ ObjectOK(o, object) /\ t \in 1..Len(object)
  BY <1>1, ObjectFacts
<1>3. /\ DOMAIN o.slots = 1..Len(o.slots) /\ k \in 1..Len(o.slots) /\ o.slots[k] \in Slot
  BY <1>2, SeqFacts
<1>4. slot \in Slot /\ slot.index = o.slots[k].index /\ slot.value = v
  BY <1>3 DEF Slot, Good
<1>5. [o.slots[k] EXCEPT !.value = v] = slot
  BY <1>3 DEF Slot
<1> DEFINE s == o.slots
<1>6. [s EXCEPT ![k].value = v] = slots
  BY <1>3, <1>5
<1>7. [o EXCEPT !.slots = slots] = n
  BY <1>2, ObjectUpdates
<1> HIDE DEF slot
<1>8. /\ slots \in Seq(Slot) /\ Len(slots) = Len(s)
      /\ \A j \in 1..Len(s) : slots[j] = IF j = k THEN slot ELSE s[j]
  BY <1>2, <1>3, <1>4, UpdateFacts
<1>9. DOMAIN slots = DOMAIN s
  BY <1>3, <1>8, SeqFacts
<1>10. q = [object EXCEPT ![t] = n]
  <2>1. q = [object EXCEPT ![t] = [o EXCEPT !.slots = [s EXCEPT ![k].value = v]]]
    OBVIOUS
  <2>2. [o EXCEPT !.slots = [s EXCEPT ![k].value = v]] = n
    BY <1>6, <1>7
  <2> HIDE DEF n, q
  <2> QED
    BY <2>1, <2>2
<1> HIDE DEF slots
<1>11. n \in Object /\ n.class = o.class /\ n.slots = slots /\ n.reference = o.reference
  BY <1>2, <1>8 DEF Object
<1> HIDE DEF n, q
<1>12. /\ q \in Seq(Object) /\ Len(q) = Len(object)
       /\ \A x \in 1..Len(object) : q[x] = IF x = t THEN n ELSE object[x]
  BY <1>1, <1>2, <1>10, <1>11, UpdateFacts
<1>13. Grown(object, q)
  BY <1>1, <1>11, <1>12 DEF Grown
<1>14. \A w : Good(w, object) => Good(w, q)
  BY <1>1, <1>13, GrownKeepsGood
<1>15. Array \notin Class /\ None \notin Class
  BY HeapAssumption
<1>16. ObjectOK(n, q)
  <2>1. Laid(n)
    <3>1. Laid(o)
      BY <1>2 DEF ObjectOK
    <3>2. \A j \in DOMAIN s : slots[j].index = s[j].index
      BY <1>3, <1>4, <1>8
    <3> QED
      BY <1>9, <1>11, <3>1, <3>2 DEF Laid
  <2>2. \A j \in DOMAIN slots : Good(slots[j].value, q)
    <3>1. \A j \in DOMAIN s : Good(s[j].value, object)
      BY <1>2, <1>15 DEF ObjectOK
    <3> QED
      BY <1>3, <1>4, <1>8, <1>9, <1>14, <3>1
  <2> QED
    BY <1>2, <1>11, <1>15, <2>1, <2>2 DEF ObjectOK
<1>17. ASSUME NEW x \in DOMAIN object, x # t
       PROVE  ObjectOK(q[x], q)
  <2>1. ObjectOK(object[x], object) /\ q[x] = object[x]
    BY <1>1, <1>12, <1>17
  <2>2. ObjectOK(object[x], q)
    BY <1>14, <2>1 DEF ObjectOK
  <2> QED
    BY <2>1, <2>2
<1>18. HeapOK(q)
  <2>1. DOMAIN q = DOMAIN object
    BY <1>1, <1>12, SeqFacts
  <2>2. ObjectOK(q[t], q)
    BY <1>2, <1>12, <1>16
  <2> QED
    BY <1>12, <1>17, <2>1, <2>2 DEF HeapOK
<1>19. \A x \in DOMAIN object : q[x].reference = object[x].reference
  BY <1>1, <1>11, <1>12
<1>20. SlotIs(q, t, k, v)
  <2>1. ASSUME NEW x \in DOMAIN object, x # t
        PROVE  q[x].slots = object[x].slots
    BY <1>1, <1>12, <2>1
  <2>2. q[t].slots = slots
    BY <1>2, <1>11, <1>12
  <2>3. \A j \in DOMAIN s : slots[j].value = IF j = k THEN v ELSE s[j].value
    BY <1>3, <1>4, <1>8
  <2> QED
    BY <1>9, <2>1, <2>2, <2>3 DEF SlotIs
<1> QED
  BY <1>12, <1>13, <1>18, <1>19, <1>20 DEF q

LEMMA FieldPlace ==
  ASSUME StateOK, vm = "running", NEW t \in DOMAIN object, NEW k \in DOMAIN object[t].slots,
         NEW v, NEW q, NEW frs, DOMAIN q = DOMAIN object, SlotIs(q, t, k, v),
         \A id : LocalsOf(frs, id) = LocalsOf(frames, id)
  PROVE  Replaced(<<"field", t, k>>, object[t].slots[k].value, v, q, frs)
<1> DEFINE p == <<"field", t, k>>
<1> SUFFICES ASSUME NEW id \in DOMAIN object
             PROVE  /\ p \in Places(object, frames, id) <=> object[t].slots[k].value = Reference(id)
                    /\ p \in Places(q, frs, id) <=> v = Reference(id)
                    /\ \A r : r # p =>
                         (r \in Places(q, frs, id) <=> r \in Places(object, frames, id))
  BY DEF Replaced
<1>0. /\ \A x \in DOMAIN object :
           /\ DOMAIN q[x].slots = DOMAIN object[x].slots
           /\ \A j \in DOMAIN object[x].slots : q[x].slots[j].value =
                IF x = t /\ j = k THEN v ELSE object[x].slots[j].value
  BY DEF SlotIs
<1>1. p \notin LocalsOf(frames, id) /\ LocalsOf(frs, id) = LocalsOf(frames, id)
  BY InLocalsOf
<1>2. p \in FieldsOf(object, id) <=> object[t].slots[k].value = Reference(id)
  BY InFieldsOf
<1>3. p \in FieldsOf(q, id) <=> v = Reference(id)
  BY <1>0, InFieldsOf
<1>4. ASSUME NEW r, r # p
      PROVE  r \in FieldsOf(q, id) <=> r \in FieldsOf(object, id)
  <2>1. ASSUME NEW x \in DOMAIN object, NEW j \in DOMAIN object[x].slots, r = <<"field", x, j>>
        PROVE  q[x].slots[j].value = object[x].slots[j].value
    <3>1. ~(x = t /\ j = k)
      BY <1>4, <2>1
    <3> QED
      BY <1>0, <3>1
  <2> QED
    BY <1>0, <2>1, InFieldsOf
<1> HIDE DEF p
<1> QED
  BY <1>1, <1>2, <1>3, <1>4 DEF Places, p

LEMMA FieldStores ==
  ASSUME StateOK, vm = "running", NEW index, PutField(index)
  PROVE  SoundStep
<1> DEFINE target == Current.operands[Len(Current.operands) - 1]
           t == target.ref
           k == FirstSlot(t, index)
           old == object[t].slots[k].value
           ops == Dropped(2)
<1>1. /\ Len(Current.operands) >= 2
      /\ target.type = "L" /\ Live(t) /\ ~Dangling(Top)
      /\ MatchingSlots(t, index) = {} => object' = object
      /\ MatchingSlots(t, index) # {} =>
           /\ ~Dangling(old)
           /\ object' = Counted(Counted([object EXCEPT ![t].slots[k].value = Top], old, -1), Top, 1)
      /\ SetCurrent([Current EXCEPT !.operands = ops])
      /\ UNCHANGED <<pool, vm>>
  BY DEF PutField
<1>2. /\ Current.operands # <<>> /\ Len(Current.operands) - 1 \in 1..Len(Current.operands)
      /\ 2 \in Nat /\ 2 <= Len(Current.operands)
  <2>1. Current.operands \in Seq(Value) /\ Len(Current.operands) \in Nat
    BY TopFacts
  <2>2. Len(Current.operands) >= 2
    BY <1>1
  <2> HIDE DEF target
  <2> QED
    BY <2>1, <2>2
<1>3. Good(Top, object) /\ Good(target, object)
  BY <1>2, TopFacts
<1>4. ops \in Seq(Value) /\ AllGood(ops, object)
  BY <1>2, DroppedFacts DEF AllGood
<1>5. /\ HeapOK(object) /\ Grown(object, object) /\ object \in Seq(Object)
      /\ DOMAIN object = 1..Len(object)
      /\ \A id \in DOMAIN object : ObjectOK(object[id], object)
  BY HeapFacts
<1>6. t \in DOMAIN object /\ object[t].class \in Class
  <2>1. ~Dangling(target)
    BY <1>1 DEF Dangling
  <2> HIDE DEF target
  <2> QED
    BY <1>1, <1>3, <2>1, LedTo
<1> HIDE DEF ops, target
<1>7. CASE MatchingSlots(t, index) = {}
  <2>1. \A j \in 1..Len(ops) : Good(ops[j], object)
    BY <1>4 DEF AllGood
  <2>2. UNCHANGED <<pool, object, vm>>
    BY <1>1, <1>7
  <2> QED
    BY <1>1, <1>4, <2>1, <2>2, OperandsStep
<1>8. CASE MatchingSlots(t, index) # {}
  <2> DEFINE o1 == [object EXCEPT ![t].slots[k].value = Top]
             q == Counted(Counted(o1, old, -1), Top, 1)
  <2>1. k \in DOMAIN object[t].slots
    BY <1>6, <1>8, FirstSlotFacts DEF MatchingSlots
  <2>2. object' = q /\ ~Dangling(old)
    BY <1>1, <1>8
  <2>3. Good(old, object)
    <3>1. object[t].class # Array
      BY <1>6, HeapAssumption
    <3> QED
      BY <1>5, <1>6, <2>1, <3>1 DEF ObjectOK
  <2> HIDE DEF t, k
  <2>4. /\ HeapOK(o1) /\ Grown(object, o1) /\ Len(o1) = Len(object)
        /\ \A x \in DOMAIN object : o1[x].reference = object[x].reference
        /\ SlotIs(o1, t, k, Top)
    BY <1>3, <1>6, <2>1, SlotSet
  <2> HIDE DEF o1, old
  <2>5. /\ HeapOK(q) /\ Grown(object, q) /\ Len(q) = Len(object)
        /\ SlotsAlike(o1, q) /\ CountedOver(o1, q, old, Top)
    BY <1>1, <1>3, <2>2, <2>3, <2>4, CountedHeap
  <2> HIDE DEF q
  <2>6. DOMAIN o1 = DOMAIN object /\ DOMAIN q = DOMAIN object
    BY <1>5, <2>4, <2>5, SeqFacts DEF Grown
  <2>7. CountedOver(object, q, old, Top)
    BY <2>4, <2>5, <2>6 DEF CountedOver
  <2>8. SlotIs(q, t, k, Top)
    BY <2>4, <2>5, <2>6 DEF SlotIs, SlotsAlike
  <2>9. \A j \in 1..Len(ops) : Good(ops[j], q)
    BY <1>4, <1>5, <2>5, GrownKeepsGood DEF AllGood
  <2>10. ThreadOn(frames', q) /\ \A id : LocalsOf(frames', id) = LocalsOf(frames, id)
    BY <1>1, <1>4, <2>5, <2>9, OperandsSet
  <2>11. Replaced(<<"field", t, k>>, old, Top, q, frames')
    BY <1>6, <2>1, <2>6, <2>8, <2>10, FieldPlace DEF old
  <2>12. NoneLost(q, frames')
    BY <2>6, <2>7, <2>11, StoreIsCounted
  <2> QED
    BY <1>1, <2>2, <2>5, <2>10, <2>12 DEF SoundStep, Kept
<1> QED
  BY <1>7, <1>8

-----------------------------------------------------------------------------
(* Calls and returns *)

\* A method that takes no references besides its receiver costs no object anything.
LEMMA Enters ==
  ASSUME StateOK, vm = "running", NEW n \in 0..Arguments, Enter(n)
  PROVE  /\ Kept(object', frames') /\ UNCHANGED <<pool, object, vm>>
         /\ n = 0 => NoneLost(object', frames')
<1> DEFINE m == Len(Current.operands) - n
           passed == SubSeq(Current.operands, m, Len(Current.operands))
           ops == Dropped(n + 1)
           frs == [frames EXCEPT ![Len(frames)].operands = ops]
           locals == [i \in 0..(Locals - 1) |-> IF i \in 0..n THEN passed[i + 1] ELSE Null]
<1>1. /\ Len(Current.operands) > n /\ UNCHANGED <<pool, object, vm>>
      /\ Head(passed).type = "L" /\ Live(Head(passed).ref)
      /\ object[Head(passed).ref].class # Array
  BY DEF Enter
<1>2. PICK c \in ToSet(Lineage(object[Head(passed).ref].class)) \ {StringClass} :
        frames' = Append(frs, FrameOf(c, FALSE, locals))
  BY DEF Enter
<1>3. /\ n \in Nat /\ Len(Current.operands) \in Nat /\ m \in 1..Len(Current.operands)
      /\ n + 1 \in Nat /\ n + 1 <= Len(Current.operands)
      /\ Current.operands \in Seq(Value)
      /\ \A j \in 1..Len(Current.operands) : Good(Current.operands[j], object)
  <2>1. Arguments \in Nat
    BY HeapAssumption
  <2> QED
    BY <1>1, <2>1, TopFacts
<1>4. \A i \in 0..n : Good(passed[i + 1], object)
  <2> SUFFICES ASSUME NEW i \in 0..n PROVE Good(passed[i + 1], object)
    OBVIOUS
  <2>1. m + i \in 1..Len(Current.operands) /\ passed[i + 1] = Current.operands[m + i]
    BY <1>3
  <2> HIDE DEF passed, m
  <2> QED
    BY <1>3, <2>1
<1>5. Head(passed) = passed[0 + 1]
  BY <1>3
<1> HIDE DEF passed, m
<1>6. c \in Class
  <2> DEFINE r == Head(passed)
  <2>1. Good(r, object)
    <3>1. 0 \in 0..n
      BY <1>3
    <3> QED
      BY <1>4, <1>5, <3>1
  <2>2. ~Dangling(r)
    BY <1>1 DEF Dangling
  <2>3. r.type = "L"
    BY <1>1
  <2> HIDE DEF r
  <2>4. object[r.ref].class \in Class
    BY <2>1, <2>2, <2>3, LedTo
  <2>5. Lineage(object[r.ref].class) \in Seq(Class)
    BY <2>4, LineageFacts
  <2> QED
    BY <1>2, <2>5 DEF ToSet, r
<1>7. \A i \in 0..(Locals - 1) : Good(locals[i], object)
  BY <1>4, NullIsGood
<1>8. locals \in [0..(Locals - 1) -> Value]
  BY <1>7 DEF Good
<1> HIDE DEF locals
<1> DEFINE f == FrameOf(c, FALSE, locals)
<1>9. /\ f \in Frame /\ f.static = FALSE /\ f.locals = locals /\ f.operands = <<>>
  BY <1>6, <1>8 DEF Frame, FrameOf
<1> HIDE DEF f
<1>10. FrameOK(f, object)
  BY <1>7, <1>9 DEF FrameOK
<1>11. ops \in Seq(Value) /\ \A j \in 1..Len(ops) : Good(ops[j], object)
  BY <1>3, DroppedFacts
<1> HIDE DEF ops
<1> DEFINE g == [class |-> Current.class, static |-> Current.static,
                 locals |-> Current.locals, operands |-> ops]
<1>12. /\ frames \in Seq(Frame) /\ Len(frames) \in Nat /\ Len(frames) >= 1
       /\ DOMAIN frames = 1..Len(frames)
       /\ Current = frames[Len(frames)] /\ Current \in Frame /\ FrameOK(Current, object)
       /\ \A d \in DOMAIN frames : FrameOK(frames[d], object)
  BY TopFacts, HeapFacts DEF ThreadOn
<1>13. [Current EXCEPT !.operands = ops] = g
  <2>1. Current \in Frame
    BY <1>12
  <2> QED
    BY <2>1 DEF Frame
<1>14. g \in Frame /\ g.static = Current.static /\ g.locals = Current.locals /\ g.operands = ops
  BY <1>11, <1>12, FrameFacts DEF Frame
<1>15. frs = [frames EXCEPT ![Len(frames)] = g]
  BY <1>12, <1>13
<1> HIDE DEF g, frs
<1>16. FrameOK(g, object)
  <2>1. DOMAIN ops = 1..Len(ops)
    BY <1>11, SeqFacts
  <2> QED
    BY <1>11, <1>12, <1>14, <2>1 DEF FrameOK
<1>17. /\ frs \in Seq(Frame) /\ Len(frs) = Len(frames)
       /\ \A d \in 1..Len(frames) : frs[d] = IF d = Len(frames) THEN g ELSE frames[d]
  <2>1. Len(frames) \in 1..Len(frames)
    BY <1>12
  <2> QED
    BY <1>12, <1>14, <1>15, <2>1, UpdateFacts
<1>18. /\ frames' \in Seq(Frame) /\ Len(frames') = Len(frames) + 1
       /\ DOMAIN frames' = 1..(Len(frames) + 1)
       /\ frames'[Len(frames) + 1] = f
       /\ \A d \in 1..Len(frames) : frames'[d] = IF d = Len(frames) THEN g ELSE frames[d]
  <2>1. frames' = Append(frs, f) /\ f \in Frame /\ frs \in Seq(Frame)
    BY <1>2, <1>9, <1>17 DEF f
  <2>2. /\ frames' \in Seq(Frame) /\ Len(frames') = Len(frs) + 1
        /\ DOMAIN frames' = 1..(Len(frs) + 1) /\ frames'[Len(frs) + 1] = f
        /\ \A d \in 1..Len(frs) : frames'[d] = frs[d]
    BY <2>1, AppendFacts
  <2> QED
    BY <1>17, <2>2
<1>19. ThreadOn(frames', object)
  <2>1. \A d \in DOMAIN frames' : d \in 1..Len(frames) \/ d = Len(frames) + 1
    <3>1. Len(frames) \in Nat /\ DOMAIN frames' = 1..(Len(frames) + 1)
      BY <1>12, <1>18
    <3> QED
      BY <3>1
  <2>2. \A d \in 1..Len(frames) : FrameOK(frames'[d], object)
    BY <1>12, <1>16, <1>18
  <2>3. \A d \in DOMAIN frames' : FrameOK(frames'[d], object)
    BY <1>10, <1>18, <2>1, <2>2
  <2>4. frames' # <<>>
    <3>1. Len(frames) \in Nat /\ Len(frames') = Len(frames) + 1
      BY <1>12, <1>18
    <3> QED
      BY <3>1
  <2> QED
    BY <1>18, <2>3, <2>4 DEF ThreadOn
<1>20. Kept(object', frames')
  BY <1>1, <1>19, HeapFacts DEF Kept
<1>21. ASSUME n = 0
       PROVE  NoneLost(object', frames')
  <2>1. ASSUME NEW id, NEW p \in LocalsOf(frames', id)
        PROVE  p \in LocalsOf(frames, id)
    <3>1. PICK d \in DOMAIN frames', i \in 0..(Locals - 1) :
            /\ p = <<"local", d, i>>
            /\ i # 0 \/ frames'[d].static
            /\ frames'[d].locals[i] = Reference(id)
      BY <2>1, InLocalsOf
    <3>2. d # Len(frames) + 1
      <4>1. SUFFICES ASSUME d = Len(frames) + 1 PROVE FALSE
        OBVIOUS
      <4>2. frames'[d] = f
        BY <1>18, <4>1
      <4>3. i # 0 /\ locals[i] = Reference(id)
        BY <1>9, <3>1, <4>2
      <4>4. i \notin 0..n
        BY <1>21, <4>3
      <4>5. Null = Reference(id)
        BY <4>3, <4>4 DEF locals
      <4> QED
        BY <4>5 DEF Null, Reference
    <3>3. d \in 1..Len(frames)
      <4>1. Len(frames) \in Nat /\ d \in 1..(Len(frames) + 1)
        BY <1>12, <1>18
      <4> QED
        BY <3>2, <4>1
    <3>4. frames'[d].locals = frames[d].locals /\ frames'[d].static = frames[d].static
      BY <1>12, <1>14, <1>18, <3>3
    <3> QED
      BY <1>12, <3>1, <3>3, <3>4, InLocalsOf
  <2>2. \A id : LocalsOf(frames', id) \subseteq LocalsOf(frames, id)
    BY <2>1
  <2> QED
    BY <1>1, <1>18, <2>2, NothingLostByFewerLocals
<1> QED
  BY <1>1, <1>20, <1>21

LEMMA Leaves ==
  ASSUME StateOK, vm = "running", Leave
  PROVE  SoundStep
<1>1. /\ Len(frames) > 1 /\ frames' = SubSeq(frames, 1, Len(frames) - 1)
      /\ UNCHANGED <<pool, object, vm>>
  BY DEF Leave, Front
<1>2. /\ frames \in Seq(Frame) /\ Len(frames) \in Nat /\ DOMAIN frames = 1..Len(frames)
      /\ \A d \in DOMAIN frames : FrameOK(frames[d], object)
  BY TopFacts, HeapFacts DEF ThreadOn
<1> DEFINE m == Len(frames) - 1
<1>3. m \in 0..Len(frames) /\ m \in Nat /\ m >= 1
  BY <1>1, <1>2
<1> HIDE DEF m
<1>4. /\ frames' \in Seq(Frame) /\ Len(frames') = m
      /\ \A d \in 1..m : frames'[d] = frames[d]
  BY <1>1, <1>2, <1>3, SubSeqFacts DEF m
<1>5. DOMAIN frames' = 1..m
  BY <1>4, SeqFacts
<1>6. \A d \in DOMAIN frames' : d \in DOMAIN frames /\ frames'[d] = frames[d]
  BY <1>2, <1>3, <1>4, <1>5
<1>7. frames' # <<>>
  BY <1>3, <1>4
<1>8. ThreadOn(frames', object)
  BY <1>2, <1>4, <1>6, <1>7 DEF ThreadOn
<1>9. \A id : LocalsOf(frames', id) \subseteq LocalsOf(frames, id)
  <2> SUFFICES ASSUME NEW id, NEW p \in LocalsOf(frames', id) PROVE p \in LocalsOf(frames, id)
    OBVIOUS
  <2> QED
    BY <1>6, InLocalsOf
<1>10. NoneLost(object, frames')
  BY <1>4, <1>9, NothingLostByFewerLocals
<1> QED
  BY <1>1, <1>8, <1>10, HeapFacts DEF SoundStep, Kept

-----------------------------------------------------------------------------
(* What the running thread does to the heap *)

Finished == vm' \in {"aborted", "undefined"} /\ object' = <<>> /\ frames' = <<>>

LEMMA InstructionFacts ==
  ASSUME StateOK, Instruction
  PROVE  \/ /\ Kept(object', frames') /\ UNCHANGED <<pool, vm>>
            /\ Arguments = 0 => NoneLost(object', frames')
         \/ Finished
<1>1. vm = "running"
  BY DEF Instruction
<1>2. ASSUME SoundStep
      PROVE  /\ Kept(object', frames') /\ UNCHANGED <<pool, vm>>
             /\ Arguments = 0 => NoneLost(object', frames')
  BY <1>2 DEF SoundStep
<1>3. ASSUME NEW i \in 0..(Locals - 1), ALoad(i) \/ AStore(i) \/ IStore(i)
      PROVE  SoundStep
  <2>1. CASE ALoad(i)
    BY <1>1, <2>1, OperandMoves
  <2>2. CASE AStore(i) \/ IStore(i)
    BY <1>1, <2>2, LocalStores
  <2> QED
    BY <1>3, <2>1, <2>2
<1>4. ASSUME AconstNull \/ Dup \/ Pop \/ ArrayLength
      PROVE  SoundStep
  BY <1>1, <1>4, OperandMoves
<1>5. ASSUME NEW c \in Class \ {StringClass}, New(c)
      PROVE  SoundStep
  BY <1>1, <1>5, Creations
<1>6. ASSUME LdcString
      PROVE  SoundStep
  BY <1>1, <1>6, Creations
<1>7. ASSUME NEW type \in {"I", "L"}, NEW length \in ArrayLengths, NewArray(type, length)
      PROVE  SoundStep
  BY <1>1, <1>7, Creations
<1>8. ASSUME ElementAccess
      PROVE  Finished
  BY <1>8 DEF ElementAccess, Ends, Finished
<1>9. ASSUME NEW index \in Indices, GetField(index) \/ PutField(index)
      PROVE  SoundStep
  <2>1. CASE GetField(index)
    BY <1>1, <2>1, OperandMoves
  <2>2. CASE PutField(index)
    BY <1>1, <2>2, FieldStores
  <2> QED
    BY <1>9, <2>1, <2>2
<1>10. ASSUME BadAccess
       PROVE  Finished
  <2>1. \E value : Fault(value)
    BY <1>10 DEF BadAccess
  <2> QED
    BY <2>1 DEF Fault, Ends, Finished
<1>11. ASSUME NEW n \in 0..Arguments, Enter(n)
       PROVE  /\ Kept(object', frames') /\ UNCHANGED <<pool, vm>>
              /\ Arguments = 0 => NoneLost(object', frames')
  <2>1. /\ Kept(object', frames') /\ UNCHANGED <<pool, object, vm>>
        /\ n = 0 => NoneLost(object', frames')
    BY <1>1, <1>11, Enters
  <2>2. Arguments = 0 => n = 0
    OBVIOUS
  <2> QED
    BY <2>1, <2>2
<1>12. ASSUME Leave
       PROVE  SoundStep
  BY <1>1, <1>12, Leaves
<1>13. ASSUME StaleStore
       PROVE  Finished
  BY <1>13 DEF StaleStore, Ends, Finished
<1> QED
  BY <1>2, <1>3, <1>4, <1>5, <1>6, <1>7, <1>8, <1>9, <1>10, <1>11, <1>12, <1>13 DEF Instruction

LEMMA FinishedKeepsStateOK ==
  ASSUME Finished
  PROVE  StateOK'
BY DEF Finished, StateOK

-----------------------------------------------------------------------------
(* The walk from an object *)

LEMMA ReferencesFacts ==
  ASSUME NEW objects \in Seq(Object), NEW x \in DOMAIN objects, NEW y
  PROVE  /\ References(objects, x, y) \in Nat
         /\ References(objects, x, y) = 0 <=>
              \A k \in DOMAIN objects[x].slots : objects[x].slots[k].value # Reference(y)
<1> DEFINE s == objects[x].slots
           K == {k \in DOMAIN s : s[k].value = Reference(y)}
<1>1. s \in Seq(Slot)
  BY SeqFacts, ObjectFacts
<1>2. DOMAIN s = 1..Len(s) /\ Len(s) \in Nat
  BY <1>1, SeqFacts
<1>3. IsFiniteSet(DOMAIN s)
  <2>1. 1 \in Int /\ Len(s) \in Int
    BY <1>2
  <2> QED
    BY <1>2, <2>1, FS_Interval
<1>4. IsFiniteSet(K)
  <2>1. K \subseteq DOMAIN s
    OBVIOUS
  <2> QED
    BY <1>3, <2>1, FS_Subset
<1>5. Cardinality(K) \in Nat /\ (Cardinality(K) = 0 <=> K = {})
  BY <1>4, FS_CardinalityType, FS_EmptySet
<1>6. References(objects, x, y) = Cardinality(K)
  BY DEF References
<1>7. K = {} <=> \A k \in DOMAIN s : s[k].value # Reference(y)
  OBVIOUS
<1> QED
  BY <1>5, <1>6, <1>7

LEMMA TotalFacts ==
  ASSUME NEW f, IsFiniteSet(DOMAIN f), \A x \in DOMAIN f : f[x] \in Nat
  PROVE  Total(f) \in Nat /\ ((\A x \in DOMAIN f : f[x] = 0) => Total(f) = 0)
BY SumFacts DEF Total

LEMMA PathsFacts ==
  ASSUME NEW objects \in Seq(Object), NEW x \in DOMAIN objects
  PROVE  /\ \A d \in 0..Len(objects) : Paths(objects, x)[d] \in [DOMAIN objects -> Nat]
         /\ \A y \in DOMAIN objects : Paths(objects, x)[0][y] = References(objects, x, y)
         /\ \A d \in Nat, y \in DOMAIN objects :
              d + 1 <= Len(objects) =>
                Paths(objects, x)[d + 1][y] =
                  Total([z \in DOMAIN objects |->
                           Paths(objects, x)[d][z] * References(objects, z, y)])
<1> DEFINE Id == DOMAIN objects
           N == Len(objects)
           S == [Id -> Nat]
           first == [y \in Id |-> References(objects, x, y)]
           Step(g) == [y \in Id |-> Total([z \in Id |-> g[z] * References(objects, z, y)])]
           F == [p \in (1..N) \X S |-> Step(p[2])]
           paths == CHOOSE g : g = [d \in 0..N |->
                      [y \in Id |-> IF d = 0 THEN References(objects, x, y)
                        ELSE Total([z \in Id |-> g[d - 1][z] * References(objects, z, y)])]]
<1>1. N \in Nat /\ Id = 1..N
  BY SeqFacts
<1>2. IsFiniteSet(Id)
  <2>1. 1 \in Int /\ N \in Int
    BY <1>1
  <2> QED
    BY <1>1, <2>1, FS_Interval
<1>3. \A z, y \in Id : References(objects, z, y) \in Nat
  BY ReferencesFacts
<1>4. first \in S
  BY <1>3
<1>5. ASSUME NEW g \in S
      PROVE  Step(g) \in S
  <2>1. ASSUME NEW y \in Id
        PROVE  Total([z \in Id |-> g[z] * References(objects, z, y)]) \in Nat
    <3> DEFINE f == [z \in Id |-> g[z] * References(objects, z, y)]
    <3>1. DOMAIN f = Id
      OBVIOUS
    <3>2. \A z \in Id : f[z] \in Nat
      <4> SUFFICES ASSUME NEW z \in Id PROVE f[z] \in Nat
        OBVIOUS
      <4>1. g[z] \in Nat /\ References(objects, z, y) \in Nat
        BY <1>3
      <4>2. g[z] * References(objects, z, y) \in Nat
        BY <4>1
      <4> QED
        BY <4>2
    <3> HIDE DEF f
    <3>3. Total(f) \in Nat
      BY <1>2, <3>1, <3>2, TotalFacts
    <3> QED
      BY <3>3 DEF f
  <2> QED
    BY <2>1
<1>6. \A d \in 1..N, g \in S : F[<<d, g>>] = Step(g)
  OBVIOUS
<1> HIDE DEF Step
<1>7. Keeps(S, F, N)
  BY <1>5, <1>6 DEF Keeps
<1> HIDE DEF F, S, N, first
<1>8. PICK g : /\ DOMAIN g = 0..N /\ g[0] = first /\ g = [d \in 0..N |-> g[d]]
               /\ \A d \in 0..N : g[d] \in S
               /\ \A d \in 1..N : g[d] = F[<<d, g[d - 1]>>]
  BY <1>1, <1>4, <1>7, RecursionInSet
<1>9. \A d \in 1..N : g[d] = Step(g[d - 1])
  <2> SUFFICES ASSUME NEW d \in 1..N PROVE g[d] = Step(g[d - 1])
    OBVIOUS
  <2>1. d - 1 \in 0..N
    BY <1>1
  <2> QED
    BY <1>6, <1>8, <2>1
<1> DEFINE row(h, d) == [y \in Id |-> IF d = 0 THEN References(objects, x, y)
                          ELSE Total([z \in Id |-> h[d - 1][z] * References(objects, z, y)])]
<1>10. \A h : row(h, 0) = first
  BY DEF first
<1>11. \A h, d : d # 0 => row(h, d) = Step(h[d - 1])
  BY DEF Step
<1> HIDE DEF row
<1>12. \A d \in 0..N : g[d] = row(g, d)
  <2> SUFFICES ASSUME NEW d \in 0..N PROVE g[d] = row(g, d)
    OBVIOUS
  <2>1. d = 0 \/ (d # 0 /\ d \in 1..N)
    BY <1>1
  <2> QED
    BY <1>8, <1>9, <1>10, <1>11, <2>1
<1>13. g = [d \in 0..N |-> row(g, d)]
  BY <1>8, <1>12
<1>14. paths = CHOOSE h : h = [d \in 0..N |-> row(h, d)]
  BY DEF row
<1> HIDE DEF paths
<1>15. paths = [d \in 0..N |-> row(paths, d)]
  BY <1>13, <1>14
<1>16. Paths(objects, x) = paths
  BY DEF Paths, paths, N
<1>17. paths[0] = first
  BY <1>1, <1>10, <1>15
<1>18. \A d \in Nat : d + 1 <= N => paths[d + 1] = Step(paths[d])
  <2> SUFFICES ASSUME NEW d \in Nat, d + 1 <= N PROVE paths[d + 1] = Step(paths[d])
    OBVIOUS
  <2>1. d + 1 \in 0..N /\ d + 1 # 0 /\ (d + 1) - 1 = d
    BY <1>1
  <2> QED
    BY <1>11, <1>15, <2>1
<1>19. \A d \in 0..N : paths[d] \in S
  <2> DEFINE P == {d \in Nat : d <= N => paths[d] \in S}
  <2>1. 0 \in P
    BY <1>4, <1>17
  <2>2. ASSUME NEW d \in Nat, d \in P
        PROVE  d + 1 \in P
    <3>1. SUFFICES ASSUME d + 1 <= N PROVE paths[d + 1] \in S
      OBVIOUS
    <3>2. d <= N
      BY <1>1, <3>1
    <3> QED
      BY <1>5, <1>18, <2>2, <3>1, <3>2
  <2>3. Nat \subseteq P
    <3> HIDE DEF P
    <3> QED
      BY <2>1, <2>2, NaturalsInSet
  <2> QED
    BY <1>1, <2>3
<1>20. \A y \in Id : paths[0][y] = References(objects, x, y)
  BY <1>17 DEF first
<1>21. \A d \in Nat, y \in Id :
         d + 1 <= N =>
           paths[d + 1][y] = Total([z \in Id |-> paths[d][z] * References(objects, z, y)])
  BY <1>18 DEF Step
<1> QED
  BY <1>16, <1>19, <1>20, <1>21 DEF S, N

\* A walk never gets to objects that neither its start nor anything outside them holds.
LEMMA PathsAvoid ==
  ASSUME NEW objects \in Seq(Object), NEW x \in DOMAIN objects, NEW Y \in SUBSET DOMAIN objects,
         \A y \in Y : References(objects, x, y) = 0,
         \A z \in DOMAIN objects \ Y, y \in Y : References(objects, z, y) = 0
  PROVE  \A d \in 0..Len(objects), y \in Y : Paths(objects, x)[d][y] = 0
<1> DEFINE Id == DOMAIN objects
           N == Len(objects)
           paths == Paths(objects, x)
           P == {d \in Nat : d <= N => \A y \in Y : paths[d][y] = 0}
<1>1. N \in Nat /\ Id = 1..N
  BY SeqFacts
<1>2. IsFiniteSet(Id)
  <2>1. 1 \in Int /\ N \in Int
    BY <1>1
  <2> QED
    BY <1>1, <2>1, FS_Interval
<1>3. /\ \A d \in 0..N : paths[d] \in [Id -> Nat]
      /\ \A y \in Id : paths[0][y] = References(objects, x, y)
      /\ \A d \in Nat, y \in Id :
           d + 1 <= N =>
             paths[d + 1][y] = Total([z \in Id |-> paths[d][z] * References(objects, z, y)])
  BY PathsFacts
<1> HIDE DEF paths, N
<1>4. 0 \in P
  BY <1>3
<1>5. ASSUME NEW d \in Nat, d \in P
      PROVE  d + 1 \in P
  <2> SUFFICES ASSUME d + 1 <= N, NEW y \in Y PROVE paths[d + 1][y] = 0
    OBVIOUS
  <2> DEFINE f == [z \in Id |-> paths[d][z] * References(objects, z, y)]
  <2>1. d <= N /\ d \in 0..N /\ y \in Id
    BY <1>1
  <2>2. paths[d] \in [Id -> Nat] /\ paths[d + 1][y] = Total(f)
    BY <1>3, <2>1
  <2>3. \A z \in Y : paths[d][z] = 0
    BY <1>5, <2>1
  <2>4. \A z \in Id : f[z] = 0
    <3> SUFFICES ASSUME NEW z \in Id PROVE f[z] = 0
      OBVIOUS
    <3>1. f[z] = paths[d][z] * References(objects, z, y)
      OBVIOUS
    <3>2. paths[d][z] \in Nat /\ References(objects, z, y) \in Nat
      BY <2>2, ReferencesFacts
    <3>3. paths[d][z] = 0 \/ References(objects, z, y) = 0
      BY <2>3
    <3> HIDE DEF f
    <3> QED
      BY <3>1, <3>2, <3>3
  <2>5. DOMAIN f = Id
    OBVIOUS
  <2> HIDE DEF f, Id
  <2>6. Total(f) = 0
    BY <1>2, <2>4, <2>5, TotalFacts
  <2> QED
    BY <2>2, <2>6
<1>6. Nat \subseteq P
  <2> HIDE DEF P
  <2> QED
    BY <1>4, <1>5, NaturalsInSet
<1>7. \A d \in 0..N : d \in Nat /\ d <= N
  BY <1>1
<1> QED
  BY <1>6, <1>7 DEF paths, N

\* What the walk from x takes from the count of y.
Discount(objects, x, y) == Total([d \in 0..(Len(objects) - 1) |-> Paths(objects, x)[d][y]])

LEMMA DiscountFacts ==
  ASSUME NEW objects \in Seq(Object), NEW x \in DOMAIN objects, NEW y \in DOMAIN objects
  PROVE  /\ Discount(objects, x, y) \in Nat
         /\ (\A d \in 0..Len(objects) : Paths(objects, x)[d][y] = 0) => Discount(objects, x, y) = 0
<1> DEFINE f == [d \in 0..(Len(objects) - 1) |-> Paths(objects, x)[d][y]]
<1>1. Len(objects) \in Nat
  BY SeqFacts
<1>2. IsFiniteSet(0..(Len(objects) - 1)) /\ \A d \in 0..(Len(objects) - 1) : d \in 0..Len(objects)
  <2>1. 0 \in Int /\ Len(objects) - 1 \in Int
    BY <1>1
  <2>2. IsFiniteSet(0..(Len(objects) - 1))
    BY <2>1, FS_Interval
  <2> QED
    BY <1>1, <2>2
<1>3. \A d \in DOMAIN f : f[d] \in Nat
  <2>1. \A d \in 0..Len(objects) : Paths(objects, x)[d] \in [DOMAIN objects -> Nat]
    BY PathsFacts
  <2> QED
    BY <1>2, <2>1
<1>4. DOMAIN f = 0..(Len(objects) - 1)
  OBVIOUS
<1>5. (\A d \in 0..Len(objects) : Paths(objects, x)[d][y] = 0) => \A d \in DOMAIN f : f[d] = 0
  BY <1>2
<1>6. Discount(objects, x, y) = Total(f)
  BY DEF Discount
<1> HIDE DEF f
<1>7. Total(f) \in Nat /\ ((\A d \in DOMAIN f : f[d] = 0) => Total(f) = 0)
  BY <1>2, <1>3, <1>4, TotalFacts
<1> QED
  BY <1>5, <1>6, <1>7

Walked(objects, x) == [Unreferenced(objects, x) EXCEPT ![x] = Destroyed]

LEMMA WalkedFacts ==
  ASSUME NEW objects \in Seq(Object), NEW x \in DOMAIN objects
  PROVE  LET q == Walked(objects, x)
         IN  /\ q \in Seq(Object) /\ Len(q) = Len(objects) /\ q[x] = Destroyed
             /\ \A y \in DOMAIN objects : y # x =>
                  /\ q[y].class = objects[y].class /\ q[y].slots = objects[y].slots
                  /\ q[y].reference = objects[y].reference - Discount(objects, x, y)
<1> DEFINE u == Unreferenced(objects, x)
           q == Walked(objects, x)
           o(y) == [class |-> objects[y].class, slots |-> objects[y].slots,
                    reference |-> objects[y].reference - Discount(objects, x, y)]
<1>1. /\ Len(objects) \in Nat /\ DOMAIN objects = 1..Len(objects)
      /\ \A y \in DOMAIN objects : objects[y] \in Object
  BY SeqFacts
<1>2. u = [y \in DOMAIN objects |->
             [objects[y] EXCEPT !.reference = objects[y].reference - Discount(objects, x, y)]]
  BY DEF Unreferenced, Discount
<1>3. \A y \in DOMAIN objects :
        [objects[y] EXCEPT !.reference = objects[y].reference - Discount(objects, x, y)] = o(y)
  BY <1>1, ObjectUpdates
<1>4. \A y \in DOMAIN objects : o(y) \in Object
  <2> SUFFICES ASSUME NEW y \in DOMAIN objects PROVE o(y) \in Object
    OBVIOUS
  <2>1. objects[y].reference - Discount(objects, x, y) \in Int
    <3>1. objects[y].reference \in Int /\ Discount(objects, x, y) \in Nat
      BY <1>1, ObjectFacts, DiscountFacts
    <3> QED
      BY <3>1
  <2> QED
    BY <1>1, <2>1, ObjectFacts DEF Object
<1>5. u = [y \in 1..Len(objects) |-> o(y)]
  BY <1>1, <1>2, <1>3
<1>6. \A y : /\ o(y).class = objects[y].class /\ o(y).slots = objects[y].slots
             /\ o(y).reference = objects[y].reference - Discount(objects, x, y)
  OBVIOUS
<1> HIDE DEF o
<1>7. u \in Seq(Object) /\ Len(u) = Len(objects) /\ \A y \in 1..Len(objects) : u[y] = o(y)
  BY <1>1, <1>4, <1>5
<1>8. q = [u EXCEPT ![x] = Destroyed]
  BY DEF Walked
<1> HIDE DEF u, q
<1>9. /\ q \in Seq(Object) /\ Len(q) = Len(objects)
      /\ \A y \in 1..Len(objects) : q[y] = IF y = x THEN Destroyed ELSE u[y]
  BY <1>1, <1>7, <1>8, DestroyedFacts, UpdateFacts
<1> QED
  BY <1>1, <1>6, <1>7, <1>9 DEF q

-----------------------------------------------------------------------------
(* One object of a collection *)

HeapState == [objects : Seq(Object), vm : {"running", "aborted", "undefined"}]

\* Nothing happened to the objects, or the walk from x was made.
LEMMA CollectOneFacts ==
  ASSUME NEW h \in HeapState, NEW x \in DOMAIN h.objects, NEW stale
  PROVE  LET n == CollectOne(h, x, stale)
         IN  /\ n \in HeapState
             /\ \/ /\ n.objects = h.objects
                   /\ n.vm = "running" => \/ h.objects[x] = Destroyed
                                          \/ h.objects[x].reference > 0
                \/ /\ n.objects = Walked(h.objects, x) /\ h.vm = "running" /\ n.vm = "running"
                   /\ h.objects[x] # Destroyed
                   /\ ~(h.objects[x].reference > 0)
                   /\ ~MeetsNull(h.objects, x) /\ WalkIsDefined(h.objects, x)
             /\ h.vm # "running" => n = h
             /\ /\ h.vm = "running" /\ h.objects[x] # Destroyed
                /\ ~MeetsNull(h.objects, x) /\ WalkIsDefined(h.objects, x)
                => n.vm = "running"
<1> DEFINE n == CollectOne(h, x, stale)
           e == WalkEnds(h.objects, x)
<1>1. /\ h = [objects |-> h.objects, vm |-> h.vm] /\ h.objects \in Seq(Object)
      /\ h.vm \in {"running", "aborted", "undefined"}
  BY DEF HeapState
<1>2. \A how : [h EXCEPT !.vm = how] = [objects |-> h.objects, vm |-> how]
  BY DEF HeapState
<1>3. \A os : [h EXCEPT !.objects = os] = [objects |-> os, vm |-> h.vm]
  BY DEF HeapState
<1>4. /\ e \in {"running", "aborted", "undefined"}
      /\ e = "running" <=> ~MeetsNull(h.objects, x) /\ WalkIsDefined(h.objects, x)
  <2> HIDE DEF HeapState
  <2> QED
    BY DEF WalkEnds
<1>5. Walked(h.objects, x) \in Seq(Object)
  BY <1>1, WalkedFacts
<1>6. CASE h.vm # "running"
  <2>1. n = h
    BY <1>6 DEF CollectOne
  <2> QED
    BY <1>6, <2>1
<1>7. CASE h.vm = "running" /\ h.objects[x] = Destroyed
  <2>1. n = h \/ n = [h EXCEPT !.vm = "undefined"]
    BY <1>7 DEF CollectOne
  <2>2. n \in HeapState /\ n.objects = h.objects
    <3>1. [h EXCEPT !.vm = "undefined"] = [objects |-> h.objects, vm |-> "undefined"]
      BY <1>2
    <3> HIDE DEF n
    <3> QED
      BY <1>1, <2>1, <3>1 DEF HeapState
  <2> HIDE DEF n
  <2> QED
    BY <1>7, <2>2 DEF n
<1>8. CASE h.vm = "running" /\ h.objects[x] # Destroyed
  <2>1. n = IF h.objects[x].reference > 0 THEN h ELSE Freed(h, x)
    BY <1>8 DEF CollectOne
  <2>2. CASE h.objects[x].reference > 0
    <3>1. n = h
      BY <2>1, <2>2
    <3> HIDE DEF n
    <3> QED
      BY <1>8, <2>2, <3>1 DEF n
  <2>3. CASE ~(h.objects[x].reference > 0)
    <3>1. n = Freed(h, x)
      BY <2>1, <2>3
    <3>2. CASE e = "running"
      <4>1. n = [h EXCEPT !.objects = Walked(h.objects, x)]
        BY <3>1, <3>2 DEF Freed, Walked
      <4>2. n = [objects |-> Walked(h.objects, x), vm |-> "running"]
        BY <1>3, <1>8, <4>1
      <4>3. n \in HeapState /\ n.objects = Walked(h.objects, x) /\ n.vm = "running"
        BY <1>5, <4>2 DEF HeapState
      <4> HIDE DEF n, e
      <4> QED
        BY <1>4, <1>8, <2>3, <3>2, <4>3 DEF n
    <3>3. CASE e # "running"
      <4>1. n = [h EXCEPT !.vm = e]
        BY <3>1, <3>3 DEF Freed
      <4>2. n = [objects |-> h.objects, vm |-> e]
        BY <1>2, <4>1
      <4>3. n \in HeapState /\ n.objects = h.objects /\ n.vm = e
        BY <1>1, <1>4, <4>2 DEF HeapState
      <4> HIDE DEF n, e
      <4> QED
        BY <1>4, <1>8, <3>3, <4>3 DEF n
    <3> QED
      BY <3>2, <3>3
  <2> QED
    BY <2>2, <2>3
<1> QED
  BY <1>6, <1>7, <1>8

-----------------------------------------------------------------------------
(* A collection *)

\* Objects were destroyed or stayed, but for counts.
Shrunk(objects, q) ==
  /\ Len(q) = Len(objects)
  /\ \A id \in DOMAIN objects :
       \/ q[id] = Destroyed
       \/ q[id].class = objects[id].class /\ q[id].slots = objects[id].slots

\* No slot holds an array the way it holds an object.
LEMMA ArraysAreUnheld ==
  ASSUME NEW objects, HeapOK(objects), NEW y \in DOMAIN objects, objects[y].class = Array,
         NEW x \in DOMAIN objects
  PROVE  References(objects, x, y) = 0
<1>1. /\ objects \in Seq(Object) /\ ObjectOK(objects[x], objects) /\ y \in Nat /\ y # 0
  BY SeqFacts DEF HeapOK
<1>2. Reference(y).type = "L" /\ Reference(y).ref = y
  BY <1>1, ValueFacts
<1>3. ASSUME NEW k \in DOMAIN objects[x].slots, objects[x].slots[k].value = Reference(y)
      PROVE  FALSE
  <2>1. CASE objects[x].class = Array
    BY <1>1, <1>2, <1>3, <2>1 DEF ObjectOK
  <2>2. CASE objects[x].class # Array
    BY <1>1, <1>2, <1>3, <2>2 DEF ObjectOK, Good
  <2> QED
    BY <2>1, <2>2
<1> QED
  BY <1>1, <1>3, ReferencesFacts

LEMMA ArraysKeepTheirCount ==
  ASSUME NEW objects, HeapOK(objects), NEW y \in DOMAIN objects, objects[y].class = Array,
         NEW x \in DOMAIN objects
  PROVE  Discount(objects, x, y) = 0 /\ \A d \in 0..Len(objects) : Paths(objects, x)[d][y] = 0
<1>1. objects \in Seq(Object)
  BY DEF HeapOK
<1>2. \A z \in DOMAIN objects : References(objects, z, y) = 0
  BY ArraysAreUnheld
<1> DEFINE Y == {y}
<1>3. /\ Y \in SUBSET DOMAIN objects
      /\ \A w \in Y : References(objects, x, w) = 0
      /\ \A z \in DOMAIN objects \ Y, w \in Y : References(objects, z, w) = 0
  BY <1>2
<1>4. y \in Y
  OBVIOUS
<1> HIDE DEF Y
<1>5. \A d \in 0..Len(objects) : Paths(objects, x)[d][y] = 0
  BY <1>1, <1>3, <1>4, PathsAvoid
<1> QED
  BY <1>1, <1>5, DiscountFacts

LEMMA DestroyedKeepTheirCount ==
  ASSUME NEW objects \in Seq(Object), NEW x \in DOMAIN objects, WalkIsDefined(objects, x),
         NEW y \in DOMAIN objects, objects[y] = Destroyed
  PROVE  Discount(objects, x, y) = 0 /\ Walked(objects, x)[y] = Destroyed
<1>1. \A d \in 0..Len(objects) : Paths(objects, x)[d][y] = 0
  BY DEF WalkIsDefined
<1>2. Discount(objects, x, y) = 0
  BY <1>1, DiscountFacts
<1> DEFINE q == Walked(objects, x)
<1>3. /\ q \in Seq(Object) /\ Len(q) = Len(objects) /\ q[x] = Destroyed
      /\ y # x =>
           /\ q[y].class = objects[y].class /\ q[y].slots = objects[y].slots
           /\ q[y].reference = objects[y].reference - Discount(objects, x, y)
  BY WalkedFacts
<1> HIDE DEF q
<1>4. y \in 1..Len(q) /\ q[y] \in Object
  BY <1>3, SeqFacts
<1>5. CASE y # x
  <2>1. q[y].class = None /\ q[y].slots = <<>> /\ q[y].reference = 0
    BY <1>2, <1>3, <1>5, DestroyedFacts
  <2>2. q[y] = [class |-> q[y].class, slots |-> q[y].slots, reference |-> q[y].reference]
    BY <1>4, ObjectFacts
  <2>3. q[y] = Destroyed
    BY <2>1, <2>2 DEF Destroyed
  <2> QED
    BY <1>2, <2>3 DEF q
<1> QED
  BY <1>2, <1>3, <1>5 DEF q

LEMMA WalkKeepsHeap ==
  ASSUME NEW objects, HeapOK(objects), NEW x \in DOMAIN objects, WalkIsDefined(objects, x)
  PROVE  HeapOK(Walked(objects, x)) /\ Shrunk(objects, Walked(objects, x))
<1> DEFINE q == Walked(objects, x)
<1>1. /\ objects \in Seq(Object) /\ DOMAIN objects = 1..Len(objects)
      /\ \A y \in DOMAIN objects : objects[y] \in Object /\ ObjectOK(objects[y], objects)
  BY SeqFacts DEF HeapOK
<1>2. /\ q \in Seq(Object) /\ Len(q) = Len(objects) /\ q[x] = Destroyed
      /\ \A y \in DOMAIN objects : y # x =>
           /\ q[y].class = objects[y].class /\ q[y].slots = objects[y].slots
           /\ q[y].reference = objects[y].reference - Discount(objects, x, y)
  BY <1>1, WalkedFacts
<1>3. \A y \in DOMAIN objects : objects[y] = Destroyed => q[y] = Destroyed
  BY <1>1, DestroyedKeepTheirCount
<1>4. \A y \in DOMAIN objects : objects[y].class = Array => Discount(objects, x, y) = 0
  BY ArraysKeepTheirCount
<1> HIDE DEF q
<1>5. DOMAIN q = DOMAIN objects
  BY <1>1, <1>2, SeqFacts
<1>6. /\ None \notin Class /\ Array \notin Class /\ Array # None
  BY HeapAssumption
<1>7. \A v : Good(v, objects) => Good(v, q)
  <2> SUFFICES ASSUME NEW v, Good(v, objects) PROVE Good(v, q)
    OBVIOUS
  <2>1. v.type = "L" => v.ref \in DOMAIN q /\ q[v.ref].class # Array
    BY <1>2, <1>5, <1>6, DestroyedFacts DEF Good
  <2> QED
    BY <2>1 DEF Good
<1>8. ASSUME NEW y \in DOMAIN objects
      PROVE  ObjectOK(q[y], q)
  <2>1. CASE q[y] = Destroyed
    <3>1. q[y].class = None /\ q[y].slots = <<>>
      BY <2>1, DestroyedFacts
    <3>2. DOMAIN q[y].slots = {}
      BY <3>1
    <3> QED
      BY <1>6, <2>1, <3>1, <3>2 DEF ObjectOK
  <2>2. CASE q[y] # Destroyed
    <3>1. /\ q[y].class = objects[y].class /\ q[y].slots = objects[y].slots
          /\ q[y].reference = objects[y].reference - Discount(objects, x, y)
          /\ objects[y] # Destroyed
      BY <1>2, <1>3, <2>2
    <3>2. ObjectOK(objects[y], objects)
      BY <1>1
    <3>3. q[y].class = Array => q[y].reference = 0
      <4>1. objects[y].class = Array => objects[y].reference = 0
        BY <3>2 DEF ObjectOK
      <4>2. objects[y].class = Array => Discount(objects, x, y) = 0
        BY <1>4
      <4> QED
        BY <3>1, <4>1, <4>2
    <3>4. q[y].class \in Class => Laid(q[y])
      BY <3>1, <3>2 DEF ObjectOK, Laid
    <3>5. q[y].class # None
      BY <3>1, <3>2 DEF ObjectOK
    <3>6. q[y].class # Array => \A k \in DOMAIN q[y].slots : Good(q[y].slots[k].value, q)
      BY <1>7, <3>1, <3>2 DEF ObjectOK
    <3>7. q[y].class = Array => \A k \in DOMAIN q[y].slots : q[y].slots[k].value.ref = 0
      BY <3>1, <3>2 DEF ObjectOK
    <3> QED
      BY <3>3, <3>4, <3>5, <3>6, <3>7 DEF ObjectOK
  <2> QED
    BY <2>1, <2>2
<1>9. HeapOK(q)
  BY <1>2, <1>5, <1>8 DEF HeapOK
<1>10. Shrunk(objects, q)
  BY <1>2 DEF Shrunk
<1> QED
  BY <1>9, <1>10 DEF q

\* What is left of the heap after some objects of the collection.
Left == {h \in HeapState : HeapOK(h.objects) /\ Shrunk(object, h.objects)}

LEMMA CollectOneLeaves ==
  ASSUME object \in Seq(Object), NEW h \in Left, NEW x \in DOMAIN object, NEW stale
  PROVE  /\ x \in DOMAIN h.objects /\ CollectOne(h, x, stale) \in Left
         /\ Shrunk(h.objects, CollectOne(h, x, stale).objects)
         /\ \A y \in DOMAIN object :
              h.objects[y] = Destroyed => CollectOne(h, x, stale).objects[y] = Destroyed
<1> DEFINE n == CollectOne(h, x, stale)
<1>1. h \in HeapState /\ HeapOK(h.objects) /\ Shrunk(object, h.objects) /\ h.objects \in Seq(Object)
  BY DEF Left, HeapOK
<1>2. DOMAIN h.objects = DOMAIN object
  BY <1>1, SeqFacts DEF Shrunk
<1>3. /\ n \in HeapState
      /\ \/ n.objects = h.objects
         \/ n.objects = Walked(h.objects, x) /\ WalkIsDefined(h.objects, x)
  BY <1>1, <1>2, CollectOneFacts
<1> HIDE DEF n
<1>4. HeapOK(n.objects) /\ Shrunk(h.objects, n.objects)
  <2>1. CASE n.objects = h.objects
    <3>1. Shrunk(h.objects, h.objects)
      BY DEF Shrunk
    <3> QED
      BY <1>1, <2>1, <3>1
  <2>2. CASE n.objects = Walked(h.objects, x) /\ WalkIsDefined(h.objects, x)
    BY <1>1, <1>2, <2>2, WalkKeepsHeap
  <2> QED
    BY <1>3, <2>1, <2>2
<1>5. \A y \in DOMAIN object : h.objects[y] = Destroyed => n.objects[y] = Destroyed
  BY <1>1, <1>2, <1>3, DestroyedKeepTheirCount
<1>6. Shrunk(object, n.objects)
  BY <1>1, <1>2, <1>4, <1>5 DEF Shrunk
<1> QED
  BY <1>1, <1>2, <1>3, <1>4, <1>5, <1>6 DEF Left, n

\* A collection, object by object.
Run(g, stale) ==
  /\ DOMAIN g = 0..Len(object) /\ g[0] = [objects |-> object, vm |-> "running"]
  /\ \A x \in 0..Len(object) : g[x] \in Left
  /\ \A x \in 1..Len(object) : g[x] = CollectOne(g[x - 1], x, stale)

LEMMA CollectionRuns ==
  ASSUME StateOK, vm = "running", NEW stale
  PROVE  \E g : Run(g, stale) /\ Collected(stale) = g[Len(object)]
<1> DEFINE N == Len(object)
           first == [objects |-> object, vm |-> "running"]
           F == [p \in (1..N) \X Left |-> CollectOne(p[2], p[1], stale)]
           after == CHOOSE g : g = [x \in 0..N |-> IF x = 0 THEN first ELSE CollectOne(g[x - 1], x, stale)]
<1>1. object \in Seq(Object) /\ HeapOK(object) /\ N \in Nat /\ DOMAIN object = 1..N
  BY HeapFacts
<1>2. first \in Left
  <2>1. first \in HeapState /\ first.objects = object
    BY <1>1 DEF HeapState
  <2>2. Shrunk(object, object)
    BY DEF Shrunk
  <2> HIDE DEF first
  <2> QED
    BY <1>1, <2>1, <2>2 DEF Left
<1>3. ASSUME NEW x \in 1..N, NEW h \in Left
      PROVE  CollectOne(h, x, stale) \in Left
  BY <1>1, CollectOneLeaves
<1>4. \A x \in 1..N, h \in Left : F[<<x, h>>] = CollectOne(h, x, stale)
  OBVIOUS
<1>5. Keeps(Left, F, N)
  BY <1>3, <1>4 DEF Keeps
<1> HIDE DEF F, N, first
<1>6. PICK g : /\ DOMAIN g = 0..N /\ g[0] = first /\ g = [x \in 0..N |-> g[x]]
               /\ \A x \in 0..N : g[x] \in Left
               /\ \A x \in 1..N : g[x] = F[<<x, g[x - 1]>>]
  BY <1>1, <1>2, <1>5, RecursionInSet
<1>7. \A x \in 1..N : g[x] = CollectOne(g[x - 1], x, stale)
  <2> SUFFICES ASSUME NEW x \in 1..N PROVE g[x] = CollectOne(g[x - 1], x, stale)
    OBVIOUS
  <2>1. x - 1 \in 0..N
    BY <1>1
  <2> QED
    BY <1>4, <1>6, <2>1
<1>8. \A x \in 0..N : g[x] = IF x = 0 THEN first ELSE CollectOne(g[x - 1], x, stale)
  <2>1. \A x \in 0..N : x # 0 => x \in 1..N
    BY <1>1
  <2> QED
    BY <1>6, <1>7, <2>1, Zenon
<1>9. g = [x \in 0..N |-> IF x = 0 THEN first ELSE CollectOne(g[x - 1], x, stale)]
  BY <1>6, <1>8
<1>10. after = [x \in 0..N |-> IF x = 0 THEN first ELSE CollectOne(after[x - 1], x, stale)]
  BY <1>9
<1>11. Collected(stale) = after[N]
  BY DEF Collected, first, N
<1> HIDE DEF after
<1>12. DOMAIN after = 0..N /\ after[0] = first
  BY <1>1, <1>10
<1>13. \A x \in 1..N : after[x] = CollectOne(after[x - 1], x, stale)
  BY <1>1, <1>10
<1>14. \A x \in 0..N : after[x] \in Left
  <2> DEFINE P == {x \in Nat : x <= N => after[x] \in Left}
  <2>1. 0 \in P
    BY <1>2, <1>12
  <2>2. ASSUME NEW x \in Nat, x \in P
        PROVE  x + 1 \in P
    <3>1. SUFFICES ASSUME x + 1 <= N PROVE after[x + 1] \in Left
      OBVIOUS
    <3>2. x <= N /\ x + 1 \in 1..N /\ (x + 1) - 1 = x
      BY <1>1, <3>1
    <3>3. after[x + 1] = CollectOne(after[x], x + 1, stale)
      BY <1>13, <3>2
    <3> QED
      BY <1>3, <2>2, <3>2, <3>3
  <2>3. Nat \subseteq P
    <3> HIDE DEF P
    <3> QED
      BY <2>1, <2>2, NaturalsInSet
  <2> QED
    BY <1>1, <2>3
<1>15. Run(after, stale)
  BY <1>12, <1>13, <1>14 DEF Run, first, N
<1> QED
  BY <1>11, <1>15 DEF N

LEMMA RunFacts ==
  ASSUME StateOK, vm = "running", NEW stale, NEW g, Run(g, stale)
  PROVE  /\ g[0] \in Left /\ g[0].objects = object /\ g[0].vm = "running"
         /\ g[Len(object)] \in Left
         /\ \A x \in Nat : x + 1 <= Len(object) =>
              /\ x + 1 \in DOMAIN object
              /\ g[x] \in Left /\ g[x + 1] \in Left
              /\ g[x] \in HeapState /\ x + 1 \in DOMAIN g[x].objects
              /\ g[x + 1] = CollectOne(g[x], x + 1, stale)
<1>1. object \in Seq(Object) /\ Len(object) \in Nat /\ DOMAIN object = 1..Len(object)
  BY HeapFacts
<1>2. /\ \A x \in 0..Len(object) : g[x] \in Left
      /\ \A x \in 1..Len(object) : g[x] = CollectOne(g[x - 1], x, stale)
  BY DEF Run
<1>3. g[0].objects = object /\ g[0].vm = "running"
  BY DEF Run
<1>4. ASSUME NEW x \in Nat, x + 1 <= Len(object)
      PROVE  /\ x + 1 \in DOMAIN object
             /\ g[x] \in Left /\ g[x + 1] \in Left
             /\ g[x] \in HeapState /\ x + 1 \in DOMAIN g[x].objects
             /\ g[x + 1] = CollectOne(g[x], x + 1, stale)
  <2>1. x \in 0..Len(object) /\ x + 1 \in 1..Len(object) /\ (x + 1) - 1 = x
    BY <1>1, <1>4
  <2>2. x + 1 \in DOMAIN object /\ g[x] \in Left /\ g[x + 1] = CollectOne(g[x], x + 1, stale)
    BY <1>1, <1>2, <2>1
  <2>3. g[x + 1] \in Left
    BY <1>1, <1>2, <2>1
  <2>4. x + 1 \in DOMAIN g[x].objects
    BY <1>1, <2>2, CollectOneLeaves
  <2> QED
    BY <2>2, <2>3, <2>4 DEF Left
<1>5. 0 \in 0..Len(object) /\ Len(object) \in 0..Len(object)
  BY <1>1
<1> QED
  BY <1>2, <1>3, <1>4, <1>5

LEMMA CollectionFacts ==
  ASSUME StateOK, CollectGarbage
  PROVE  /\ vm = "running"
         /\ \/ Finished
            \/ /\ UNCHANGED <<pool, frames, vm>>
               /\ \E stale, g : /\ Run(g, stale) /\ g[Len(object)].vm = "running"
                                /\ object' = g[Len(object)].objects
<1>1. vm = "running"
  BY DEF CollectGarbage
<1>2. PICK stale :
        LET heap == Collected(stale)
        IN  \/ UNCHANGED <<pool, frames, vm>> /\ heap.vm = "running" /\ object' = heap.objects
            \/ \E how \in {"aborted", "undefined"} : Ends(how)
  BY DEF CollectGarbage
<1>3. PICK g : Run(g, stale) /\ Collected(stale) = g[Len(object)]
  BY <1>1, CollectionRuns
<1>4. (\E how \in {"aborted", "undefined"} : Ends(how)) => Finished
  BY DEF Ends, Finished
<1> HIDE DEF Collected
<1> QED
  BY <1>1, <1>2, <1>3, <1>4

\* A collection that went wrong goes no further, and what it destroyed stays destroyed.
LEMMA RunsKeep ==
  ASSUME StateOK, vm = "running", NEW stale, NEW g, Run(g, stale), NEW x \in 0..Len(object), NEW y \in x..Len(object)
  PROVE  /\ g[y].vm = "running" => g[x].vm = "running"
         /\ \A id \in DOMAIN object : g[x].objects[id] = Destroyed => g[y].objects[id] = Destroyed
<1> DEFINE N == Len(object)
           Ok(z) == /\ g[z].vm = "running" => g[x].vm = "running"
                    /\ \A id \in DOMAIN object :
                         g[x].objects[id] = Destroyed => g[z].objects[id] = Destroyed
           P == {z \in Nat : x <= z /\ z <= N => Ok(z)}
<1>1. /\ N \in Nat /\ x \in Nat /\ y \in Nat /\ x <= y /\ y <= N
      /\ object \in Seq(Object)
  BY HeapFacts
<1>2. \A z \in Nat : z + 1 <= N =>
        /\ z + 1 \in DOMAIN object /\ g[z] \in Left
        /\ g[z] \in HeapState /\ z + 1 \in DOMAIN g[z].objects
        /\ g[z + 1] = CollectOne(g[z], z + 1, stale)
  BY RunFacts
<1>3. Ok(x)
  OBVIOUS
<1>4. ASSUME NEW z \in Nat, z + 1 <= N, Ok(z)
      PROVE  Ok(z + 1)
  <2>1. /\ z + 1 \in DOMAIN object /\ g[z] \in Left
        /\ g[z] \in HeapState /\ z + 1 \in DOMAIN g[z].objects
        /\ g[z + 1] = CollectOne(g[z], z + 1, stale)
    BY <1>2, <1>4
  <2>2. g[z].vm # "running" => g[z + 1] = g[z]
    BY <2>1, CollectOneFacts
  <2>3. \A id \in DOMAIN object :
          g[z].objects[id] = Destroyed => g[z + 1].objects[id] = Destroyed
    BY <1>1, <2>1, CollectOneLeaves
  <2> QED
    BY <1>4, <2>2, <2>3
<1> HIDE DEF Ok, N
<1>5. 0 \in P
  <2> SUFFICES ASSUME x <= 0 PROVE Ok(0)
    OBVIOUS
  <2>1. x = 0
    BY <1>1
  <2> QED
    BY <1>3, <2>1
<1>6. ASSUME NEW z \in Nat, z \in P
      PROVE  z + 1 \in P
  <2> SUFFICES ASSUME x <= z + 1, z + 1 <= N PROVE Ok(z + 1)
    OBVIOUS
  <2>1. CASE x = z + 1
    BY <1>3, <2>1
  <2>2. CASE x # z + 1
    <3>1. x <= z /\ z <= N
      BY <1>1, <2>2
    <3>2. Ok(z)
      BY <1>6, <3>1
    <3> QED
      BY <1>4, <3>2
  <2> QED
    BY <2>1, <2>2
<1>7. Nat \subseteq P
  <2> HIDE DEF P
  <2> QED
    BY <1>5, <1>6, NaturalsInSet
<1>8. Ok(y)
  BY <1>1, <1>7
<1> QED
  BY <1>8 DEF Ok

LEMMA ShrunkKeepsFrames ==
  ASSUME NEW objects \in Seq(Object), NEW q \in Seq(Object), Shrunk(objects, q),
         NEW f, FrameOK(f, objects)
  PROVE  FrameOK(f, q)
<1>1. DOMAIN q = DOMAIN objects
  BY SeqFacts DEF Shrunk
<1>2. \A id \in DOMAIN objects : q[id].class = objects[id].class \/ q[id].class = None
  BY DestroyedFacts DEF Shrunk
<1>3. None # Array
  BY HeapAssumption
<1>4. \A v : Good(v, objects) => Good(v, q)
  BY <1>1, <1>2, <1>3 DEF Good
<1> QED
  BY <1>4 DEF FrameOK

\* The state a collection leaves.
LEMMA CollectionKeepsHeap ==
  ASSUME StateOK, vm = "running", NEW stale, NEW g, Run(g, stale), NEW q, q = g[Len(object)].objects
  PROVE  HeapOK(q) /\ Shrunk(object, q) /\ ThreadOn(frames, q)
<1>1. HeapOK(q) /\ Shrunk(object, q)
  BY RunFacts DEF Left
<1>2. q \in Seq(Object) /\ object \in Seq(Object)
  BY <1>1, HeapFacts DEF HeapOK
<1>3. ThreadOn(frames, q)
  BY <1>1, <1>2, HeapFacts, ShrunkKeepsFrames DEF ThreadOn
<1> QED
  BY <1>1, <1>3

LEMMA RunningStateOK ==
  ASSUME StateOK, vm = "running", UNCHANGED <<pool, vm>>, HeapOK(object'), ThreadOn(frames', object')
  PROVE  StateOK'
<1>1. vm' = "running" /\ pool' \in Pools
  BY HeapFacts
<1>2. HeapOK(object)'
  BY DEF HeapOK, ObjectOK, Laid, FieldIndex
<1>3. ThreadOK'
  BY DEF ThreadOn, ThreadOK
<1> QED
  BY <1>1, <1>2, <1>3 DEF StateOK

LEMMA InitIsOK ==
  ASSUME Init
  PROVE  StateOK
<1> DEFINE f == [class |-> Main, static |-> TRUE, locals |-> [i \in 0..(Locals - 1) |-> Null],
                 operands |-> <<>>]
<1>1. pool \in Pools /\ object = <<>> /\ frames = <<f>> /\ vm = "running"
  BY DEF Init, FrameOf
<1>2. HeapOK(<<>>)
  BY DEF HeapOK
<1>3. f \in Frame
  BY HeapAssumption, ValueFacts DEF Frame
<1>4. FrameOK(f, <<>>)
  <2>1. \A i \in 0..(Locals - 1) : f.locals[i] = Null
    OBVIOUS
  <2>2. f.operands = <<>> /\ DOMAIN << >> = {}
    OBVIOUS
  <2> HIDE DEF f
  <2> QED
    BY <2>1, <2>2, NullIsGood DEF FrameOK
<1> HIDE DEF f
<1>5. <<f>> \in Seq(Frame) /\ <<f>> # <<>> /\ DOMAIN <<f>> = 1..1 /\ <<f>>[1] = f
  BY <1>3
<1>6. ThreadOK
  BY <1>1, <1>4, <1>5 DEF ThreadOK
<1> QED
  BY <1>1, <1>2, <1>6 DEF StateOK

\* Every reference on the thread and in a field leads to an object or to where one was,
\* an array has no count and is held as none, and an object's own fields come first.
LEMMA NextKeepsStateOK ==
  ASSUME StateOK, [Next]_vars
  PROVE  StateOK'
<1>1. CASE Instruction
  <2>1. CASE Finished
    BY <2>1, FinishedKeepsStateOK
  <2>2. CASE Kept(object', frames') /\ UNCHANGED <<pool, vm>>
    <3>1. vm = "running"
      BY <1>1 DEF Instruction
    <3> QED
      BY <2>2, <3>1, RunningStateOK DEF Kept
  <2> QED
    BY <1>1, <2>1, <2>2, InstructionFacts
<1>2. CASE CollectGarbage
  <2>1. CASE Finished
    BY <2>1, FinishedKeepsStateOK
  <2>2. ASSUME UNCHANGED <<pool, frames, vm>>, NEW stale, NEW g, Run(g, stale), object' = g[Len(object)].objects
        PROVE  StateOK'
    <3>1. vm = "running"
      BY <1>2 DEF CollectGarbage
    <3>2. HeapOK(object') /\ ThreadOn(frames, object')
      BY <2>2, <3>1, CollectionKeepsHeap
    <3>3. ThreadOn(frames', object')
      BY <2>2, <3>2
    <3> QED
      BY <2>2, <3>1, <3>2, <3>3, RunningStateOK
  <2> QED
    BY <1>2, <2>1, <2>2, CollectionFacts
<1>3. CASE UNCHANGED vars
  BY <1>3 DEF vars, StateOK, HeapOK, ObjectOK, Laid, FieldIndex, ThreadOK, Good, FrameOK
<1> QED
  BY <1>1, <1>2, <1>3 DEF Next

\* Every reachable state is well formed: objects laid out as createObject does, frames and
\* operands of references that name objects, nothing left of either once the VM has ended.
THEOREM StatesAreOK == Spec => []StateOK
<1>1. Init => StateOK
  BY InitIsOK
<1>2. StateOK /\ [Next]_vars => StateOK'
  BY NextKeepsStateOK
<1> QED
  BY <1>1, <1>2, PTL DEF Spec

-----------------------------------------------------------------------------
(* What the counts are worth *)

LEMMA WorthType ==
  ASSUME NEW objects \in Seq(Object), NEW frs \in Seq(Frame), NEW id \in DOMAIN objects
  PROVE  Worth(objects, frs, id) \in Int
<1>1. IsFiniteSet(Places(objects, frs, id))
  BY FinitePlaces
<1>2. Cardinality(Places(objects, frs, id)) \in Nat
  BY <1>1, FS_CardinalityType
<1>3. objects[id].reference \in Int
  BY SeqFacts, ObjectFacts
<1> QED
  BY <1>2, <1>3 DEF Worth

LEMMA WorthIsInt ==
  ASSUME StateOK, vm = "running", NEW id \in DOMAIN object
  PROVE  /\ Worth(object, frames, id) \in Int
         /\ object[id].reference \in Int /\ Holders(id) \in Nat
         /\ Worth(object, frames, id) = object[id].reference - Holders(id)
<1>1. IsFiniteSet(Places(object, frames, id))
  BY HeapFacts, TopFacts, FinitePlaces
<1>2. Cardinality(Places(object, frames, id)) \in Nat /\ object[id].reference \in Int
  BY <1>1, FS_CardinalityType, HeapFacts, ObjectFacts
<1>3. Holders(id) = Cardinality(Places(object, frames, id))
  BY PlacesHere
<1> QED
  BY <1>2, <1>3 DEF Worth

\* No instruction makes a new object out of a freed one, or frees one.
LEMMA InstructionsFreeNothing ==
  ASSUME StateOK, vm = "running", Kept(object', frames'), NothingFreed'
  PROVE  NothingFreed
<1> SUFFICES ASSUME NEW id \in DOMAIN object, object[id] = Destroyed
             PROVE  FALSE
  BY DEF NothingFreed, Ids
<1>1. /\ Grown(object, object') /\ HeapOK(object') /\ object \in Seq(Object)
  BY HeapFacts DEF Kept
<1>2. id \in DOMAIN object'
  <2>1. /\ DOMAIN object = 1..Len(object) /\ DOMAIN object' = 1..Len(object')
        /\ Len(object) \in Nat /\ Len(object') \in Nat /\ Len(object) <= Len(object')
    BY <1>1, SeqFacts DEF Grown
  <2> QED
    BY <2>1
<1>3. object'[id].class = None
  BY <1>1, DestroyedFacts DEF Grown
<1>4. object'[id] = Destroyed
  BY <1>1, <1>2, <1>3 DEF HeapOK, ObjectOK
<1> QED
  BY <1>2, <1>4 DEF NothingFreed, Ids

\* A collection that returns and frees nothing does nothing.
LEMMA CollectionWithoutPrey ==
  ASSUME StateOK, vm = "running", NEW stale, NEW g, Run(g, stale),
         object' = g[Len(object)].objects, ~Freeing
  PROVE  object' = object
<1> DEFINE N == Len(object)
           Whole(q) == \A id \in DOMAIN object : q[id] = Destroyed => object[id] = Destroyed
           P == {x \in Nat : x <= N => (Whole(g[x].objects) => g[x].objects = object)}
<1>1. N \in Nat
  BY HeapFacts
<1>2. /\ g[0].objects = object
      /\ \A x \in Nat : x + 1 <= N =>
           /\ x + 1 \in DOMAIN object /\ g[x] \in Left
           /\ g[x] \in HeapState /\ x + 1 \in DOMAIN g[x].objects
           /\ g[x + 1] = CollectOne(g[x], x + 1, stale)
  BY RunFacts
<1>3. 0 \in P
  BY <1>2
<1>4. ASSUME NEW x \in Nat, x \in P
      PROVE  x + 1 \in P
  <2> SUFFICES ASSUME x + 1 <= N, Whole(g[x + 1].objects)
               PROVE  g[x + 1].objects = object
    OBVIOUS
  <2>1. /\ x <= N /\ x + 1 \in DOMAIN object /\ g[x] \in HeapState
        /\ x + 1 \in DOMAIN g[x].objects /\ g[x + 1] = CollectOne(g[x], x + 1, stale)
    BY <1>1, <1>2
  <2>2. \/ g[x + 1].objects = g[x].objects
        \/ /\ g[x + 1].objects = Walked(g[x].objects, x + 1)
           /\ g[x].objects[x + 1] # Destroyed
    BY <2>1, CollectOneFacts
  <2>3. g[x + 1].objects # Walked(g[x].objects, x + 1) \/ g[x].objects[x + 1] = Destroyed
    <3> SUFFICES ASSUME g[x + 1].objects = Walked(g[x].objects, x + 1)
                 PROVE  g[x].objects[x + 1] = Destroyed
      OBVIOUS
    <3>1. g[x].objects \in Seq(Object)
      BY <2>1 DEF HeapState
    <3>2. Walked(g[x].objects, x + 1)[x + 1] = Destroyed
      BY <2>1, <3>1, WalkedFacts
    <3>3. object[x + 1] = Destroyed
      BY <2>1, <3>2
    <3>4. 0 \in 0..N /\ x \in 0..N
      BY <1>1, <2>1
    <3> HIDE DEF N
    <3> QED
      BY <1>2, <2>1, <3>3, <3>4, RunsKeep DEF N
  <2> QED
    BY <1>4, <2>1, <2>2, <2>3
<1>5. Nat \subseteq P
  <2> HIDE DEF P
  <2> QED
    BY <1>3, <1>4, NaturalsInSet
<1>6. Whole(g[N].objects)
  BY DEF Freeing, LiveIds, Live, Ids
<1> QED
  BY <1>1, <1>5, <1>6

\* The surplus of a count never falls while nothing is freed.
LEMMA SurplusStays ==
  ASSUME Arguments = 0, StateOK, Next, vm' = "running", ~Freeing
  PROVE  /\ vm = "running"
         /\ NoneLost(object', frames')
<1>1. vm = "running" /\ ~Finished
  BY DEF Next, Instruction, CollectGarbage, Finished
<1>2. CASE Instruction
  BY <1>1, <1>2, InstructionFacts
<1>3. CASE CollectGarbage
  <2>1. PICK stale, g : Run(g, stale) /\ object' = g[Len(object)].objects /\ UNCHANGED frames
    BY <1>1, <1>3, CollectionFacts
  <2>2. object' = object
    BY <1>1, <2>1, CollectionWithoutPrey
  <2>3. \A id \in DOMAIN object : Worth(object, frames, id) \in Int
    BY <1>1, WorthIsInt
  <2> QED
    BY <1>1, <2>1, <2>2, <2>3 DEF NoneLost
<1> QED
  BY <1>2, <1>3 DEF Next

\* What was freed does not come back.
LEMMA FreedStaysFreed ==
  ASSUME StateOK, Next, vm' = "running", NothingFreed'
  PROVE  NothingFreed /\ ~Freeing
<1>1. vm = "running" /\ ~Finished /\ object \in Seq(Object) /\ Len(object) \in Nat
  BY HeapFacts DEF Next, Instruction, CollectGarbage, Finished
<1>2. CASE Instruction
  <2>1. Kept(object', frames')
    BY <1>1, <1>2, InstructionFacts
  <2>2. object' \in Seq(Object) /\ Len(object) <= Len(object')
    BY <2>1 DEF Kept, Grown
  <2>3. DOMAIN object \subseteq DOMAIN object'
    BY <1>1, <2>2, SeqFacts
  <2> QED
    BY <1>1, <2>1, <2>3, InstructionsFreeNothing DEF Freeing, NothingFreed, LiveIds, Live, Ids
<1>3. CASE CollectGarbage
  <2>1. PICK stale, g : Run(g, stale) /\ object' = g[Len(object)].objects
    BY <1>1, <1>3, CollectionFacts
  <2>2. HeapOK(object') /\ Shrunk(object, object')
    BY <1>1, <2>1, CollectionKeepsHeap
  <2>3. DOMAIN object' = DOMAIN object
    BY <1>1, <2>2, SeqFacts DEF Shrunk, HeapOK
  <2>4. ~Freeing
    BY <2>3 DEF Freeing, NothingFreed, LiveIds, Live, Ids
  <2>5. object' = object
    BY <1>1, <2>1, <2>4, CollectionWithoutPrey
  <2> QED
    BY <2>4, <2>5 DEF NothingFreed, Ids
<1> QED
  BY <1>2, <1>3 DEF Next

Covered == NothingFreed => \A id \in DOMAIN object : Worth(object, frames, id) >= 0

\* While nothing was collected, no count of ObjectHeap is below the number of fields and
\* of written locals that hold the object, in programs whose methods take no references.
THEOREM CountsCover ==
  ASSUME Arguments = 0
  PROVE  Spec => []CountsCoverHolders
<1>1. Init => Covered
  BY DEF Init, Covered
<1>2. StateOK /\ StateOK' /\ Covered /\ [Next]_vars => Covered'
  <2> SUFFICES ASSUME StateOK, StateOK', Covered, [Next]_vars, NothingFreed',
                      NEW id \in DOMAIN object'
               PROVE  Worth(object', frames', id) >= 0
    BY DEF Covered, Worth, Places, FieldsOf, LocalsOf
  <2>1. CASE UNCHANGED vars
    BY <2>1 DEF vars, Covered, NothingFreed, Ids
  <2>2. CASE Next
    <3>1. vm' = "running"
      BY DEF StateOK
    <3>2. /\ vm = "running" /\ NothingFreed /\ NoneLost(object', frames')
      BY <2>2, <3>1, FreedStaysFreed, SurplusStays
    <3>3. Worth(object', frames', id) \in Int
      <4>1. object' \in Seq(Object) /\ frames' \in Seq(Frame)
        BY <3>1 DEF StateOK, HeapOK, ThreadOK
      <4> QED
        BY <4>1, WorthType
    <3>4. CASE id \in DOMAIN object
      <4>1. Worth(object, frames, id) >= 0 /\ Worth(object', frames', id) >= Worth(object, frames, id)
        BY <3>2, <3>4 DEF Covered, NoneLost
      <4>2. Worth(object, frames, id) \in Int
        BY <3>2, <3>4, WorthIsInt
      <4> QED
        BY <3>3, <4>1, <4>2
    <3>5. CASE id \notin DOMAIN object
      BY <3>2, <3>5 DEF NoneLost
    <3> QED
      BY <3>4, <3>5
  <2> QED
    BY <2>1, <2>2
<1>3. StateOK /\ Covered => CountsCoverHolders
  <2> SUFFICES ASSUME StateOK, Covered, NothingFreed, NEW id \in DOMAIN object
               PROVE  object[id].reference >= Holders(id)
    BY DEF CountsCoverHolders, Ids
  <2>1. vm = "running"
    BY DEF StateOK
  <2>2. Worth(object, frames, id) >= 0
    BY DEF Covered
  <2> QED
    BY <2>1, <2>2, WorthIsInt
<1> QED
  BY <1>1, <1>2, <1>3, StatesAreOK, PTL DEF Spec

\* What a count of ObjectHeap exceeds its object's holders by falls in no opcode, call,
\* return or collection that frees nothing, in programs whose methods take no references:
\* what a returning method leaves counted stays until a collection takes something.
THEOREM LeaksStay ==
  ASSUME Arguments = 0
  PROVE  Spec => OnlyCollectionsHealLeaks
<1> DEFINE A == vm' = "running" /\ ~Freeing => \A id \in Ids : Surplus(id)' >= Surplus(id)
<1>1. StateOK /\ [Next]_vars => [A]_vars
  <2> SUFFICES ASSUME StateOK, Next, vm' = "running", ~Freeing, NEW id \in Ids
               PROVE  Surplus(id)' >= Surplus(id)
    OBVIOUS
  <2>1. vm = "running" /\ NoneLost(object', frames') /\ id \in DOMAIN object
    BY SurplusStays DEF Ids
  <2>2. Worth(object', frames', id) >= Worth(object, frames, id)
    BY <2>1 DEF NoneLost
  <2>3. Surplus(id) = Worth(object, frames, id)
    BY PlacesHere DEF Surplus, Worth
  <2>4. Surplus(id)' = Worth(object', frames', id)
    BY PlacesThere DEF Surplus, Worth
  <2> QED
    BY <2>2, <2>3, <2>4
<1> QED
  BY <1>1, StatesAreOK, PTL DEF Spec, OnlyCollectionsHealLeaks

\* A method that runs on an object of its own class finds its own fields where
\* createObject laid them (ObjectHeap.h): they come first, and its pool numbers no two
\* alike.
THEOREM OwnFieldsStayRight == Spec => []OwnFieldsAreRight
<1>1. StateOK => OwnFieldsAreRight
  <2> SUFFICES ASSUME StateOK, NEW id \in LiveIds \ Arrays,
                      NEW k \in DOMAIN Fields[object[id].class],
                      <<object[id].class, Fields[object[id].class][k]>>
                        \in DOMAIN pool[object[id].class]
               PROVE  LET c == object[id].class
                          index == pool[c][<<c, Fields[c][k]>>]
                      IN  MatchingSlots(id, index) # {} /\ FirstSlot(id, index) = k
    BY DEF OwnFieldsAreRight
  <2> DEFINE c == object[id].class
             index == pool[c][<<c, Fields[c][k]>>]
  <2>1. id \in DOMAIN object /\ object[id] # Destroyed /\ c # Array
    BY DEF LiveIds, Arrays, Ids, Live
  <2>2. vm = "running"
    BY <2>1 DEF StateOK
  <2>3. pool \in Pools /\ object[id] \in Object /\ ObjectOK(object[id], object)
    BY <2>1, <2>2, HeapFacts
  <2>4. c \in Class
    BY <2>1, <2>3, ObjectFacts DEF ObjectOK
  <2>5. /\ DOMAIN Fields[c] \subseteq DOMAIN object[id].slots
        /\ \A j \in DOMAIN Fields[c] : object[id].slots[j].index = FieldIndex(c, Fields[c][j])
    BY <2>3, <2>4 DEF ObjectOK, Laid
  <2>6. /\ DOMAIN Fields[c] = 1..Len(Fields[c]) /\ Len(Fields[c]) \in Nat
        /\ IsInjective(Fields[c]) /\ IsInjective(pool[c])
        /\ \A ref \in DOMAIN pool[c] : pool[c][ref] \in Nat \ {0}
    BY <2>3, <2>4, ClassFileAssumption
  <2> HIDE DEF c
  <2>7. k \in MatchingSlots(id, index)
    BY <2>5 DEF MatchingSlots, FieldIndex, c
  <2>8. \A j \in DOMAIN Fields[c] : j # k => object[id].slots[j].index # index
    <3> SUFFICES ASSUME NEW j \in DOMAIN Fields[c], j # k
                 PROVE  object[id].slots[j].index # index
      OBVIOUS
    <3>1. Fields[c][j] # Fields[c][k]
      BY <2>6 DEF IsInjective, c
    <3>2. <<c, Fields[c][j]>> # <<c, Fields[c][k]>>
      BY <3>1
    <3>3. FieldIndex(c, Fields[c][j]) # index
      BY <2>6, <3>2 DEF FieldIndex, IsInjective, c
    <3> QED
      BY <2>5, <3>3
  <2>9. /\ FirstSlot(id, index) \in MatchingSlots(id, index)
        /\ \A j \in MatchingSlots(id, index) : FirstSlot(id, index) <= j
    BY <2>1, <2>2, <2>7, FirstSlotFacts
  <2>10. FirstSlot(id, index) = k
    <3> DEFINE m == FirstSlot(id, index)
    <3>1. m <= k /\ m \in DOMAIN object[id].slots /\ object[id].slots[m].index = index
      BY <2>7, <2>9 DEF MatchingSlots
    <3>2. DOMAIN object[id].slots = 1..Len(object[id].slots)
      BY <2>3, ObjectFacts, SeqFacts
    <3>3. m \in DOMAIN Fields[c]
      <4>1. k \in DOMAIN Fields[c]
        BY DEF c
      <4>2. k \in 1..Len(Fields[c])
        BY <2>6, <4>1
      <4> HIDE DEF m
      <4>3. m \in 1..Len(object[id].slots)
        BY <3>1, <3>2
      <4>4. m \in Nat /\ m >= 1
        BY <4>3
      <4>5. k \in Nat /\ k <= Len(Fields[c])
        BY <2>6, <4>2
      <4>6. m \in 1..Len(Fields[c])
        BY <2>6, <3>1, <4>4, <4>5
      <4> QED
        BY <2>6, <4>6
    <3> QED
      BY <2>8, <3>1, <3>3
  <2> QED
    BY <2>7, <2>10 DEF c
<1> QED
  BY <1>1, StatesAreOK, PTL

-----------------------------------------------------------------------------
(* What a collection takes *)

\* A collection destroys no object before it comes to it.
LEMMA UnvisitedStays ==
  ASSUME StateOK, vm = "running", NEW stale, NEW g, Run(g, stale),
         NEW x \in 0..Len(object), NEW y \in DOMAIN object, y > x, object[y] # Destroyed
  PROVE  g[x].objects[y] # Destroyed
<1> DEFINE N == Len(object)
           P == {z \in Nat : z <= x => g[z].objects[y] # Destroyed}
<1>1. N \in Nat /\ x \in Nat /\ x <= N /\ y \in Nat
  BY HeapFacts
<1>2. /\ g[0].objects = object
      /\ \A z \in Nat : z + 1 <= N =>
           /\ z + 1 \in DOMAIN object /\ g[z] \in Left
           /\ g[z] \in HeapState /\ z + 1 \in DOMAIN g[z].objects
           /\ g[z + 1] = CollectOne(g[z], z + 1, stale)
  BY RunFacts
<1>3. 0 \in P
  BY <1>2
<1>4. ASSUME NEW z \in Nat, z \in P
      PROVE  z + 1 \in P
  <2> SUFFICES ASSUME z + 1 <= x PROVE g[z + 1].objects[y] # Destroyed
    OBVIOUS
  <2> DEFINE q == g[z].objects
  <2>1. z <= x /\ z + 1 <= N /\ y # z + 1
    BY <1>1
  <2>2. q[y] # Destroyed
    BY <1>4, <2>1
  <2>3. /\ g[z] \in HeapState /\ z + 1 \in DOMAIN q /\ g[z] \in Left
        /\ g[z + 1] = CollectOne(g[z], z + 1, stale)
    BY <1>2, <2>1
  <2>4. q \in Seq(Object) /\ HeapOK(q) /\ Len(q) = Len(object)
    BY <2>3 DEF Left, HeapState, Shrunk
  <2>5. y \in DOMAIN q
    BY <2>4, SeqFacts, HeapFacts
  <2> HIDE DEF q
  <2>6. g[z + 1].objects = q \/ g[z + 1].objects = Walked(q, z + 1)
    BY <2>3, CollectOneFacts DEF q
  <2>7. Walked(q, z + 1)[y] # Destroyed
    <3>1. ObjectOK(q[y], q)
      BY <2>4, <2>5 DEF HeapOK
    <3>2. q[y].class # None
      BY <2>2, <3>1 DEF ObjectOK
    <3>3. Walked(q, z + 1)[y].class = q[y].class
      BY <2>1, <2>3, <2>4, <2>5, WalkedFacts
    <3> QED
      BY <3>2, <3>3, DestroyedFacts
  <2> QED
    BY <2>2, <2>6, <2>7
<1>5. Nat \subseteq P
  <2> HIDE DEF P
  <2> QED
    BY <1>3, <1>4, NaturalsInSet
<1> QED
  BY <1>1, <1>5

\* A collection that returns found each object there when it came to it, and either kept
\* it for its count or walked from it.
LEMMA EveryIdIsVisited ==
  ASSUME StateOK, vm = "running", NEW stale, NEW g, Run(g, stale), g[Len(object)].vm = "running",
         NEW id \in DOMAIN object, object[id] # Destroyed
  PROVE  LET h == g[id - 1]
         IN  /\ h \in Left /\ h.vm = "running" /\ h.objects \in Seq(Object)
             /\ DOMAIN h.objects = DOMAIN object
             /\ h.objects[id] # Destroyed
             /\ \/ h.objects[id].reference > 0
                \/ /\ g[id].objects = Walked(h.objects, id)
                   /\ ~MeetsNull(h.objects, id) /\ WalkIsDefined(h.objects, id)
                   /\ g[Len(object)].objects[id] = Destroyed
<1> DEFINE N == Len(object)
           h == g[id - 1]
           n == g[id]
<1>1. /\ N \in Nat /\ object \in Seq(Object) /\ id \in 1..N /\ id \in Nat /\ id - 1 \in Nat
      /\ (id - 1) + 1 = id /\ id <= N
  BY HeapFacts
<1>2. /\ h \in Left /\ h \in HeapState /\ id \in DOMAIN h.objects /\ n = CollectOne(h, id, stale)
  BY <1>1, RunFacts
<1>3. h.vm = "running" /\ n.vm = "running"
  <2>1. id - 1 \in 0..N /\ id \in 0..N /\ N \in (id - 1)..N /\ N \in id..N
    BY <1>1
  <2> QED
    BY <2>1, RunsKeep
<1>4. h.objects \in Seq(Object) /\ DOMAIN h.objects = DOMAIN object
  <2>1. h.objects \in Seq(Object) /\ Len(h.objects) = Len(object)
    BY <1>2 DEF Left, HeapState, Shrunk
  <2> QED
    BY <1>1, <2>1, SeqFacts
<1>5. h.objects[id] # Destroyed
  <2>1. id - 1 \in 0..N /\ id > id - 1
    BY <1>1
  <2> QED
    BY <2>1, UnvisitedStays
<1> HIDE DEF h, n
<1>6. \/ /\ n.objects = h.objects /\ h.objects[id] # Destroyed /\ h.objects[id].reference > 0
      \/ /\ n.objects = Walked(h.objects, id) /\ h.objects[id] # Destroyed
         /\ ~MeetsNull(h.objects, id) /\ WalkIsDefined(h.objects, id)
  BY <1>2, <1>3, <1>5, CollectOneFacts
<1>7. n.objects = Walked(h.objects, id) => g[N].objects[id] = Destroyed
  <2> SUFFICES ASSUME n.objects = Walked(h.objects, id) PROVE g[N].objects[id] = Destroyed
    OBVIOUS
  <2>1. Walked(h.objects, id)[id] = Destroyed
    BY <1>2, <1>4, WalkedFacts
  <2>2. g[id].objects[id] = Destroyed
    BY <2>1 DEF n
  <2>3. id \in 0..N /\ N \in id..N
    BY <1>1
  <2> HIDE DEF N
  <2> QED
    BY <2>2, <2>3, RunsKeep DEF N
<1> QED
  BY <1>2, <1>3, <1>4, <1>6, <1>7 DEF h, n

\* Nothing counts the references to an array (createPrimitiveArray): a collection that
\* returns has freed every array, and there was none for objects that had a place.
THEOREM ArraysAreTaken == Spec => CollectionsTakeArrays
<1> DEFINE A == CollectGarbage /\ Arrays # {} =>
                  \/ vm' # "running"
                  \/ \A id \in Arrays : object'[id] = Destroyed /\ ~MeetsNull(object, id)
<1>1. StateOK /\ [Next]_vars => [A]_vars
  <2> SUFFICES ASSUME StateOK, CollectGarbage, vm' = "running", NEW id \in Arrays
               PROVE  object'[id] = Destroyed /\ ~MeetsNull(object, id)
    OBVIOUS
  <2>1. id \in DOMAIN object /\ object[id].class = Array /\ object[id] # Destroyed
    BY DEF Arrays, LiveIds, Live, Ids
  <2>2. ~Finished /\ vm = "running"
    BY CollectionFacts DEF Finished
  <2>3. PICK stale, g : Run(g, stale) /\ g[Len(object)].vm = "running" /\ object' = g[Len(object)].objects
    BY <2>2, CollectionFacts
  <2> DEFINE h == g[id - 1]
  <2>4. /\ h \in Left /\ DOMAIN h.objects = DOMAIN object /\ h.objects[id] # Destroyed
        /\ \/ h.objects[id].reference > 0
           \/ /\ ~MeetsNull(h.objects, id)
              /\ g[Len(object)].objects[id] = Destroyed
    BY <2>1, <2>2, <2>3, EveryIdIsVisited
  <2> HIDE DEF h
  <2>5. h.objects[id].class = Array /\ h.objects[id].slots = object[id].slots
    BY <2>1, <2>4 DEF Left, Shrunk
  <2>6. ~(h.objects[id].reference > 0)
    <3>1. ObjectOK(h.objects[id], h.objects)
      BY <2>1, <2>4 DEF Left, HeapOK
    <3>2. h.objects[id].reference = 0
      BY <2>5, <3>1 DEF ObjectOK
    <3> QED
      BY <3>2
  <2>7. MeetsNull(object, id) <=> MeetsNull(h.objects, id)
    BY <2>5 DEF MeetsNull
  <2> QED
    BY <2>3, <2>4, <2>6, <2>7
<1> QED
  BY <1>1, StatesAreOK, PTL DEF Spec, CollectionsTakeArrays

\* The objects the counted locals lead to are closed under their fields.
LEMMA ReachableIsClosed == Closed(Reachable)
<1>1. {id \in LiveIds : HoldingLocals(id) # {}} \subseteq Reachable
  BY DEF Reachable, Closed
<1>2. ASSUME NEW x \in Reachable, NEW y \in LiveIds, References(object, x, y) > 0
      PROVE  y \in Reachable
  <2> SUFFICES ASSUME NEW ids \in SUBSET LiveIds, Closed(ids)
               PROVE  y \in ids
    BY DEF Reachable
  <2>1. x \in ids
    BY DEF Reachable
  <2> QED
    BY <1>2, <2>1 DEF Closed
<1> QED
  BY <1>1, <1>2 DEF Closed

\* Each of them is held from among them.
LEMMA ReachableIsHeld ==
  ASSUME NEW y \in Reachable
  PROVE  \/ HoldingLocals(y) # {}
         \/ \E z \in Reachable : References(object, z, y) > 0
<1> SUFFICES ASSUME HoldingLocals(y) = {}, \A z \in Reachable : ~(References(object, z, y) > 0)
             PROVE  FALSE
  OBVIOUS
<1> DEFINE ids == Reachable \ {y}
<1>1. Reachable \subseteq LiveIds
  BY DEF Reachable
<1>2. Closed(Reachable)
  BY ReachableIsClosed
<1>3. Closed(ids)
  <2>1. {id \in LiveIds : HoldingLocals(id) # {}} \subseteq ids
    BY <1>2 DEF Closed
  <2>2. ASSUME NEW x \in ids, NEW w \in LiveIds, References(object, x, w) > 0
        PROVE  w \in ids
    BY <1>2, <2>2 DEF Closed
  <2> QED
    BY <2>1, <2>2 DEF Closed
<1>4. ids \in SUBSET LiveIds
  BY <1>1
<1>5. y \in ids
  <2> HIDE DEF ids
  <2> QED
    BY <1>3, <1>4 DEF Reachable
<1> QED
  BY <1>5

\* An object held once and reachable is held from among the reachable ones only.
LEMMA OneHolder ==
  ASSUME StateOK, vm = "running", NEW y \in Reachable, Holders(y) <= 1
  PROVE  /\ Holders(y) >= 1
         /\ \A z \in DOMAIN object \ Reachable : References(object, z, y) = 0
<1> DEFINE S == Places(object, frames, y)
<1>1. /\ IsFiniteSet(S) /\ Holders(y) = Cardinality(S)
      /\ object \in Seq(Object)
  BY HeapFacts, TopFacts, FinitePlaces, PlacesHere
<1>2. Reachable \subseteq DOMAIN object
  BY DEF Reachable, LiveIds, Ids
<1>3. ASSUME NEW z \in DOMAIN object, References(object, z, y) # 0
      PROVE  \E k \in DOMAIN object[z].slots : <<"field", z, k>> \in S
  <2>1. PICK k \in DOMAIN object[z].slots : object[z].slots[k].value = Reference(y)
    BY <1>1, <1>3, ReferencesFacts
  <2>2. <<"field", z, k>> \in FieldsOf(object, y)
    BY <2>1, InFieldsOf
  <2> QED
    BY <2>2 DEF Places
<1>4. PICK p : p \in S /\ \A z \in DOMAIN object \ Reachable : \A k : p # <<"field", z, k>>
  <2>1. CASE HoldingLocals(y) # {}
    <3>1. PICK p : p \in LocalsOf(frames, y)
      BY <2>1, PlacesHere
    <3>2. \E d, i : p = <<"local", d, i>>
      BY <3>1, InLocalsOf
    <3>3. p \in S
      BY <3>1 DEF Places
    <3> HIDE DEF S
    <3> QED
      BY <3>2, <3>3
  <2>2. CASE \E z \in Reachable : References(object, z, y) > 0
    <3>1. PICK z \in Reachable : References(object, z, y) > 0
      BY <2>2
    <3>2. PICK k : <<"field", z, k>> \in S
      <4>1. z \in DOMAIN object /\ References(object, z, y) # 0
        BY <1>2, <3>1
      <4> HIDE DEF S
      <4> QED
        BY <1>3, <4>1
    <3> HIDE DEF S
    <3> QED
      BY <3>2
  <2> QED
    BY <2>1, <2>2, ReachableIsHeld
<1> HIDE DEF S
<1>5. Cardinality(S) \in Nat /\ Cardinality(S) # 0
  BY <1>1, <1>4, FS_CardinalityType, FS_EmptySet
<1>6. Cardinality(S) = 1
  BY <1>1, <1>5
<1>7. \E r : S = {r}
  BY <1>1, <1>6, FS_Singleton
<1>8. S = {p}
  BY <1>4, <1>7
<1>9. \A z \in DOMAIN object \ Reachable : References(object, z, y) = 0
  BY <1>3, <1>4, <1>8
<1> QED
  BY <1>1, <1>6, <1>9

\* A walk from an object that is not reachable leaves the reachable ones as they are.
LEMMA WalksPassReachable ==
  ASSUME StateOK, vm = "running", \A y \in Reachable : Holders(y) <= 1,
         NEW h \in Left, NEW x \in DOMAIN object \ Reachable,
         NEW y \in Reachable, h.objects[y] = object[y]
  PROVE  Walked(h.objects, x)[y] = object[y]
<1> DEFINE q == h.objects
           n == Walked(q, x)
<1>1. /\ q \in Seq(Object) /\ Shrunk(object, q) /\ object \in Seq(Object)
  BY HeapFacts DEF Left, HeapOK
<1>2. DOMAIN q = DOMAIN object /\ Reachable \in SUBSET DOMAIN object
  BY <1>1, SeqFacts DEF Shrunk, Reachable, LiveIds, Ids
<1>3. \A z \in DOMAIN object \ Reachable, w \in Reachable : References(q, z, w) = 0
  <2> SUFFICES ASSUME NEW z \in DOMAIN object \ Reachable, NEW w \in Reachable
               PROVE  References(q, z, w) = 0
    OBVIOUS
  <2>1. References(object, z, w) = 0
    BY OneHolder
  <2>2. \A k \in DOMAIN object[z].slots : object[z].slots[k].value # Reference(w)
    BY <1>1, <2>1, ReferencesFacts
  <2>3. q[z].slots = <<>> \/ q[z].slots = object[z].slots
    BY <1>1, DestroyedFacts DEF Shrunk
  <2>4. DOMAIN << >> = {}
    OBVIOUS
  <2>5. \A k \in DOMAIN q[z].slots : q[z].slots[k].value # Reference(w)
    BY <2>2, <2>3, <2>4
  <2> HIDE DEF q
  <2> QED
    BY <1>1, <1>2, <2>5, ReferencesFacts
<1> HIDE DEF q
<1>4. \A d \in 0..Len(q) : Paths(q, x)[d][y] = 0
  <2>1. \A w \in Reachable : References(q, x, w) = 0
    BY <1>3
  <2>2. \A z \in DOMAIN q \ Reachable, w \in Reachable : References(q, z, w) = 0
    BY <1>2, <1>3
  <2>3. Reachable \in SUBSET DOMAIN q /\ x \in DOMAIN q
    BY <1>2
  <2> HIDE DEF Reachable
  <2> QED
    BY <1>1, <2>1, <2>2, <2>3, PathsAvoid
<1>5. Discount(q, x, y) = 0 /\ x # y /\ x \in DOMAIN q /\ y \in DOMAIN q
  <2>1. x \in DOMAIN q /\ y \in DOMAIN q /\ x # y
    BY <1>2
  <2> QED
    BY <1>1, <1>4, <2>1, DiscountFacts
<1>6. /\ n \in Seq(Object) /\ Len(n) = Len(q)
      /\ n[y].class = q[y].class /\ n[y].slots = q[y].slots
      /\ n[y].reference = q[y].reference - Discount(q, x, y)
  BY <1>1, <1>5, WalkedFacts
<1> HIDE DEF n
<1>7. n[y] \in Object /\ q[y] \in Object
  BY <1>1, <1>5, <1>6, SeqFacts
<1>8. n[y].reference = q[y].reference
  <2>1. q[y].reference \in Int
    BY <1>7, ObjectFacts
  <2> QED
    BY <1>5, <1>6, <2>1
<1>9. n[y] = q[y]
  <2>1. n[y] = [class |-> n[y].class, slots |-> n[y].slots, reference |-> n[y].reference]
    BY <1>7, ObjectFacts
  <2>2. q[y] = [class |-> q[y].class, slots |-> q[y].slots, reference |-> q[y].reference]
    BY <1>7, ObjectFacts
  <2> QED
    BY <1>6, <1>8, <2>1, <2>2
<1> QED
  BY <1>9 DEF n, q

\* The first collection of garbageCollector leaves what the counted locals lead to as it
\* is when every object is held at most once, in programs whose methods take no references.
THEOREM OnlyGarbageIsCollected ==
  ASSUME Arguments = 0
  PROVE  Spec => CollectsOnlyGarbage
<1> DEFINE A == /\ CollectGarbage /\ vm' = "running"
                /\ NothingFreed
                /\ \A id \in Ids : Holders(id) <= 1
                => \A id \in Reachable : object'[id] = object[id]
<1>1. StateOK /\ CountsCoverHolders /\ [Next]_vars => [A]_vars
  <2> SUFFICES ASSUME StateOK, CountsCoverHolders, CollectGarbage, vm' = "running", NothingFreed,
                      \A id \in Ids : Holders(id) <= 1
               PROVE  \A id \in Reachable : object'[id] = object[id]
    OBVIOUS
  <2>1. ~Finished /\ vm = "running"
    BY CollectionFacts DEF Finished
  <2>2. PICK stale, g : Run(g, stale) /\ g[Len(object)].vm = "running" /\ object' = g[Len(object)].objects
    BY <2>1, CollectionFacts
  <2> DEFINE N == Len(object)
             Same(h) == \A y \in Reachable : h.objects[y] = object[y]
             P == {x \in Nat : x <= N => Same(g[x])}
  <2>3. /\ N \in Nat /\ object \in Seq(Object) /\ DOMAIN object = 1..N
        /\ Reachable \subseteq DOMAIN object
        /\ \A y \in Reachable : Holders(y) <= 1
        /\ \A y \in DOMAIN object : Holders(y) \in Nat
    BY <2>1, HeapFacts, WorthIsInt DEF Reachable, LiveIds, Ids
  <2>4. 0 \in P
    BY <2>1, <2>2, RunFacts
  <2>5. ASSUME NEW x \in Nat, x \in P
        PROVE  x + 1 \in P
    <3> SUFFICES ASSUME x + 1 <= N PROVE Same(g[x + 1])
      OBVIOUS
    <3>1. x <= N /\ x + 1 \in DOMAIN object /\ (x + 1) - 1 = x
      BY <2>3
    <3>2. Same(g[x])
      BY <2>5, <3>1
    <3>3. /\ g[x] \in Left /\ g[x] \in HeapState /\ x + 1 \in DOMAIN g[x].objects
          /\ g[x + 1] = CollectOne(g[x], x + 1, stale)
      BY <2>1, <2>2, <3>1, RunFacts
    <3>4. \/ g[x + 1].objects = g[x].objects
          \/ /\ g[x + 1].objects = Walked(g[x].objects, x + 1)
             /\ ~(g[x].objects[x + 1].reference > 0)
      BY <3>3, CollectOneFacts
    <3>5. CASE g[x + 1].objects = g[x].objects
      BY <3>2, <3>5
    <3>6. CASE /\ g[x + 1].objects = Walked(g[x].objects, x + 1)
               /\ ~(g[x].objects[x + 1].reference > 0)
      <4>1. x + 1 \notin Reachable
        <5>1. SUFFICES ASSUME x + 1 \in Reachable PROVE FALSE
          OBVIOUS
        <5>2. object[x + 1].reference >= Holders(x + 1)
          BY <3>1 DEF CountsCoverHolders, Ids
        <5>3. Holders(x + 1) >= 1
          BY <2>1, <2>3, <5>1, OneHolder
        <5>4. object[x + 1].reference \in Int /\ Holders(x + 1) \in Nat
          BY <2>1, <2>3, <3>1, WorthIsInt
        <5>5. ~(object[x + 1].reference > 0)
          BY <3>2, <3>6, <5>1
        <5> QED
          BY <5>2, <5>3, <5>4, <5>5
      <4>2. x + 1 \in DOMAIN object \ Reachable
        BY <3>1, <4>1
      <4> HIDE DEF Reachable
      <4>3. \A y \in Reachable : Walked(g[x].objects, x + 1)[y] = object[y]
        BY <2>1, <2>3, <3>2, <3>3, <4>2, WalksPassReachable
      <4> QED
        BY <3>6, <4>3
    <3> QED
      BY <3>4, <3>5, <3>6
  <2>6. Nat \subseteq P
    <3> HIDE DEF P
    <3> QED
      BY <2>4, <2>5, NaturalsInSet
  <2>7. Same(g[N])
    BY <2>3, <2>6
  <2> QED
    BY <2>2, <2>7
<1> QED
  BY <1>1, StatesAreOK, CountsCover, PTL DEF Spec, CollectsOnlyGarbage

\* Where every object holds only younger ones, a walk climbs.
LEMMA PathsClimb ==
  ASSUME NEW objects \in Seq(Object), NEW x \in DOMAIN objects,
         \A z, y \in DOMAIN objects : References(objects, z, y) # 0 => z < y
  PROVE  \A d \in 0..Len(objects), y \in DOMAIN objects :
           Paths(objects, x)[d][y] # 0 => y >= x + d + 1
<1> DEFINE Id == DOMAIN objects
           N == Len(objects)
           paths == Paths(objects, x)
           P == {d \in Nat : d <= N => \A y \in Id : paths[d][y] # 0 => y >= x + d + 1}
<1>1. N \in Nat /\ Id = 1..N /\ x \in Nat
  BY SeqFacts
<1>2. IsFiniteSet(Id)
  <2>1. 1 \in Int /\ N \in Int
    BY <1>1
  <2> QED
    BY <1>1, <2>1, FS_Interval
<1>3. /\ \A d \in 0..N : paths[d] \in [Id -> Nat]
      /\ \A y \in Id : paths[0][y] = References(objects, x, y)
      /\ \A d \in Nat, y \in Id :
           d + 1 <= N =>
             paths[d + 1][y] = Total([z \in Id |-> paths[d][z] * References(objects, z, y)])
  BY PathsFacts
<1> HIDE DEF paths, N
<1>4. 0 \in P
  <2> SUFFICES ASSUME NEW y \in Id, paths[0][y] # 0 PROVE y >= x + 0 + 1
    OBVIOUS
  <2>1. x < y
    BY <1>3
  <2> QED
    BY <1>1, <2>1
<1>5. ASSUME NEW d \in Nat, d \in P
      PROVE  d + 1 \in P
  <2> SUFFICES ASSUME d + 1 <= N, NEW y \in Id, ~(y >= x + (d + 1) + 1)
               PROVE  paths[d + 1][y] = 0
    OBVIOUS
  <2> DEFINE f == [z \in Id |-> paths[d][z] * References(objects, z, y)]
  <2>1. d <= N /\ d \in 0..N
    BY <1>1
  <2>2. paths[d] \in [Id -> Nat] /\ paths[d + 1][y] = Total(f)
    BY <1>3, <2>1
  <2>3. \A z \in Id : f[z] = 0
    <3> SUFFICES ASSUME NEW z \in Id PROVE f[z] = 0
      OBVIOUS
    <3>1. f[z] = paths[d][z] * References(objects, z, y)
      OBVIOUS
    <3>2. paths[d][z] \in Nat /\ References(objects, z, y) \in Nat
      BY <2>2, ReferencesFacts
    <3>3. paths[d][z] = 0 \/ References(objects, z, y) = 0
      <4> SUFFICES ASSUME paths[d][z] # 0, References(objects, z, y) # 0 PROVE FALSE
        OBVIOUS
      <4>1. z >= x + d + 1 /\ z < y
        BY <1>5, <2>1
      <4> QED
        BY <1>1, <4>1
    <3> HIDE DEF f
    <3> QED
      BY <3>1, <3>2, <3>3
  <2>4. DOMAIN f = Id
    OBVIOUS
  <2> HIDE DEF f, Id
  <2>5. Total(f) = 0
    BY <1>2, <2>3, <2>4, TotalFacts
  <2> QED
    BY <2>2, <2>5
<1>6. Nat \subseteq P
  <2> HIDE DEF P
  <2> QED
    BY <1>4, <1>5, NaturalsInSet
<1>7. \A d \in 0..N : d \in Nat /\ d <= N
  BY <1>1
<1> QED
  BY <1>6, <1>7 DEF paths, N

\* The first collection of garbageCollector returns when no object holds itself or an
\* older one and no array of objects has a place.
THEOREM FirstCollectionComesBack == Spec => FirstCollectionReturns
<1> DEFINE A == /\ CollectGarbage
                /\ NothingFreed
                /\ \A x, y \in Ids : References(object, x, y) > 0 => x < y
                /\ \A x \in Ids : ~MeetsNull(object, x)
                => vm' = "running"
<1>1. StateOK /\ [Next]_vars => [A]_vars
  <2> SUFFICES ASSUME StateOK, CollectGarbage, NothingFreed,
                      \A x, y \in DOMAIN object : References(object, x, y) > 0 => x < y,
                      \A x \in DOMAIN object : ~MeetsNull(object, x)
               PROVE  vm' = "running"
    BY DEF Ids
  <2>1. vm = "running"
    BY CollectionFacts
  <2>2. PICK stale :
          LET heap == Collected(stale)
          IN  \/ heap.vm = "running" /\ UNCHANGED vm
              \/ heap.vm \in {"aborted", "undefined"}
    BY DEF CollectGarbage
  <2>3. PICK g : Run(g, stale) /\ Collected(stale) = g[Len(object)]
    BY <2>1, CollectionRuns
  <2> DEFINE N == Len(object)
             Ahead(x, h) == /\ h.vm = "running"
                            /\ \A y \in DOMAIN object : y > x => h.objects[y] # Destroyed
             P == {x \in Nat : x <= N => Ahead(x, g[x])}
  <2>4. N \in Nat /\ object \in Seq(Object) /\ DOMAIN object = 1..N
    BY <2>1, HeapFacts
  <2>5. \A z, y \in DOMAIN object : References(object, z, y) # 0 => z < y
    BY <2>4, ReferencesFacts
  <2>6. 0 \in P
    BY <2>1, <2>3, RunFacts DEF NothingFreed, Ids
  <2>7. ASSUME NEW x \in Nat, x \in P
        PROVE  x + 1 \in P
    <3> SUFFICES ASSUME x + 1 <= N PROVE Ahead(x + 1, g[x + 1])
      OBVIOUS
    <3> DEFINE h == g[x]
               q == h.objects
               s == x + 1
               n == g[s]
    <3>1. x <= N /\ s \in DOMAIN object /\ s > x /\ s \in Nat
      BY <2>4
    <3>2. Ahead(x, h)
      BY <2>7, <3>1
    <3>3. /\ h \in Left /\ h \in HeapState /\ s \in DOMAIN q /\ n = CollectOne(h, s, stale)
      BY <2>1, <2>3, <3>1, RunFacts
    <3>4. q \in Seq(Object) /\ HeapOK(q) /\ Shrunk(object, q)
      BY <3>3 DEF Left, HeapState
    <3>5. DOMAIN q = DOMAIN object /\ Len(q) = N
      BY <2>4, <3>4, SeqFacts DEF Shrunk
    <3> HIDE DEF h, q, s, n, N
    <3>6. \A z \in DOMAIN object : q[z].slots = <<>> \/ q[z].slots = object[z].slots
      BY <3>4, DestroyedFacts DEF Shrunk
    <3>7. q[s] # Destroyed
      BY <3>1, <3>2 DEF q
    <3>8. ~MeetsNull(q, s)
      <4>1. q[s].slots = object[s].slots
        BY <3>1, <3>4, <3>7 DEF Shrunk
      <4> QED
        BY <3>1, <4>1 DEF MeetsNull
    <3>9. \A z, y \in DOMAIN q : References(q, z, y) # 0 => z < y
      <4> SUFFICES ASSUME NEW z \in DOMAIN q, NEW y \in DOMAIN q, References(q, z, y) # 0
                   PROVE  z < y
        OBVIOUS
      <4>1. PICK k \in DOMAIN q[z].slots : q[z].slots[k].value = Reference(y)
        BY <3>4, ReferencesFacts
      <4>2. q[z].slots = object[z].slots
        <5>1. DOMAIN << >> = {}
          OBVIOUS
        <5> QED
          BY <3>5, <3>6, <4>1, <5>1
      <4>3. References(object, z, y) # 0
        BY <2>4, <3>5, <4>1, <4>2, ReferencesFacts
      <4> QED
        BY <2>5, <3>5, <4>3
    <3>10. \A d \in 0..N, y \in DOMAIN q : Paths(q, s)[d][y] # 0 => y >= s + d + 1
      BY <3>3, <3>4, <3>5, <3>9, PathsClimb
    <3>11. WalkIsDefined(q, s)
      <4>1. ASSUME NEW y \in DOMAIN q
            PROVE  Paths(q, s)[N][y] = 0
        <5>1. N \in 0..N /\ y \in 1..N
          BY <2>4, <3>5
        <5>2. ~(y >= s + N + 1)
          BY <2>4, <3>1, <5>1
        <5> QED
          BY <3>10, <5>1, <5>2
      <4>2. ASSUME NEW y \in DOMAIN q, q[y] = Destroyed, NEW d \in 0..N
            PROVE  Paths(q, s)[d][y] = 0
        <5>1. ~(y > x) /\ y \in Nat
          BY <2>4, <3>2, <3>5, <4>2 DEF q
        <5>2. ~(y >= s + d + 1)
          BY <2>4, <5>1 DEF s
        <5> QED
          BY <3>10, <5>2
      <4> QED
        BY <3>5, <4>1, <4>2 DEF WalkIsDefined
    <3>12. n.vm = "running" /\ (n.objects = q \/ n.objects = Walked(q, s))
      BY <3>2, <3>3, <3>7, <3>8, <3>11, CollectOneFacts DEF q
    <3>13. ASSUME NEW y \in DOMAIN object, y > s
           PROVE  n.objects[y] # Destroyed
      <4>1. y > x /\ y # s
        BY <2>4, <3>13 DEF s
      <4>2. q[y] # Destroyed
        BY <3>2, <4>1 DEF q
      <4>3. ObjectOK(q[y], q)
        BY <3>4, <3>5 DEF HeapOK
      <4>4. q[y].class # None
        BY <4>2, <4>3 DEF ObjectOK
      <4>5. Walked(q, s)[y].class = q[y].class
        BY <3>3, <3>4, <3>5, <4>1, WalkedFacts
      <4> QED
        BY <3>12, <4>2, <4>4, <4>5, DestroyedFacts
    <3> QED
      BY <3>12, <3>13 DEF n, s
  <2>8. Nat \subseteq P
    <3> HIDE DEF P
    <3> QED
      BY <2>6, <2>7, NaturalsInSet
  <2>9. Collected(stale).vm = "running"
    BY <2>3, <2>4, <2>8
  <2> HIDE DEF Collected
  <2> QED
    BY <2>1, <2>9, <2>2
<1> QED
  BY <1>1, StatesAreOK, PTL DEF Spec, FirstCollectionReturns
=============================================================================

-------------------------- MODULE ClassParserProofs --------------------------
(***************************************************************************)
(* The class file parser on every class file: of any classes, with any     *)
(* number of constants, members and attributes of any length.              *)
(*                                                                         *)
(* The argument is a map of the file: in every section the cursors of      *)
(* parseClass and parseAttributes stand where the layout puts the part     *)
(* that is read next, everything before it is something the parser knows,  *)
(* and the pool holds exactly the constants that were read, each at the    *)
(* slot the format numbers it with.                                        *)
(***************************************************************************)
EXTENDS ClassFile, Recursion, SequenceTheorems

-----------------------------------------------------------------------------
(* Offsets *)

LEMMA BeginsFacts ==
  ASSUME NEW sizes \in Seq(Nat), NEW at \in Nat
  PROVE  /\ Begins(sizes, at, 1) = at
         /\ \A k \in 1..(Len(sizes) + 1) : Begins(sizes, at, k) \in Nat
         /\ \A k \in 1..Len(sizes) : Begins(sizes, at, k + 1) = Begins(sizes, at, k) + sizes[k]
         /\ Begins(sizes, at, Len(sizes) + 1) = Ends(sizes, at)
         /\ Ends(sizes, at) \in Nat
<1> DEFINE n == Len(sizes)
<1>1. n \in Nat /\ \A k \in 1..n : sizes[k] \in Nat /\ sizes[k] \in Int
  OBVIOUS
<1> HIDE DEF n
<1>2. n \in 0..n /\ \A k \in 0..n : k <= n
  BY <1>1
<1>3. /\ SumTo(sizes, 0) = 0
      /\ \A k \in 0..n : SumTo(sizes, k) \in Nat
      /\ \A k \in 1..n : SumTo(sizes, k) = SumTo(sizes, k - 1) + sizes[k]
  BY <1>1, <1>2, SumToFacts, SumToGrows
<1>4. \A k \in 1..(n + 1) : k - 1 \in 0..n
  BY <1>1
<1>5. \A k \in 1..n : (k + 1) - 1 = k /\ k - 1 \in 0..n
  BY <1>1
<1>6. (n + 1) - 1 = n /\ 1 - 1 = 0
  BY <1>1
<1>7. \A k : Begins(sizes, at, k) = at + SumTo(sizes, k - 1)
  BY DEF Begins
<1>8. Ends(sizes, at) = at + SumTo(sizes, n)
  BY DEF Ends, n
<1>9. Begins(sizes, at, 1) = at
  BY <1>3, <1>6, <1>7
<1>10. \A k \in 1..(n + 1) : Begins(sizes, at, k) \in Nat
  BY <1>3, <1>4, <1>7
<1>11. \A k \in 1..n : Begins(sizes, at, k + 1) = Begins(sizes, at, k) + sizes[k]
  <2> SUFFICES ASSUME NEW k \in 1..n
               PROVE  Begins(sizes, at, k + 1) = Begins(sizes, at, k) + sizes[k]
    OBVIOUS
  <2>1. SumTo(sizes, k) = SumTo(sizes, k - 1) + sizes[k] /\ SumTo(sizes, k - 1) \in Nat
        /\ sizes[k] \in Nat
    BY <1>1, <1>3, <1>5
  <2> QED
    BY <1>5, <1>7, <2>1
<1>12. Begins(sizes, at, n + 1) = Ends(sizes, at) /\ Ends(sizes, at) \in Nat
  BY <1>2, <1>3, <1>6, <1>7, <1>8
<1> QED
  BY <1>9, <1>10, <1>11, <1>12 DEF n

\* Where no part is empty, different parts begin at different offsets.
LEMMA BeginsApart ==
  ASSUME NEW sizes \in Seq(Nat), NEW at \in Nat, \A k \in 1..Len(sizes) : sizes[k] >= 1
  PROVE  \A j, k \in 1..(Len(sizes) + 1) :
           j < k => Begins(sizes, at, j) < Begins(sizes, at, k)
<1> DEFINE n == Len(sizes)
<1>1. n \in Nat /\ \A k \in 1..n : sizes[k] \in Nat /\ sizes[k] >= 1
  OBVIOUS
<1>2. /\ \A k \in 1..(n + 1) : Begins(sizes, at, k) \in Nat
      /\ \A k \in 1..n : Begins(sizes, at, k + 1) = Begins(sizes, at, k) + sizes[k]
  BY BeginsFacts
<1> HIDE DEF n
<1> SUFFICES ASSUME NEW j \in 1..(n + 1), NEW k \in 1..(n + 1), j < k
             PROVE  Begins(sizes, at, j) < Begins(sizes, at, k)
  BY DEF n
<1> DEFINE S == {d \in Nat : j + d + 1 \in 1..(n + 1) =>
                               Begins(sizes, at, j) < Begins(sizes, at, j + d + 1)}
<1>3. 0 \in S
  <2> SUFFICES ASSUME j + 0 + 1 \in 1..(n + 1)
               PROVE  Begins(sizes, at, j) < Begins(sizes, at, j + 0 + 1)
    OBVIOUS
  <2>1. j \in 1..n /\ j + 0 + 1 = j + 1
    BY <1>1
  <2> QED
    BY <1>1, <1>2, <2>1, SMTT(20)
<1>4. ASSUME NEW d \in Nat, d \in S
      PROVE  d + 1 \in S
  <2> SUFFICES ASSUME j + (d + 1) + 1 \in 1..(n + 1)
               PROVE  Begins(sizes, at, j) < Begins(sizes, at, j + (d + 1) + 1)
    OBVIOUS
  <2> DEFINE m == j + d + 1
  <2>1. m \in 1..n /\ m \in 1..(n + 1) /\ j + (d + 1) + 1 = m + 1
    BY <1>1
  <2>2. Begins(sizes, at, j) < Begins(sizes, at, m)
    BY <1>4, <2>1
  <2> HIDE DEF m
  <2>3. Begins(sizes, at, m + 1) = Begins(sizes, at, m) + sizes[m]
    BY <1>2, <2>1
  <2>4. /\ Begins(sizes, at, j) \in Nat /\ Begins(sizes, at, m) \in Nat
        /\ sizes[m] \in Nat /\ sizes[m] >= 1
    BY <1>1, <1>2, <2>1
  <2>5. Begins(sizes, at, j) < Begins(sizes, at, m + 1)
    BY <2>2, <2>3, <2>4
  <2> QED
    BY <2>1, <2>5
<1>5. Nat \subseteq S
  <2> HIDE DEF S
  <2> QED
    BY <1>3, <1>4, NaturalsInSet
<1>6. k - j - 1 \in Nat /\ j + (k - j - 1) + 1 = k
  BY <1>1
<1>7. k - j - 1 \in S
  BY <1>5, <1>6
<1> QED
  BY <1>6, <1>7

-----------------------------------------------------------------------------
(* Sizes *)

LEMMA ElementsOfSequence ==
  ASSUME NEW S, NEW s \in Seq(S)
  PROVE  Len(s) \in Nat /\ DOMAIN s = 1..Len(s) /\ \A k \in 1..Len(s) : s[k] \in S
OBVIOUS

LEMMA SequenceOfNaturals ==
  ASSUME NEW n \in Nat, NEW f, DOMAIN f = 1..n, f = [k \in 1..n |-> f[k]],
         \A k \in 1..n : f[k] \in Nat
  PROVE  f \in Seq(Nat) /\ Len(f) = n
<1>1. f \in [1..n -> Nat]
  OBVIOUS
<1> QED
  BY <1>1

LEMMA PlainSizesFacts ==
  ASSUME NEW as \in Seq(PlainAttribute)
  PROVE  /\ PlainSizes(as) \in Seq(Nat) /\ Len(PlainSizes(as)) = Len(as)
         /\ \A k \in 1..Len(as) : PlainSizes(as)[k] = 6 + as[k].length /\ as[k].length \in Nat
                                  /\ as[k].name # "Code"
<1> DEFINE n == Len(as)
<1>1. n \in Nat /\ DOMAIN as = 1..n /\ \A k \in 1..n : as[k].length \in Nat /\ as[k].name # "Code"
  <2>1. n \in Nat /\ DOMAIN as = 1..n /\ \A k \in 1..n : as[k] \in PlainAttribute
    BY ElementsOfSequence
  <2>2. \A a \in PlainAttribute : a.length \in Nat /\ a.name # "Code"
    BY DEF PlainAttribute
  <2> QED
    BY <2>1, <2>2
<1>2. PlainSizes(as) = [k \in 1..n |-> 6 + as[k].length]
  BY <1>1 DEF PlainSizes
<1> HIDE DEF n
<1>3. \A k \in 1..n : 6 + as[k].length \in Nat
  <2>1. \A v \in Nat : 6 + v \in Nat
    OBVIOUS
  <2> QED
    BY <1>1, <2>1
<1>4. PlainSizes(as) \in Seq(Nat) /\ Len(PlainSizes(as)) = n
  <2> DEFINE f == PlainSizes(as)
  <2>1. DOMAIN f = 1..n /\ f = [k \in 1..n |-> f[k]] /\ \A k \in 1..n : f[k] \in Nat
    BY <1>2, <1>3
  <2> HIDE DEF f
  <2>2. f \in Seq(Nat) /\ Len(f) = n
    BY <1>1, <2>1, SequenceOfNaturals
  <2> QED
    BY <2>2 DEF f
<1> QED
  BY <1>1, <1>2, <1>4 DEF n

LEMMA CodeFacts ==
  ASSUME NEW a \in CodeAttribute
  PROVE  /\ a.name = "Code" /\ a.length \in Nat /\ a.entries \in Nat
         /\ a.inner \in Seq(PlainAttribute)
         /\ CodeSize(a) = 12 + a.length + 8 * a.entries /\ CodeSize(a) \in Nat
         /\ BodySize(a) = Ends(PlainSizes(a.inner), CodeSize(a)) /\ BodySize(a) \in Nat
<1>1. a.name = "Code" /\ a.length \in Nat /\ a.entries \in Nat /\ a.inner \in Seq(PlainAttribute)
  BY DEF CodeAttribute
<1>2. CodeSize(a) = 12 + a.length + 8 * a.entries /\ CodeSize(a) \in Nat
  BY <1>1 DEF CodeSize
<1>3. BodySize(a) = Ends(PlainSizes(a.inner), CodeSize(a))
  BY <1>1 DEF BodySize
<1>4. Ends(PlainSizes(a.inner), CodeSize(a)) \in Nat
  BY <1>1, <1>2, PlainSizesFacts, BeginsFacts
<1> QED
  BY <1>1, <1>2, <1>3, <1>4

LEMMA AttributeFacts ==
  ASSUME NEW a \in PlainAttribute \cup CodeAttribute
  PROVE  /\ a.length \in Nat /\ BodySize(a) \in Nat
         /\ a.name = "Code" => a \in CodeAttribute
         /\ a.name # "Code" => BodySize(a) = a.length
<1>1. CASE a \in PlainAttribute
  BY <1>1 DEF PlainAttribute, BodySize
<1>2. CASE a \in CodeAttribute
  BY <1>2, CodeFacts
<1> QED
  BY <1>1, <1>2

LEMMA AttributeSizesFacts ==
  ASSUME NEW as \in AttributeList
  PROVE  /\ AttributeSizes(as) \in Seq(Nat) /\ Len(AttributeSizes(as)) = Len(as)
         /\ DOMAIN as = 1..Len(as) /\ Len(as) \in Nat
         /\ \A k \in 1..Len(as) : /\ as[k] \in PlainAttribute \cup CodeAttribute
                                  /\ AttributeSizes(as)[k] = 6 + BodySize(as[k])
<1> DEFINE n == Len(as)
<1>1. n \in Nat /\ DOMAIN as = 1..n /\ \A k \in 1..n : as[k] \in PlainAttribute \cup CodeAttribute
  <2> DEFINE S == PlainAttribute \cup CodeAttribute
  <2>1. as \in Seq(S)
    BY DEF AttributeList
  <2> HIDE DEF S
  <2>2. n \in Nat /\ DOMAIN as = 1..n /\ \A k \in 1..n : as[k] \in S
    BY <2>1, ElementsOfSequence
  <2> QED
    BY <2>2 DEF S
<1>2. AttributeSizes(as) = [k \in 1..n |-> 6 + BodySize(as[k])]
  BY <1>1 DEF AttributeSizes
<1> HIDE DEF n
<1>3. \A k \in 1..n : 6 + BodySize(as[k]) \in Nat
  <2>1. \A v \in Nat : 6 + v \in Nat
    OBVIOUS
  <2>2. \A k \in 1..n : BodySize(as[k]) \in Nat
    BY <1>1, AttributeFacts
  <2> QED
    BY <2>1, <2>2
<1>4. AttributeSizes(as) \in Seq(Nat) /\ Len(AttributeSizes(as)) = n
  <2> DEFINE f == AttributeSizes(as)
  <2>1. DOMAIN f = 1..n /\ f = [k \in 1..n |-> f[k]] /\ \A k \in 1..n : f[k] \in Nat
    BY <1>2, <1>3
  <2> HIDE DEF f
  <2>2. f \in Seq(Nat) /\ Len(f) = n
    BY <1>1, <2>1, SequenceOfNaturals
  <2> QED
    BY <2>2 DEF f
<1> QED
  BY <1>1, <1>2, <1>4 DEF n

LEMMA MemberSizesFacts ==
  ASSUME NEW members \in Seq(AttributeList)
  PROVE  /\ MemberSizes(members) \in Seq(Nat) /\ Len(MemberSizes(members)) = Len(members)
         /\ DOMAIN members = 1..Len(members) /\ Len(members) \in Nat
         /\ \A k \in 1..Len(members) :
              /\ members[k] \in AttributeList
              /\ MemberSizes(members)[k] = Ends(AttributeSizes(members[k]), 8)
<1> DEFINE n == Len(members)
<1>1. n \in Nat /\ DOMAIN members = 1..n /\ \A k \in 1..n : members[k] \in AttributeList
  BY ElementsOfSequence
<1>2. MemberSizes(members) = [k \in 1..n |-> Ends(AttributeSizes(members[k]), 8)]
  BY <1>1 DEF MemberSizes
<1> HIDE DEF n
<1>3. \A k \in 1..n : Ends(AttributeSizes(members[k]), 8) \in Nat
  BY <1>1, AttributeSizesFacts, BeginsFacts
<1>4. MemberSizes(members) \in Seq(Nat) /\ Len(MemberSizes(members)) = n
  <2> DEFINE f == MemberSizes(members)
  <2>1. DOMAIN f = 1..n /\ f = [k \in 1..n |-> f[k]] /\ \A k \in 1..n : f[k] \in Nat
    BY <1>2, <1>3
  <2> HIDE DEF f
  <2>2. f \in Seq(Nat) /\ Len(f) = n
    BY <1>1, <2>1, SequenceOfNaturals
  <2> QED
    BY <2>2 DEF f
<1> QED
  BY <1>1, <1>2, <1>4 DEF n

\* The end of a list moves with its beginning.
LEMMA EndsShift ==
  ASSUME NEW sizes \in Seq(Nat), NEW at \in Nat, NEW d \in Nat
  PROVE  Ends(sizes, at + d) = at + Ends(sizes, d)
<1>1. Ends(sizes, 0) \in Nat /\ Ends(sizes, 0) = 0 + SumTo(sizes, Len(sizes))
  BY BeginsFacts DEF Ends
<1>2. SumTo(sizes, Len(sizes)) \in Nat
  <2> DEFINE n == Len(sizes)
  <2>1. n \in Nat /\ \A k \in 1..n : sizes[k] \in Nat
    OBVIOUS
  <2> HIDE DEF n
  <2>2. n \in 0..n /\ n <= n
    BY <2>1
  <2>3. SumTo(sizes, n) \in Nat
    BY <2>1, <2>2, SumToGrows
  <2> QED
    BY <2>3 DEF n
<1> QED
  BY <1>2 DEF Ends

\* The parts of a list follow each other, and where none is empty they begin apart.
LEMMA ConstantSizesFacts ==
  ASSUME NEW cs \in Seq(ConstantEntry)
  PROVE  /\ Len(cs) \in Nat /\ DOMAIN cs = 1..Len(cs)
         /\ \A k \in 1..Len(cs) : /\ cs[k].tag \in STRING /\ cs[k].length \in Nat
                                  /\ cs[k].refs \in Seq(Nat)
         /\ ConstantSizes(cs) \in Seq(Nat) /\ Len(ConstantSizes(cs)) = Len(cs)
         /\ \A k \in 1..Len(cs) : /\ ConstantSizes(cs)[k] = ConstantSize(cs[k])
                                  /\ ConstantSizes(cs)[k] >= 1
         /\ SlotsOf(cs) \in Seq(Nat) /\ Len(SlotsOf(cs)) = Len(cs)
         /\ \A k \in 1..Len(cs) : /\ SlotsOf(cs)[k] = IF Wide(cs[k]) THEN 2 ELSE 1
                                  /\ SlotsOf(cs)[k] >= 1
<1> DEFINE n == Len(cs)
<1>1. n \in Nat /\ DOMAIN cs = 1..n /\ \A k \in 1..n : cs[k] \in ConstantEntry
  BY ElementsOfSequence
<1>2. \A c \in ConstantEntry : /\ c.tag \in STRING /\ c.length \in Nat /\ c.refs \in Seq(Nat)
  BY DEF ConstantEntry
<1>3. \A c \in ConstantEntry : ConstantSize(c) \in Nat /\ ConstantSize(c) >= 1
  <2> SUFFICES ASSUME NEW c \in ConstantEntry
               PROVE  ConstantSize(c) \in Nat /\ ConstantSize(c) >= 1
    OBVIOUS
  <2>1. c.length \in Nat
    BY <1>2
  <2> QED
    BY <2>1 DEF ConstantSize, Wide
<1>4. /\ ConstantSizes(cs) = [k \in 1..n |-> ConstantSize(cs[k])]
      /\ SlotsOf(cs) = [k \in 1..n |-> IF Wide(cs[k]) THEN 2 ELSE 1]
  BY <1>1 DEF ConstantSizes, SlotsOf
<1> HIDE DEF n
<1>5. ConstantSizes(cs) \in Seq(Nat) /\ Len(ConstantSizes(cs)) = n
  <2> DEFINE f == ConstantSizes(cs)
  <2>1. DOMAIN f = 1..n /\ f = [k \in 1..n |-> f[k]]
    BY <1>4
  <2>2. \A k \in 1..n : f[k] = ConstantSize(cs[k])
    BY <1>4
  <2>3. \A k \in 1..n : f[k] \in Nat
    BY <1>1, <1>3, <2>2
  <2> HIDE DEF f
  <2>4. f \in Seq(Nat) /\ Len(f) = n
    BY <1>1, <2>1, <2>3, SequenceOfNaturals
  <2> QED
    BY <2>4 DEF f
<1>6. SlotsOf(cs) \in Seq(Nat) /\ Len(SlotsOf(cs)) = n
  <2> DEFINE f == SlotsOf(cs)
  <2>1. DOMAIN f = 1..n /\ f = [k \in 1..n |-> f[k]] /\ \A k \in 1..n : f[k] \in Nat
    BY <1>4
  <2> HIDE DEF f
  <2>2. f \in Seq(Nat) /\ Len(f) = n
    BY <1>1, <2>1, SequenceOfNaturals
  <2> QED
    BY <2>2 DEF f
<1>7. \A k \in 1..n : /\ ConstantSizes(cs)[k] = ConstantSize(cs[k])
                      /\ ConstantSizes(cs)[k] >= 1
  BY <1>1, <1>3, <1>4
<1>8. \A k \in 1..n : /\ SlotsOf(cs)[k] = IF Wide(cs[k]) THEN 2 ELSE 1
                      /\ SlotsOf(cs)[k] >= 1
  BY <1>4
<1>9. \A k \in 1..n : /\ cs[k].tag \in STRING /\ cs[k].length \in Nat
                      /\ cs[k].refs \in Seq(Nat)
  BY <1>1, <1>2
<1> QED
  BY <1>1, <1>5, <1>6, <1>7, <1>8, <1>9 DEF n

\* Slots are numbered from 1, a long or double takes two, and no two constants share one.
LEMMA SlotFacts ==
  ASSUME NEW cs \in Seq(ConstantEntry)
  PROVE  /\ SlotNumber(cs, 1) = 1
         /\ \A k \in 1..(Len(cs) + 1) : SlotNumber(cs, k) \in Nat /\ SlotNumber(cs, k) >= 1
         /\ \A k \in 1..Len(cs) :
              SlotNumber(cs, k + 1) = SlotNumber(cs, k) + (IF Wide(cs[k]) THEN 2 ELSE 1)
         /\ \A j, k \in 1..(Len(cs) + 1) : j < k => SlotNumber(cs, j) < SlotNumber(cs, k)
<1> DEFINE w == SlotsOf(cs)
           n == Len(cs)
<1>1. /\ n \in Nat /\ w \in Seq(Nat) /\ Len(w) = n
      /\ \A k \in 1..n : w[k] = (IF Wide(cs[k]) THEN 2 ELSE 1) /\ w[k] >= 1
  BY ConstantSizesFacts
<1>2. \A k : SlotNumber(cs, k) = Begins(w, 1, k)
  BY DEF SlotNumber
<1> HIDE DEF w, n
<1>3. /\ Begins(w, 1, 1) = 1
      /\ \A k \in 1..(n + 1) : Begins(w, 1, k) \in Nat
      /\ \A k \in 1..n : Begins(w, 1, k + 1) = Begins(w, 1, k) + w[k]
  BY <1>1, BeginsFacts
<1>4. \A j, k \in 1..(n + 1) : j < k => Begins(w, 1, j) < Begins(w, 1, k)
  <2>1. \A k \in 1..Len(w) : w[k] >= 1
    BY <1>1
  <2> QED
    BY <1>1, <2>1, BeginsApart
<1>5. \A k \in 1..(n + 1) : SlotNumber(cs, k) >= 1
  <2> SUFFICES ASSUME NEW k \in 1..(n + 1) PROVE SlotNumber(cs, k) >= 1
    OBVIOUS
  <2>1. CASE k = 1
    BY <1>2, <1>3, <2>1
  <2>2. CASE k # 1
    <3>1. 1 \in 1..(n + 1) /\ 1 < k
      BY <1>1, <2>2
    <3>2. Begins(w, 1, 1) < Begins(w, 1, k)
      BY <1>4, <3>1
    <3> QED
      BY <1>2, <1>3, <3>2
  <2> QED
    BY <2>1, <2>2
<1>6. \A k \in 1..n :
        SlotNumber(cs, k + 1) = SlotNumber(cs, k) + (IF Wide(cs[k]) THEN 2 ELSE 1)
  BY <1>1, <1>2, <1>3
<1>7. \A j, k \in 1..(n + 1) : j < k => SlotNumber(cs, j) < SlotNumber(cs, k)
  BY <1>2, <1>4
<1>8. SlotNumber(cs, 1) = 1 /\ \A k \in 1..(n + 1) : SlotNumber(cs, k) \in Nat
  BY <1>2, <1>3
<1> QED
  BY <1>5, <1>6, <1>7, <1>8 DEF n

\* A slot is a constant's, or the one behind a long or double.
LEMMA SlotIsSomeones ==
  ASSUME NEW cs \in Seq(ConstantEntry),
         NEW slot \in 1..(SlotNumber(cs, Len(cs) + 1) - 1)
  PROVE  \E k \in 1..Len(cs) :
           slot = SlotNumber(cs, k) \/ (Wide(cs[k]) /\ slot = SlotNumber(cs, k) + 1)
<1> DEFINE w == SlotsOf(cs)
           n == Len(cs)
<1>1. /\ n \in Nat
      /\ \A k \in 1..n : w[k] = (IF Wide(cs[k]) THEN 2 ELSE 1) /\ w[k] \in Nat
  BY ConstantSizesFacts
<1>2. \A k : SlotNumber(cs, k) = 1 + SumTo(w, k - 1)
  BY DEF SlotNumber, Begins
<1>3. slot \in 1..SumTo(w, n)
  <2>1. SumTo(w, n) \in Nat
    <3> HIDE DEF w, n
    <3>1. n \in 0..n /\ n <= n
      BY <1>1
    <3> QED
      BY <1>1, <3>1, SumToGrows
  <2>2. (n + 1) - 1 = n
    BY <1>1
  <2>3. SlotNumber(cs, n + 1) - 1 = SumTo(w, n)
    BY <1>2, <2>1, <2>2
  <2> HIDE DEF w
  <2> QED
    BY <2>3
<1> HIDE DEF w
<1>4. PICK k \in 1..n : \E i \in 1..w[k] : slot = SumTo(w, k - 1) + i
  <2> HIDE DEF n
  <2> QED
    BY <1>1, <1>3, SumToLocates
<1>5. PICK i \in 1..w[k] : slot = SumTo(w, k - 1) + i
  BY <1>4
<1>6. SumTo(w, k - 1) \in Nat
  <2> HIDE DEF n
  <2>1. k - 1 \in 0..n /\ k - 1 <= k - 1
    BY <1>1
  <2> QED
    BY <1>1, <2>1, SumToGrows
<1>7. SlotNumber(cs, k) = 1 + SumTo(w, k - 1)
  BY <1>2
<1>8. CASE Wide(cs[k])
  <2>1. i = 1 \/ i = 2
    BY <1>1, <1>8
  <2>2. slot = SlotNumber(cs, k) \/ slot = SlotNumber(cs, k) + 1
    BY <1>5, <1>6, <1>7, <2>1
  <2> QED
    BY <1>8, <2>2
<1>9. CASE ~Wide(cs[k])
  <2>1. i = 1
    BY <1>1, <1>9
  <2>2. slot = SlotNumber(cs, k)
    BY <1>5, <1>6, <1>7, <2>1
  <2> QED
    BY <2>2
<1> QED
  BY <1>8, <1>9

-----------------------------------------------------------------------------
(* A class and its file *)

LEMMA ClassFacts ==
  ASSUME NEW cls \in Classes
  PROVE  /\ cls.constants \in Seq(ConstantEntry) /\ RefsInRange(cls.constants)
         /\ cls.interfaces \in Nat
         /\ cls.fields \in Seq(AttributeList) /\ cls.methods \in Seq(AttributeList)
         /\ cls.attributes \in AttributeList
         /\ IsClassFile(FileOf(cls), cls)
<1>1. cls \in ClassTree /\ RefsInRange(cls.constants) /\ IsClassFile(FileOf(cls), cls)
  BY ClassFileAssumption
<1> QED
  BY <1>1 DEF ClassTree

LEMMA MembersAt ==
  ASSUME NEW members \in Seq(AttributeList), NEW at \in Nat
  PROVE  /\ MemberAt(members, at, 1) = at + 2
         /\ \A k \in 1..(Len(members) + 1) : MemberAt(members, at, k) \in Nat
         /\ \A k \in 1..Len(members) :
              MemberAt(members, at, k + 1)
                = Ends(AttributeSizes(members[k]), MemberAt(members, at, k) + 8)
         /\ MemberAt(members, at, Len(members) + 1) = Ends(MemberSizes(members), at + 2)
         /\ Ends(MemberSizes(members), at + 2) \in Nat
<1> DEFINE w == MemberSizes(members)
           n == Len(members)
<1>1. /\ w \in Seq(Nat) /\ Len(w) = n /\ n \in Nat /\ at + 2 \in Nat
      /\ \A k \in 1..n : members[k] \in AttributeList
                         /\ w[k] = Ends(AttributeSizes(members[k]), 8)
  BY MemberSizesFacts
<1>2. \A k : MemberAt(members, at, k) = Begins(w, at + 2, k)
  BY DEF MemberAt
<1> HIDE DEF w, n
<1>3. /\ Begins(w, at + 2, 1) = at + 2
      /\ \A k \in 1..(n + 1) : Begins(w, at + 2, k) \in Nat
      /\ \A k \in 1..n : Begins(w, at + 2, k + 1) = Begins(w, at + 2, k) + w[k]
      /\ Begins(w, at + 2, n + 1) = Ends(w, at + 2)
      /\ Ends(w, at + 2) \in Nat
  BY <1>1, BeginsFacts
<1>4. ASSUME NEW k \in 1..n
      PROVE  MemberAt(members, at, k + 1)
               = Ends(AttributeSizes(members[k]), MemberAt(members, at, k) + 8)
  <2>1. AttributeSizes(members[k]) \in Seq(Nat) /\ MemberAt(members, at, k) \in Nat
    <3>1. k \in 1..(n + 1)
      BY <1>1
    <3> QED
      BY <1>1, <1>2, <1>3, <3>1, AttributeSizesFacts
  <2>2. Ends(AttributeSizes(members[k]), MemberAt(members, at, k) + 8)
          = MemberAt(members, at, k) + Ends(AttributeSizes(members[k]), 8)
    BY <2>1, EndsShift
  <2> QED
    BY <1>1, <1>2, <1>3, <2>2
<1> QED
  BY <1>2, <1>3, <1>4 DEF w, n

LEMMA AttributesAtFacts ==
  ASSUME NEW as \in AttributeList, NEW at \in Nat
  PROVE  /\ Len(as) \in Nat /\ DOMAIN as = 1..Len(as)
         /\ Begins(AttributeSizes(as), at, 1) = at
         /\ \A k \in 1..(Len(as) + 1) : Begins(AttributeSizes(as), at, k) \in Nat
         /\ \A k \in 1..Len(as) :
              /\ as[k] \in PlainAttribute \cup CodeAttribute
              /\ Begins(AttributeSizes(as), at, k + 1)
                   = Begins(AttributeSizes(as), at, k) + 6 + BodySize(as[k])
         /\ Begins(AttributeSizes(as), at, Len(as) + 1) = Ends(AttributeSizes(as), at)
         /\ Ends(AttributeSizes(as), at) \in Nat
<1> DEFINE w == AttributeSizes(as)
           n == Len(as)
<1>1. /\ w \in Seq(Nat) /\ Len(w) = n /\ n \in Nat /\ DOMAIN as = 1..n
      /\ \A k \in 1..n : as[k] \in PlainAttribute \cup CodeAttribute /\ w[k] = 6 + BodySize(as[k])
  BY AttributeSizesFacts
<1> HIDE DEF w, n
<1>2. /\ Begins(w, at, 1) = at
      /\ \A k \in 1..(n + 1) : Begins(w, at, k) \in Nat
      /\ \A k \in 1..n : Begins(w, at, k + 1) = Begins(w, at, k) + w[k]
      /\ Begins(w, at, n + 1) = Ends(w, at)
      /\ Ends(w, at) \in Nat
  BY <1>1, BeginsFacts
<1>3. ASSUME NEW k \in 1..n
      PROVE  Begins(w, at, k + 1) = Begins(w, at, k) + 6 + BodySize(as[k])
  <2>1. k \in 1..(n + 1)
    BY <1>1
  <2>2. as[k] \in PlainAttribute \cup CodeAttribute
    BY <1>1
  <2>3. BodySize(as[k]) \in Nat
    BY <2>2, AttributeFacts
  <2>4. Begins(w, at, k) \in Nat
    BY <1>2, <2>1
  <2>5. Begins(w, at, k + 1) = Begins(w, at, k) + (6 + BodySize(as[k]))
    BY <1>1, <1>2
  <2>6. \A x, y \in Nat : x + (6 + y) = x + 6 + y
    OBVIOUS
  <2>7. Begins(w, at, k) + (6 + BodySize(as[k])) = Begins(w, at, k) + 6 + BodySize(as[k])
    BY <2>3, <2>4, <2>6
  <2> QED
    BY <2>5, <2>7
<1> QED
  BY <1>1, <1>2, <1>3 DEF w, n

LEMMA InnerAt ==
  ASSUME NEW a \in CodeAttribute, NEW at \in Nat
  PROVE  /\ a.inner \in Seq(PlainAttribute) /\ Len(a.inner) \in Nat
         /\ DOMAIN a.inner = 1..Len(a.inner)
         /\ Begins(PlainSizes(a.inner), at, 1) = at
         /\ \A k \in 1..(Len(a.inner) + 1) : Begins(PlainSizes(a.inner), at, k) \in Nat
         /\ \A k \in 1..Len(a.inner) :
              /\ a.inner[k].name # "Code"
              /\ Begins(PlainSizes(a.inner), at, k + 1)
                   = Begins(PlainSizes(a.inner), at, k) + 6 + a.inner[k].length
<1> DEFINE as == a.inner
           w == PlainSizes(as)
           n == Len(as)
<1>1. as \in Seq(PlainAttribute) /\ n \in Nat /\ DOMAIN as = 1..n
  BY CodeFacts, ElementsOfSequence
<1>2. /\ w \in Seq(Nat) /\ Len(w) = n
      /\ \A k \in 1..n : w[k] = 6 + as[k].length /\ as[k].length \in Nat /\ as[k].name # "Code"
  BY <1>1, PlainSizesFacts
<1> HIDE DEF w, n
<1>3. /\ Begins(w, at, 1) = at
      /\ \A k \in 1..(n + 1) : Begins(w, at, k) \in Nat
      /\ \A k \in 1..n : Begins(w, at, k + 1) = Begins(w, at, k) + w[k]
  BY <1>1, <1>2, BeginsFacts
<1>4. ASSUME NEW k \in 1..n
      PROVE  Begins(w, at, k + 1) = Begins(w, at, k) + 6 + as[k].length
  <2>1. k \in 1..(n + 1)
    BY <1>1
  <2>2. Begins(w, at, k) \in Nat /\ as[k].length \in Nat
    BY <1>2, <1>3, <2>1
  <2>3. Begins(w, at, k + 1) = Begins(w, at, k) + (6 + as[k].length)
    BY <1>2, <1>3
  <2> QED
    BY <2>2, <2>3
<1> QED
  BY <1>1, <1>2, <1>3, <1>4 DEF w, n

\* The tables of a class stand one behind the other.
LEMMA TablesAt ==
  ASSUME NEW cls \in Classes
  PROVE  /\ ConstantAt(cls, 1) = 10
         /\ \A k \in 1..(Len(cls.constants) + 1) : ConstantAt(cls, k) \in Nat
         /\ \A k \in 1..Len(cls.constants) :
              ConstantAt(cls, k + 1) = ConstantAt(cls, k) + ConstantSize(cls.constants[k])
         /\ \A j, k \in 1..(Len(cls.constants) + 1) :
              j < k => ConstantAt(cls, j) < ConstantAt(cls, k)
         /\ ConstantAt(cls, Len(cls.constants) + 1) = ClassAt(cls)
         /\ ClassAt(cls) \in Nat /\ InterfacesAt(cls) \in Nat /\ FieldsAt(cls) \in Nat
         /\ MethodsAt(cls) \in Nat /\ AttributesAt(cls) \in Nat
<1> DEFINE cs == cls.constants
           w == ConstantSizes(cs)
           n == Len(cs)
<1>1. cs \in Seq(ConstantEntry)
  BY ClassFacts
<1>2. /\ n \in Nat /\ w \in Seq(Nat) /\ Len(w) = n
      /\ \A k \in 1..n : w[k] = ConstantSize(cs[k]) /\ w[k] >= 1
  <2> HIDE DEF cs
  <2> QED
    BY <1>1, ConstantSizesFacts
<1>3. (\A k : ConstantAt(cls, k) = Begins(w, 10, k)) /\ ClassAt(cls) = Ends(w, 10)
  BY DEF ConstantAt, ClassAt
<1> HIDE DEF w, n
<1>4. /\ Begins(w, 10, 1) = 10
      /\ \A k \in 1..(n + 1) : Begins(w, 10, k) \in Nat
      /\ \A k \in 1..n : Begins(w, 10, k + 1) = Begins(w, 10, k) + w[k]
      /\ Begins(w, 10, n + 1) = Ends(w, 10)
      /\ Ends(w, 10) \in Nat
  <2>1. w \in Seq(Nat) /\ Len(w) = n /\ 10 \in Nat
    BY <1>2
  <2>2. /\ Begins(w, 10, 1) = 10
        /\ \A k \in 1..(Len(w) + 1) : Begins(w, 10, k) \in Nat
        /\ \A k \in 1..Len(w) : Begins(w, 10, k + 1) = Begins(w, 10, k) + w[k]
        /\ Begins(w, 10, Len(w) + 1) = Ends(w, 10)
        /\ Ends(w, 10) \in Nat
    BY <2>1, BeginsFacts, Zenon
  <2> QED
    BY <2>1, <2>2, Zenon
<1>5. \A j, k \in 1..(n + 1) : j < k => Begins(w, 10, j) < Begins(w, 10, k)
  <2>1. \A k \in 1..Len(w) : w[k] >= 1
    BY <1>2
  <2> QED
    BY <1>2, <2>1, BeginsApart
<1>6. /\ InterfacesAt(cls) \in Nat /\ FieldsAt(cls) \in Nat
  <2>1. cls.interfaces \in Nat
    BY ClassFacts
  <2> QED
    BY <1>3, <1>4, <2>1 DEF InterfacesAt, FieldsAt
<1>7. MethodsAt(cls) \in Nat
  <2>1. cls.fields \in Seq(AttributeList)
    BY ClassFacts
  <2>2. Ends(MemberSizes(cls.fields), FieldsAt(cls) + 2) \in Nat
    BY <1>6, <2>1, MembersAt
  <2> QED
    BY <2>2 DEF MethodsAt
<1>8. AttributesAt(cls) \in Nat
  <2>1. cls.methods \in Seq(AttributeList)
    BY ClassFacts
  <2>2. Ends(MemberSizes(cls.methods), MethodsAt(cls) + 2) \in Nat
    BY <1>7, <2>1, MembersAt
  <2> QED
    BY <2>2 DEF AttributesAt
<1>9. \A k \in 1..n : ConstantAt(cls, k + 1) = ConstantAt(cls, k) + ConstantSize(cs[k])
  BY <1>2, <1>3, <1>4
<1> QED
  BY <1>3, <1>4, <1>5, <1>6, <1>7, <1>8, <1>9 DEF n

-----------------------------------------------------------------------------
(* Where the parser is *)

\* An attribute parseAttributes knows, and in code only such attributes.
Fine(a) ==
  /\ a.name \in Known
  /\ a.name = "Code" => \A j \in DOMAIN a.inner : a.inner[j].name \in Known

FineTo(as, i) == \A k \in 1..i : Fine(as[k])
FineMembersTo(members, i) == \A k \in 1..i : FineTo(members[k], Len(members[k]))

\* i attributes of the list at this offset are read.
BetweenAttributes(as, at, i) ==
  /\ calls = <<[left |-> Len(as) - i, at |-> Begins(AttributeSizes(as), at, i + 1),
                skip |-> 0]>>
  /\ FineTo(as, i)

\* Of the i-th, which is code, q attributes are read.
InsideCode(as, at, i, q) ==
  LET a == as[i]
      body == Begins(AttributeSizes(as), at, i) + 6
  IN  /\ calls = <<[left |-> Len(as) - i, at |-> body, skip |-> BodySize(a)],
                   [left |-> Len(a.inner) - q,
                    at |-> Begins(PlainSizes(a.inner), body + CodeSize(a), q + 1),
                    skip |-> 0]>>
      /\ FineTo(as, i - 1)
      /\ \A j \in 1..q : a.inner[j].name \in Known

InCode(as, at) ==
  \E i \in 1..Len(as) : /\ as[i].name = "Code"
                        /\ \E q \in 0..Len(as[i].inner) : InsideCode(as, at, i, q)

ReadingAttributes(as, at) ==
  (\E i \in 0..Len(as) : BetweenAttributes(as, at, i)) \/ InCode(as, at)

\* i members of the table at this offset are read, or all of the i-th but its attributes.
ReadingMembers(members, at) ==
  \E i \in 0..Len(members) :
    /\ left = Len(members) - i
    /\ \/ /\ calls = <<>>
          /\ offset = MemberAt(members, at, i + 1)
          /\ FineMembersTo(members, i)
       \/ /\ i # 0
          /\ offset = MemberAt(members, at, i)
          /\ FineMembersTo(members, i - 1)
          /\ ReadingAttributes(members[i], MemberAt(members, at, i) + 8)

\* The first constants are in their slots and the other slots empty.
PoolHolds(cls, k) ==
  /\ DOMAIN pool = 0..(SlotNumber(cls.constants, Len(cls.constants) + 1) - 1)
  /\ \A j \in 1..(k - 1) :
       /\ pool[SlotNumber(cls.constants, j)] = file[ConstantAt(cls, j)]
       /\ cls.constants[j].tag \in Tags
  /\ \A slot \in DOMAIN pool :
       pool[slot] = Null \/ \E j \in 1..(k - 1) : slot = SlotNumber(cls.constants, j)

ReadingConstants(cls) ==
  \E k \in 1..(Len(cls.constants) + 1) :
    /\ next = SlotNumber(cls.constants, k)
    /\ offset = ConstantAt(cls, k)
    /\ PoolHolds(cls, k)

Idle == left = 0 /\ calls = <<>>
AllConstants(cls) == PoolHolds(cls, Len(cls.constants) + 1)
AllMembers(members) == FineMembersTo(members, Len(members))

AtHeader == section = "header" /\ offset = 0 /\ Idle /\ pool = <<>> /\ links = <<>>
AtConstants(cls) == section = "constants" /\ Idle /\ ReadingConstants(cls)
AtInterfaces(cls) ==
  section = "class" /\ Idle /\ AllConstants(cls) /\ offset = InterfacesAt(cls)
AtFields(cls) ==
  section = "interfaces" /\ Idle /\ AllConstants(cls) /\ offset = FieldsAt(cls)
InFields(cls) ==
  section = "fields" /\ AllConstants(cls) /\ ReadingMembers(cls.fields, FieldsAt(cls))
InMethods(cls) ==
  /\ section = "methods" /\ AllConstants(cls) /\ AllMembers(cls.fields)
  /\ ReadingMembers(cls.methods, MethodsAt(cls))
InClassAttributes(cls) ==
  /\ section = "attributes" /\ left = 0
  /\ AllConstants(cls) /\ AllMembers(cls.fields) /\ AllMembers(cls.methods)
  /\ ReadingAttributes(cls.attributes, AttributesAt(cls) + 2)
AtLinks(cls) ==
  /\ section = "resolve" /\ Idle /\ offset = EndAt(cls)
  /\ AllConstants(cls) /\ AllMembers(cls.fields) /\ AllMembers(cls.methods)
  /\ FineTo(cls.attributes, Len(cls.attributes))
  /\ next \in Nat \ {0}
  /\ \A slot \in 1..(next - 1) : slot \in DOMAIN pool /\ pool[slot] # Null

Placed(cls) ==
  \/ AtHeader \/ AtConstants(cls) \/ AtInterfaces(cls) \/ AtFields(cls) \/ InFields(cls)
  \/ InMethods(cls) \/ InClassAttributes(cls) \/ AtLinks(cls)

\* Links are stored by resolveConstPool only.
Linked ==
  /\ DOMAIN links = DOMAIN pool
  /\ section # "resolve" => \A slot \in DOMAIN links : links[slot] = <<>>
  /\ LinksReachWhatWasMeant

Ended ==
  /\ vm \in {"running", "parsed", "aborted"}
  /\ vm = "aborted" => Unloadable
  /\ vm = "parsed" => section = "resolve" /\ PoolRead

ParserInv ==
  /\ \E cls \in Classes : file = FileOf(cls) /\ Placed(cls)
  /\ Linked
  /\ Ended

-----------------------------------------------------------------------------
(* Reading a list of attributes *)

LEMMA OneCall ==
  ASSUME NEW x
  PROVE  /\ <<x>> # <<>> /\ Len(<<x>>) = 1 /\ Last(<<x>>) = x /\ Front(<<x>>) = <<>>
         /\ \A y : Append(Front(<<x>>), y) = <<y>>
         /\ \A y, z : Front(<<x>>) \o <<y, z>> = <<y, z>>
<1>1. Len(<<x>>) = 1 /\ Last(<<x>>) = x /\ <<x>> # <<>>
  BY DEF Last
<1>2. Front(<<x>>) = <<>>
  <2>1. SubSeq(<<x>>, 1, 0) = <<>>
    BY SubSeqEmpty
  <2> QED
    BY <2>1 DEF Front
<1>3. \A y : Append(<<>>, y) = <<y>>
  OBVIOUS
<1>4. \A y, z : <<>> \o <<y, z>> = <<y, z>>
  OBVIOUS
<1> QED
  BY <1>1, <1>2, <1>3, <1>4

LEMMA TwoCalls ==
  ASSUME NEW x, NEW y
  PROVE  /\ <<x, y>> # <<>> /\ Len(<<x, y>>) = 2 /\ Last(<<x, y>>) = y
         /\ <<x, y>>[Len(<<x, y>>) - 1] = x
         /\ \A z : Append(Front(<<x, y>>), z) = <<x, z>>
         /\ \A z : Append(SubSeq(<<x, y>>, 1, Len(<<x, y>>) - 2), z) = <<z>>
<1>1. /\ <<x, y>> # <<>> /\ Len(<<x, y>>) = 2 /\ Last(<<x, y>>) = y
      /\ <<x, y>>[Len(<<x, y>>) - 1] = x
  BY DEF Last
<1>2. Front(<<x, y>>) = <<x>>
  <2> DEFINE s == SubSeq(<<x, y>>, 1, 1)
             S == {x, y}
  <2>1. \A i \in 1..1 : <<x, y>>[i] \in S /\ <<x, y>>[1 + i - 1] = x
    OBVIOUS
  <2>2. s \in Seq(S) /\ Len(s) = 1 /\ s[1] = x
    <3> HIDE DEF S
    <3>1. /\ s \in Seq(S)
          /\ Len(s) = IF 1 <= 1 THEN 1 - 1 + 1 ELSE 0
          /\ \A i \in 1..(1 - 1 + 1) : s[i] = <<x, y>>[1 + i - 1]
      BY <2>1, SubSeqProperties
    <3> QED
      BY <2>1, <3>1
  <2>3. <<x>> \in Seq(S) /\ Len(<<x>>) = 1 /\ <<x>>[1] = x
    OBVIOUS
  <2>4. s = <<x>>
    <3> HIDE DEF s, S
    <3> QED
      BY <2>2, <2>3, SeqEqual
  <2> QED
    BY <2>4 DEF Front
<1>3. SubSeq(<<x, y>>, 1, 0) = <<>> /\ Len(<<x, y>>) - 2 = 0
  BY SubSeqEmpty
<1>4. \A z : Append(<<>>, z) = <<z>>
  OBVIOUS
<1>5. \A z : Append(<<x>>, z) = <<x, z>>
  <2> SUFFICES ASSUME NEW z PROVE Append(<<x>>, z) = <<x, z>>
    OBVIOUS
  <2> DEFINE S == {x, z}
             s == Append(<<x>>, z)
  <2>1. <<x>> \in Seq(S) /\ z \in S /\ Len(<<x>>) = 1 /\ <<x>>[1] = x
    OBVIOUS
  <2>2. <<x, z>> \in Seq(S) /\ Len(<<x, z>>) = 2 /\ <<x, z>>[1] = x /\ <<x, z>>[2] = z
    OBVIOUS
  <2>3. s \in Seq(S) /\ Len(s) = 2 /\ s[1] = x /\ s[2] = z
    <3> HIDE DEF S
    <3> QED
      BY <2>1, AppendProperties
  <2> HIDE DEF S, s
  <2>4. \A k \in 1..2 : k = 1 \/ k = 2
    OBVIOUS
  <2>5. s = <<x, z>>
    BY <2>2, <2>3, <2>4, SeqEqual
  <2> QED
    BY <2>5 DEF s
<1> QED
  BY <1>1, <1>2, <1>3, <1>4, <1>5

IsList(as, at) == as \in AttributeList /\ at \in Nat /\ HasAttributes(file, at, as)

LEMMA ListFacts ==
  ASSUME NEW as, NEW at, IsList(as, at), NEW i \in 1..Len(as)
  PROVE  LET here == Begins(AttributeSizes(as), at, i) IN
         /\ here \in Nat /\ i \in DOMAIN as
         /\ here \in DOMAIN file /\ file[here].is = "attribute"
         /\ file[here].name = as[i].name /\ file[here].length = BodySize(as[i])
         /\ Begins(AttributeSizes(as), at, i + 1) = here + 6 + BodySize(as[i])
         /\ BodySize(as[i]) \in Nat
         /\ as[i].name = "Code" => as[i] \in CodeAttribute /\ HasCode(file, here + 6, as[i])
<1> DEFINE here == Begins(AttributeSizes(as), at, i)
<1>1. /\ as \in AttributeList /\ at \in Nat /\ HasAttributes(file, at, as)
  BY DEF IsList
<1>2. /\ Len(as) \in Nat /\ DOMAIN as = 1..Len(as)
      /\ \A k \in 1..(Len(as) + 1) : Begins(AttributeSizes(as), at, k) \in Nat
      /\ as[i] \in PlainAttribute \cup CodeAttribute
      /\ Begins(AttributeSizes(as), at, i + 1) = here + 6 + BodySize(as[i])
  BY <1>1, AttributesAtFacts
<1>3. i \in 1..(Len(as) + 1)
  <2>1. \A m \in Nat : \A k \in 1..m : k \in 1..(m + 1)
    OBVIOUS
  <2> QED
    BY <1>2, <2>1
<1>4. here \in Nat
  BY <1>2, <1>3
<1>5. HasAttribute(file, here, as[i].name, BodySize(as[i]))
      /\ (as[i].name = "Code" => HasCode(file, here + 6, as[i]))
  BY <1>1, <1>2 DEF HasAttributes
<1>6. BodySize(as[i]) \in Nat /\ (as[i].name = "Code" => as[i] \in CodeAttribute)
  BY <1>2, AttributeFacts
<1>7. /\ here \in DOMAIN file /\ file[here].is = "attribute"
      /\ file[here].name = as[i].name /\ file[here].length = BodySize(as[i])
  BY <1>5 DEF HasAttribute, Has
<1> QED
  BY <1>2, <1>4, <1>5, <1>6, <1>7

LEMMA CodeItemFacts ==
  ASSUME NEW a \in CodeAttribute, NEW body \in Nat, HasCode(file, body, a)
  PROVE  /\ file[body].length = a.length /\ file[body].entries = a.entries
         /\ file[body].n = Len(a.inner) /\ Len(a.inner) \in Nat
         /\ body + 12 + a.length + 8 * a.entries = body + CodeSize(a)
         /\ body + CodeSize(a) \in Nat
         /\ Begins(PlainSizes(a.inner), body + CodeSize(a), 1) = body + CodeSize(a)
         /\ \A j \in 1..Len(a.inner) :
              LET there == Begins(PlainSizes(a.inner), body + CodeSize(a), j) IN
              /\ there \in DOMAIN file /\ file[there].is = "attribute"
              /\ file[there].name = a.inner[j].name
              /\ file[there].length = a.inner[j].length
              /\ a.inner[j].name # "Code"
              /\ Begins(PlainSizes(a.inner), body + CodeSize(a), j + 1)
                   = there + 6 + a.inner[j].length
<1> DEFINE at == body + CodeSize(a)
<1>1. /\ a.length \in Nat /\ a.entries \in Nat
      /\ CodeSize(a) = 12 + a.length + 8 * a.entries /\ CodeSize(a) \in Nat
  BY CodeFacts
<1>2. at \in Nat /\ body + 12 + a.length + 8 * a.entries = at
  BY <1>1
<1> HIDE DEF at
<1>3. /\ Len(a.inner) \in Nat /\ DOMAIN a.inner = 1..Len(a.inner)
      /\ Begins(PlainSizes(a.inner), at, 1) = at
      /\ \A k \in 1..Len(a.inner) :
           /\ a.inner[k].name # "Code"
           /\ Begins(PlainSizes(a.inner), at, k + 1)
                = Begins(PlainSizes(a.inner), at, k) + 6 + a.inner[k].length
  BY <1>2, InnerAt
<1>4. /\ file[body].length = a.length /\ file[body].entries = a.entries
      /\ file[body].n = Len(a.inner)
      /\ \A k \in DOMAIN a.inner :
           HasAttribute(file, Begins(PlainSizes(a.inner), at, k), a.inner[k].name,
                        a.inner[k].length)
  BY DEF HasCode, at
<1>5. ASSUME NEW j \in 1..Len(a.inner)
      PROVE  LET there == Begins(PlainSizes(a.inner), at, j) IN
             /\ there \in DOMAIN file /\ file[there].is = "attribute"
             /\ file[there].name = a.inner[j].name
             /\ file[there].length = a.inner[j].length
  <2>1. HasAttribute(file, Begins(PlainSizes(a.inner), at, j), a.inner[j].name,
                     a.inner[j].length)
    BY <1>3, <1>4
  <2> QED
    BY <2>1 DEF HasAttribute, Has
<1> QED
  BY <1>2, <1>3, <1>4, <1>5 DEF at

LEMMA FineNext ==
  ASSUME NEW as, NEW i \in Nat, FineTo(as, i), Fine(as[i + 1])
  PROVE  FineTo(as, i + 1)
<1>1. \A k \in 1..(i + 1) : k \in 1..i \/ k = i + 1
  OBVIOUS
<1> QED
  BY <1>1 DEF FineTo

\* An attribute that is not code: the cursor goes on behind it, at either level.
LEMMA ReadAttributeReads ==
  ASSUME NEW as, NEW at, IsList(as, at), ReadingAttributes(as, at), ReadAttribute
  PROVE  ReadingAttributes(as, at)'
<1> DEFINE n == Len(as)
<1>1. n \in Nat
  BY AttributesAtFacts DEF IsList
<1>2. /\ Last(calls).left > 0
      /\ file[Last(calls).at].name \in Known \ {"Code"}
      /\ calls' = Append(Front(calls),
                         [left |-> Last(calls).left - 1,
                          at |-> Last(calls).at + 6 + file[Last(calls).at].length,
                          skip |-> 0])
  BY DEF ReadAttribute, InAttributes, Attribute, Innermost, Call
<1>3. ASSUME NEW i \in 0..n, BetweenAttributes(as, at, i)
      PROVE  ReadingAttributes(as, at)'
  <2> DEFINE here == Begins(AttributeSizes(as), at, i + 1)
             x == [left |-> n - i, at |-> here, skip |-> 0]
  <2>1. calls = <<x>> /\ FineTo(as, i)
    BY <1>3 DEF BetweenAttributes
  <2>2. Last(calls) = x /\ \A y : Append(Front(calls), y) = <<y>>
    BY <2>1, OneCall
  <2>3. x.left = n - i /\ x.at = here
    OBVIOUS
  <2> HIDE DEF here, x
  <2>4. i \in Nat /\ i + 1 \in 1..n /\ i + 1 \in 0..n /\ (n - i) - 1 = n - (i + 1)
    <3>1. n - i > 0
      BY <1>2, <2>2, <2>3
    <3> HIDE DEF n
    <3> QED
      BY <1>1, <3>1
  <2>5. /\ file[here].name = as[i + 1].name /\ file[here].length = BodySize(as[i + 1])
        /\ Begins(AttributeSizes(as), at, (i + 1) + 1) = here + 6 + BodySize(as[i + 1])
    <3>1. i + 1 \in 1..Len(as)
      BY <2>4
    <3> QED
      BY <3>1, ListFacts DEF here
  <2>6. as[i + 1].name \in Known /\ as[i + 1].name # "Code"
    BY <1>2, <2>2, <2>3, <2>5
  <2>7. FineTo(as, i + 1)
    BY <2>1, <2>4, <2>6, FineNext DEF Fine
  <2>8. calls' = <<[left |-> n - (i + 1), at |-> Begins(AttributeSizes(as), at, (i + 1) + 1),
                    skip |-> 0]>>
    BY <1>2, <2>2, <2>3, <2>4, <2>5
  <2>9. BetweenAttributes(as, at, i + 1)'
    BY <2>7, <2>8 DEF BetweenAttributes
  <2> QED
    BY <2>4, <2>9 DEF ReadingAttributes
<1>4. ASSUME NEW i \in 1..n, as[i].name = "Code",
             NEW q \in 0..Len(as[i].inner), InsideCode(as, at, i, q)
      PROVE  ReadingAttributes(as, at)'
  <2> DEFINE a == as[i]
             m == Len(a.inner)
             body == Begins(AttributeSizes(as), at, i) + 6
             there == Begins(PlainSizes(a.inner), body + CodeSize(a), q + 1)
             x == [left |-> n - i, at |-> body, skip |-> BodySize(a)]
             y == [left |-> m - q, at |-> there, skip |-> 0]
  <2>1. /\ calls = <<x, y>> /\ FineTo(as, i - 1)
        /\ \A j \in 1..q : a.inner[j].name \in Known
    BY <1>4 DEF InsideCode
  <2>3. y.left = m - q /\ y.at = there
    OBVIOUS
  <2>2. Last(calls) = y /\ \A z : Append(Front(calls), z) = <<x, z>>
    <3> HIDE DEF x, y
    <3> QED
      BY <2>1, TwoCalls
  <2>4. a \in CodeAttribute /\ body \in Nat /\ HasCode(file, body, a)
    <3> DEFINE here == Begins(AttributeSizes(as), at, i)
    <3>1. here \in Nat /\ a \in CodeAttribute /\ HasCode(file, here + 6, a)
      BY <1>4, ListFacts
    <3> HIDE DEF here, a
    <3>2. here + 6 \in Nat
      BY <3>1
    <3> QED
      BY <3>1, <3>2 DEF here
  <2> HIDE DEF y, body, a
  <2>5. m \in Nat
    BY <2>4, CodeItemFacts
  <2>6. q \in Nat /\ q + 1 \in 1..m /\ q + 1 \in 0..m /\ (m - q) - 1 = m - (q + 1)
    <3>1. q \in 0..m
      BY DEF a
    <3> HIDE DEF m, x, there
    <3> QED
      BY <1>2, <2>2, <2>3, <2>5, <3>1
  <2>7. /\ file[there].name = a.inner[q + 1].name /\ file[there].length = a.inner[q + 1].length
        /\ Begins(PlainSizes(a.inner), body + CodeSize(a), (q + 1) + 1)
             = there + 6 + a.inner[q + 1].length
    BY <2>4, <2>6, CodeItemFacts
  <2>8. \A j \in 1..(q + 1) : a.inner[j].name \in Known
    <3>1. a.inner[q + 1].name \in Known
      BY <1>2, <2>2, <2>3, <2>7
    <3>2. \A j \in 1..(q + 1) : j \in 1..q \/ j = q + 1
      BY <2>6
    <3> QED
      BY <2>1, <3>1, <3>2
  <2> DEFINE z == [left |-> m - (q + 1),
                   at |-> Begins(PlainSizes(a.inner), body + CodeSize(a), (q + 1) + 1),
                   skip |-> 0]
  <2>9. calls' = <<x, z>>
    <3> HIDE DEF x, m, there
    <3> QED
      BY <1>2, <2>2, <2>3, <2>6, <2>7
  <2>10. InsideCode(as, at, i, q + 1)'
    <3>1. FineTo(as, i - 1) /\ \A j \in 1..(q + 1) : a.inner[j].name \in Known
      BY <2>1, <2>8
    <3> QED
      BY <2>9, <3>1 DEF InsideCode, a, body
  <2> QED
    BY <1>4, <2>6, <2>10 DEF ReadingAttributes, InCode, a
<1> QED
  BY <1>3, <1>4 DEF ReadingAttributes, InCode

\* Code: the cursor goes into it.  No attribute of a Code attribute is code again.
LEMMA ReadCodeReads ==
  ASSUME NEW as, NEW at, IsList(as, at), ReadingAttributes(as, at), ReadCode
  PROVE  ReadingAttributes(as, at)'
<1> DEFINE n == Len(as)
<1>1. n \in Nat
  BY AttributesAtFacts DEF IsList
<1>2. /\ Last(calls).left > 0
      /\ file[Last(calls).at].name = "Code"
      /\ calls' = Front(calls) \o
           <<[left |-> Last(calls).left - 1, at |-> Last(calls).at + 6,
              skip |-> file[Last(calls).at].length],
             [left |-> file[Last(calls).at + 6].n,
              at |-> Last(calls).at + 6 + 12 + file[Last(calls).at + 6].length
                       + 8 * file[Last(calls).at + 6].entries,
              skip |-> 0]>>
  BY DEF ReadCode, InAttributes, Attribute, Innermost, Call
<1>3. ASSUME NEW i \in 0..n, BetweenAttributes(as, at, i)
      PROVE  ReadingAttributes(as, at)'
  <2> DEFINE here == Begins(AttributeSizes(as), at, i + 1)
             x == [left |-> n - i, at |-> here, skip |-> 0]
             a == as[i + 1]
             body == here + 6
             y == [left |-> n - (i + 1), at |-> body, skip |-> BodySize(a)]
             z == [left |-> Len(a.inner) - 0,
                   at |-> Begins(PlainSizes(a.inner), body + CodeSize(a), 0 + 1), skip |-> 0]
  <2>1. calls = <<x>> /\ FineTo(as, i)
    BY <1>3 DEF BetweenAttributes
  <2>2. x.left = n - i /\ x.at = here
    OBVIOUS
  <2>3. Last(calls) = x /\ \A u, v : Front(calls) \o <<u, v>> = <<u, v>>
    <3> HIDE DEF x
    <3> QED
      BY <2>1, OneCall
  <2> HIDE DEF x, here
  <2>4. i \in Nat /\ i + 1 \in 1..n /\ (n - i) - 1 = n - (i + 1) /\ (i + 1) - 1 = i
    <3>1. n - i > 0
      BY <1>2, <2>2, <2>3
    <3> HIDE DEF n
    <3> QED
      BY <1>1, <3>1
  <2>5. /\ here \in Nat
        /\ file[here].name = a.name /\ file[here].length = BodySize(a)
        /\ a.name = "Code" => a \in CodeAttribute /\ HasCode(file, body, a)
    <3>1. i + 1 \in 1..Len(as)
      BY <2>4
    <3> QED
      BY <3>1, ListFacts DEF here
  <2>6. a.name = "Code" /\ body \in Nat
    <3>1. a.name = "Code"
      <4> HIDE DEF a
      <4> QED
        BY <1>2, <2>2, <2>3, <2>5
    <3>2. here \in Nat
      BY <2>5
    <3> QED
      BY <3>1, <3>2
  <2>7. a \in CodeAttribute /\ HasCode(file, body, a)
    BY <2>5, <2>6
  <2> HIDE DEF a, body, n
  <2>8. /\ file[body].length = a.length /\ file[body].entries = a.entries
        /\ file[body].n = Len(a.inner) /\ Len(a.inner) \in Nat
        /\ body + 12 + a.length + 8 * a.entries = body + CodeSize(a)
        /\ Begins(PlainSizes(a.inner), body + CodeSize(a), 1) = body + CodeSize(a)
    BY <2>6, <2>7, CodeItemFacts
  <2>9. /\ x.left - 1 = n - (i + 1) /\ x.at + 6 = body
    BY <2>2, <2>4 DEF body
  <2>10. z = [left |-> Len(a.inner), at |-> body + CodeSize(a), skip |-> 0]
    BY <2>8
  <2>11. calls' = <<y, z>>
    <3>1. calls' = <<[left |-> x.left - 1, at |-> x.at + 6, skip |-> file[here].length],
                     [left |-> file[x.at + 6].n,
                      at |-> x.at + 6 + 12 + file[x.at + 6].length + 8 * file[x.at + 6].entries,
                      skip |-> 0]>>
      BY <1>2, <2>2, <2>3
    <3> HIDE DEF z
    <3> QED
      BY <2>5, <2>8, <2>9, <2>10, <3>1
  <2>12. InsideCode(as, at, i + 1, 0)'
    <3>1. FineTo(as, (i + 1) - 1) /\ \A j \in 1..0 : a.inner[j].name \in Known
      BY <2>1, <2>4
    <3> QED
      BY <2>11, <3>1 DEF InsideCode, a, body, n, here
  <2>13. 0 \in 0..Len(a.inner)
    BY <2>8
  <2> QED
    BY <2>4, <2>6, <2>12, <2>13 DEF ReadingAttributes, InCode, a, n
<1>4. ASSUME NEW i \in 1..n, as[i].name = "Code",
             NEW q \in 0..Len(as[i].inner), InsideCode(as, at, i, q)
      PROVE  FALSE
  <2> DEFINE a == as[i]
             m == Len(a.inner)
             body == Begins(AttributeSizes(as), at, i) + 6
             there == Begins(PlainSizes(a.inner), body + CodeSize(a), q + 1)
             x == [left |-> n - i, at |-> body, skip |-> BodySize(a)]
             y == [left |-> m - q, at |-> there, skip |-> 0]
  <2>1. calls = <<x, y>>
    BY <1>4 DEF InsideCode
  <2>2. y.left = m - q /\ y.at = there
    OBVIOUS
  <2>3. Last(calls) = y
    <3> HIDE DEF x, y
    <3> QED
      BY <2>1, TwoCalls
  <2>4. a \in CodeAttribute /\ body \in Nat /\ HasCode(file, body, a)
    <3> DEFINE here == Begins(AttributeSizes(as), at, i)
    <3>1. here \in Nat /\ a \in CodeAttribute /\ HasCode(file, here + 6, a)
      BY <1>4, ListFacts
    <3> HIDE DEF here, a
    <3>2. here + 6 \in Nat
      BY <3>1
    <3> QED
      BY <3>1, <3>2 DEF here
  <2> HIDE DEF y, body, a
  <2>5. m \in Nat
    BY <2>4, CodeItemFacts
  <2>6. q + 1 \in 1..m
    <3>1. q \in 0..m
      BY DEF a
    <3> HIDE DEF m, x, there
    <3> QED
      BY <1>2, <2>2, <2>3, <2>5, <3>1
  <2>7. file[there].name = a.inner[q + 1].name /\ a.inner[q + 1].name # "Code"
    BY <2>4, <2>6, CodeItemFacts
  <2> QED
    BY <1>2, <2>2, <2>3, <2>7
<1> QED
  BY <1>3, <1>4 DEF ReadingAttributes, InCode

\* At the end of the code the cursor stands behind attribute_length.
LEMMA EndCodeReads ==
  ASSUME NEW as, NEW at, IsList(as, at), ReadingAttributes(as, at), EndAttributes,
         Len(calls) > 1
  PROVE  ReadingAttributes(as, at)'
<1> DEFINE n == Len(as)
<1>1. n \in Nat
  BY AttributesAtFacts DEF IsList
<1>2. PICK i \in 1..n : /\ as[i].name = "Code"
                        /\ \E q \in 0..Len(as[i].inner) : InsideCode(as, at, i, q)
  <2>1. ASSUME NEW i \in 0..n, BetweenAttributes(as, at, i)
        PROVE  FALSE
    <3>1. \E x : calls = <<x>>
      BY <2>1 DEF BetweenAttributes
    <3>2. Len(calls) = 1
      BY <3>1, OneCall
    <3> QED
      BY <3>2
  <2> QED
    BY <2>1 DEF ReadingAttributes, InCode
<1>3. PICK q \in 0..Len(as[i].inner) : InsideCode(as, at, i, q)
  BY <1>2
<1> DEFINE a == as[i]
           m == Len(a.inner)
           here == Begins(AttributeSizes(as), at, i)
           body == here + 6
           there == Begins(PlainSizes(a.inner), body + CodeSize(a), q + 1)
           x == [left |-> n - i, at |-> body, skip |-> BodySize(a)]
           y == [left |-> m - q, at |-> there, skip |-> 0]
<1>4. /\ calls = <<x, y>> /\ FineTo(as, i - 1)
      /\ \A j \in 1..q : a.inner[j].name \in Known
  BY <1>3 DEF InsideCode
<1>5. y.left = m - q /\ x.left = n - i /\ x.at = body /\ x.skip = BodySize(a)
  OBVIOUS
<1>6. /\ Last(calls) = y /\ calls[Len(calls) - 1] = x
      /\ \A z : Append(SubSeq(calls, 1, Len(calls) - 2), z) = <<z>>
  <2> HIDE DEF x, y
  <2> QED
    BY <1>4, TwoCalls
<1>7. /\ here \in Nat /\ a \in CodeAttribute /\ HasCode(file, here + 6, a)
      /\ Begins(AttributeSizes(as), at, i + 1) = here + 6 + BodySize(a)
  BY <1>2, ListFacts
<1>8. a.name = "Code" /\ q \in 0..m /\ i \in 1..n
  BY <1>2
<1> HIDE DEF x, y, a, here
<1>9. m \in Nat /\ DOMAIN a.inner = 1..m
  BY <1>7, CodeFacts, ElementsOfSequence
<1>10. Last(calls).left = 0
  BY DEF EndAttributes, Innermost
<1>11. q = m
  <2> HIDE DEF m
  <2> QED
    BY <1>5, <1>6, <1>8, <1>9, <1>10
<1>12. Fine(a)
  BY <1>4, <1>8, <1>9, <1>11 DEF Fine, Known
<1>13. FineTo(as, i)
  <2>1. i - 1 \in Nat /\ (i - 1) + 1 = i
    <3> HIDE DEF n
    <3> QED
      BY <1>1, <1>8
  <2> QED
    BY <1>4, <1>12, <2>1, FineNext DEF a
<1>14. calls' = <<[left |-> n - i, at |-> Begins(AttributeSizes(as), at, i + 1), skip |-> 0]>>
  <2>1. calls' = Append(SubSeq(calls, 1, Len(calls) - 2),
                        [left |-> x.left, at |-> x.at + x.skip, skip |-> 0])
    BY <1>6 DEF EndAttributes, CodeRead, Call
  <2>2. calls' = <<[left |-> x.left, at |-> x.at + x.skip, skip |-> 0]>>
    BY <1>6, <2>1
  <2> QED
    BY <1>5, <1>7, <2>2
<1>15. BetweenAttributes(as, at, i)'
  BY <1>13, <1>14 DEF BetweenAttributes
<1>16. i \in 0..n
  <2> HIDE DEF n
  <2> QED
    BY <1>1, <1>8
<1> QED
  BY <1>15, <1>16 DEF ReadingAttributes

\* The end of a list that is not in code: all of it is read.
LEMMA EndListReads ==
  ASSUME NEW as, NEW at, IsList(as, at), ReadingAttributes(as, at), EndAttributes,
         ~(Len(calls) > 1)
  PROVE  calls' = <<>> /\ offset' = Ends(AttributeSizes(as), at) /\ FineTo(as, Len(as))
<1> DEFINE n == Len(as)
<1>1. n \in Nat /\ Begins(AttributeSizes(as), at, n + 1) = Ends(AttributeSizes(as), at)
  BY AttributesAtFacts DEF IsList
<1>2. PICK i \in 0..n : BetweenAttributes(as, at, i)
  <2>1. ASSUME NEW i \in 1..n, NEW q, InsideCode(as, at, i, q)
        PROVE  FALSE
    <3>1. \E x, y : calls = <<x, y>>
      BY <2>1 DEF InsideCode
    <3>2. Len(calls) = 2
      BY <3>1, TwoCalls
    <3> QED
      BY <3>2
  <2> QED
    BY <2>1 DEF ReadingAttributes, InCode
<1> DEFINE x == [left |-> n - i, at |-> Begins(AttributeSizes(as), at, i + 1), skip |-> 0]
<1>3. calls = <<x>> /\ FineTo(as, i)
  BY <1>2 DEF BetweenAttributes
<1>4. x.left = n - i /\ x.at = Begins(AttributeSizes(as), at, i + 1)
  OBVIOUS
<1> HIDE DEF x
<1>5. Last(calls) = x
  BY <1>3, OneCall
<1>6. x.left = 0 /\ calls' = <<>> /\ offset' = x.at
  BY <1>5 DEF EndAttributes, Innermost
<1>7. i = n
  <2>1. n - i = 0
    BY <1>4, <1>6
  <2> HIDE DEF n
  <2> QED
    BY <1>1, <2>1
<1> QED
  BY <1>1, <1>3, <1>4, <1>6, <1>7

LEMMA ReadingIsCalling ==
  ASSUME NEW as, NEW at, ReadingAttributes(as, at)
  PROVE  calls # <<>>
<1>1. ASSUME NEW i, BetweenAttributes(as, at, i)
      PROVE  calls # <<>>
  <2>1. \E x : calls = <<x>>
    BY <1>1 DEF BetweenAttributes
  <2> QED
    BY <2>1, OneCall
<1>2. ASSUME NEW i, NEW q, InsideCode(as, at, i, q)
      PROVE  calls # <<>>
  <2>1. \E x, y : calls = <<x, y>>
    BY <1>2 DEF InsideCode
  <2> QED
    BY <2>1, TwoCalls
<1> QED
  BY <1>1, <1>2 DEF ReadingAttributes, InCode

LEMMA BeginList ==
  ASSUME NEW as, NEW at, as \in AttributeList, at \in Nat,
         calls' = <<Call(Len(as), at)>>
  PROVE  ReadingAttributes(as, at)'
<1>1. Len(as) \in Nat /\ Begins(AttributeSizes(as), at, 1) = at
  BY AttributesAtFacts
<1>2. Len(as) - 0 = Len(as) /\ 0 + 1 = 1 /\ 0 \in 0..Len(as)
  <2> DEFINE n == Len(as)
  <2>1. n \in Nat
    BY <1>1
  <2> HIDE DEF n
  <2>2. n - 0 = n /\ 0 + 1 = 1 /\ 0 \in 0..n
    BY <2>1
  <2> QED
    BY <2>2 DEF n
<1>3. calls' = <<[left |-> Len(as) - 0, at |-> Begins(AttributeSizes(as), at, 0 + 1), skip |-> 0]>>
  BY <1>1, <1>2 DEF Call
<1>4. FineTo(as, 0)
  BY DEF FineTo
<1>5. BetweenAttributes(as, at, 0)'
  BY <1>3, <1>4 DEF BetweenAttributes
<1> QED
  BY <1>2, <1>5 DEF ReadingAttributes

-----------------------------------------------------------------------------
(* Reading a table of members *)

IsTable(members, at) ==
  members \in Seq(AttributeList) /\ at \in Nat /\ HasMembers(file, at, members)

LEMMA TableFacts ==
  ASSUME NEW members, NEW at, IsTable(members, at)
  PROVE  /\ Len(members) \in Nat /\ DOMAIN members = 1..Len(members)
         /\ Has(file, at, "count") /\ file[at].n = Len(members)
         /\ MemberAt(members, at, 1) = at + 2
         /\ MemberAt(members, at, Len(members) + 1) = Ends(MemberSizes(members), at + 2)
         /\ \A i \in 1..Len(members) :
              LET here == MemberAt(members, at, i) IN
              /\ here \in Nat /\ members[i] \in AttributeList
              /\ file[here].n = Len(members[i])
              /\ IsList(members[i], here + 8)
              /\ MemberAt(members, at, i + 1) = Ends(AttributeSizes(members[i]), here + 8)
<1>1. members \in Seq(AttributeList) /\ at \in Nat /\ HasMembers(file, at, members)
  BY DEF IsTable
<1>2. /\ Len(members) \in Nat /\ DOMAIN members = 1..Len(members)
      /\ \A i \in 1..Len(members) : members[i] \in AttributeList
  BY <1>1, ElementsOfSequence
<1>3. /\ MemberAt(members, at, 1) = at + 2
      /\ MemberAt(members, at, Len(members) + 1) = Ends(MemberSizes(members), at + 2)
      /\ \A k \in 1..(Len(members) + 1) : MemberAt(members, at, k) \in Nat
      /\ \A k \in 1..Len(members) :
           MemberAt(members, at, k + 1)
             = Ends(AttributeSizes(members[k]), MemberAt(members, at, k) + 8)
  BY <1>1, MembersAt
<1>4. /\ Has(file, at, "count") /\ file[at].n = Len(members)
      /\ \A k \in DOMAIN members :
           /\ file[MemberAt(members, at, k)].n = Len(members[k])
           /\ HasAttributes(file, MemberAt(members, at, k) + 8, members[k])
  BY <1>1 DEF HasMembers, HasCount
<1>5. ASSUME NEW i \in 1..Len(members)
      PROVE  LET here == MemberAt(members, at, i) IN
             /\ here \in Nat /\ members[i] \in AttributeList
             /\ file[here].n = Len(members[i])
             /\ IsList(members[i], here + 8)
  <2> DEFINE here == MemberAt(members, at, i)
  <2>1. i \in 1..(Len(members) + 1)
    <3>1. \A m \in Nat : \A k \in 1..m : k \in 1..(m + 1)
      OBVIOUS
    <3> QED
      BY <1>2, <3>1
  <2>2. here \in Nat /\ members[i] \in AttributeList
    BY <1>2, <1>3, <2>1
  <2>3. file[here].n = Len(members[i]) /\ HasAttributes(file, here + 8, members[i])
    BY <1>2, <1>4
  <2> HIDE DEF here
  <2>4. here + 8 \in Nat
    BY <2>2
  <2>5. IsList(members[i], here + 8)
    BY <2>2, <2>3, <2>4 DEF IsList
  <2> QED
    BY <2>2, <2>3, <2>5 DEF here
<1> QED
  BY <1>2, <1>3, <1>4, <1>5

LEMMA FineMembersNext ==
  ASSUME NEW members, NEW i \in Nat, FineMembersTo(members, i),
         FineTo(members[i + 1], Len(members[i + 1]))
  PROVE  FineMembersTo(members, i + 1)
<1>1. \A k \in 1..(i + 1) : k \in 1..i \/ k = i + 1
  OBVIOUS
<1> QED
  BY <1>1 DEF FineMembersTo

LEMMA BeginTable ==
  ASSUME NEW members, NEW at, IsTable(members, at), offset = at, BeginMembers
  PROVE  ReadingMembers(members, at)'
<1>1. /\ Len(members) \in Nat /\ file[at].n = Len(members)
      /\ MemberAt(members, at, 1) = at + 2
  BY TableFacts
<1>2. left' = Len(members) /\ offset' = at + 2 /\ calls' = <<>>
  BY <1>1 DEF BeginMembers
<1>3. FineMembersTo(members, 0)
  BY DEF FineMembersTo
<1>4. 0 \in 0..Len(members) /\ left' = Len(members) - 0 /\ offset' = MemberAt(members, at, 0 + 1)
  BY <1>1, <1>2
<1> QED
  BY <1>2, <1>3, <1>4 DEF ReadingMembers

LEMMA ReadMemberReads ==
  ASSUME NEW members, NEW at, IsTable(members, at), ReadingMembers(members, at), ReadMember
  PROVE  ReadingMembers(members, at)'
<1> DEFINE n == Len(members)
<1>1. left > 0 /\ calls = <<>> /\ left' = left - 1 /\ offset' = offset
      /\ calls' = <<Call(file[offset].n, offset + 8)>>
  BY DEF ReadMember
<1>2. PICK i \in 0..n : /\ left = n - i
                        /\ offset = MemberAt(members, at, i + 1)
                        /\ FineMembersTo(members, i)
  BY <1>1, ReadingIsCalling DEF ReadingMembers
<1>3. n \in Nat
  BY TableFacts
<1>4. i \in Nat /\ i + 1 \in 1..n /\ i + 1 \in 0..n /\ (n - i) - 1 = n - (i + 1)
      /\ i + 1 # 0 /\ (i + 1) - 1 = i
  <2>1. n - i > 0
    BY <1>1, <1>2
  <2> HIDE DEF n
  <2> QED
    BY <1>3, <2>1
<1>5. /\ offset \in Nat /\ members[i + 1] \in AttributeList
      /\ file[offset].n = Len(members[i + 1])
  BY <1>2, <1>4, TableFacts
<1>6. offset + 8 \in Nat
  BY <1>5
<1> DEFINE o == offset
<1>7. ReadingAttributes(members[i + 1], MemberAt(members, at, i + 1) + 8)'
  <2>1. calls' = <<Call(Len(members[i + 1]), MemberAt(members, at, i + 1) + 8)>>
    BY <1>1, <1>2, <1>5
  <2>2. MemberAt(members, at, i + 1) + 8 \in Nat
    BY <1>2, <1>6
  <2> QED
    BY <1>5, <2>1, <2>2, BeginList
<1>8. left' = n - (i + 1) /\ offset' = MemberAt(members, at, i + 1)
      /\ FineMembersTo(members, (i + 1) - 1)
  BY <1>1, <1>2, <1>4
<1> QED
  BY <1>4, <1>7, <1>8 DEF ReadingMembers

\* The members whose attributes are read.
LEMMA MemberUnderWay ==
  ASSUME NEW members, NEW at, IsTable(members, at), ReadingMembers(members, at),
         calls # <<>>
  PROVE  \E i \in 1..Len(members) :
           /\ i \in 0..Len(members) /\ i # 0 /\ left = Len(members) - i
           /\ offset = MemberAt(members, at, i)
           /\ FineMembersTo(members, i - 1)
           /\ IsList(members[i], MemberAt(members, at, i) + 8)
           /\ ReadingAttributes(members[i], MemberAt(members, at, i) + 8)
<1>1. PICK i \in 0..Len(members) :
        /\ i # 0 /\ left = Len(members) - i
        /\ offset = MemberAt(members, at, i)
        /\ FineMembersTo(members, i - 1)
        /\ ReadingAttributes(members[i], MemberAt(members, at, i) + 8)
  BY DEF ReadingMembers
<1>2. i \in 1..Len(members)
  <2>1. Len(members) \in Nat
    BY TableFacts
  <2>2. \A m \in Nat : \A k \in 0..m : k # 0 => k \in 1..m
    OBVIOUS
  <2> QED
    BY <1>1, <2>1, <2>2
<1>3. IsList(members[i], MemberAt(members, at, i) + 8)
  BY <1>2, TableFacts
<1> QED
  BY <1>1, <1>2, <1>3

LEMMA AttributesOfMember ==
  ASSUME NEW members, NEW at, IsTable(members, at), ReadingMembers(members, at),
         ReadAttribute \/ ReadCode \/ EndAttributes
  PROVE  ReadingMembers(members, at)' /\ (section # "attributes" => section' = section)
<1>1. calls # <<>>
  BY DEF ReadAttribute, ReadCode, InAttributes, EndAttributes
<1>2. PICK i \in 1..Len(members) :
        /\ i \in 0..Len(members) /\ i # 0 /\ left = Len(members) - i
        /\ offset = MemberAt(members, at, i)
        /\ FineMembersTo(members, i - 1)
        /\ IsList(members[i], MemberAt(members, at, i) + 8)
        /\ ReadingAttributes(members[i], MemberAt(members, at, i) + 8)
  BY <1>1, MemberUnderWay
<1>3. left' = left
  BY DEF ReadAttribute, ReadCode, EndAttributes
<1>4. CASE ReadAttribute \/ ReadCode \/ (EndAttributes /\ Len(calls) > 1)
  <2>1. offset' = offset /\ section' = section
    BY <1>4 DEF ReadAttribute, ReadCode, EndAttributes
  <2>2. ReadingAttributes(members[i], MemberAt(members, at, i) + 8)'
    BY <1>2, <1>4, ReadAttributeReads, ReadCodeReads, EndCodeReads
  <2> QED
    BY <1>2, <1>3, <2>1, <2>2 DEF ReadingMembers
<1>5. CASE EndAttributes /\ ~(Len(calls) > 1)
  <2>1. /\ calls' = <<>>
        /\ offset' = Ends(AttributeSizes(members[i]), MemberAt(members, at, i) + 8)
        /\ FineTo(members[i], Len(members[i]))
    BY <1>2, <1>5, EndListReads
  <2>2. offset' = MemberAt(members, at, i + 1)
    BY <2>1, TableFacts
  <2>3. i - 1 \in Nat /\ (i - 1) + 1 = i
    <3>1. \A m : \A k \in 0..m : k # 0 => k - 1 \in Nat /\ (k - 1) + 1 = k
      OBVIOUS
    <3> QED
      BY <1>2, <3>1
  <2>4. FineMembersTo(members, i)
    BY <1>2, <2>1, <2>3, FineMembersNext
  <2>5. section # "attributes" => section' = section
    BY <1>5 DEF EndAttributes
  <2> QED
    BY <1>2, <1>3, <2>1, <2>2, <2>4, <2>5 DEF ReadingMembers
<1> QED
  BY <1>4, <1>5

LEMMA TableRead ==
  ASSUME NEW members, NEW at, IsTable(members, at), ReadingMembers(members, at),
         left = 0, calls = <<>>
  PROVE  offset = Ends(MemberSizes(members), at + 2) /\ AllMembers(members)
<1>1. PICK i \in 0..Len(members) : /\ left = Len(members) - i
                                   /\ offset = MemberAt(members, at, i + 1)
                                   /\ FineMembersTo(members, i)
  BY ReadingIsCalling DEF ReadingMembers
<1>2. i = Len(members)
  <2>1. Len(members) \in Nat /\ Len(members) - i = 0
    BY <1>1, TableFacts
  <2>2. \A m \in Nat : \A k \in 0..m : m - k = 0 => k = m
    OBVIOUS
  <2> QED
    BY <2>1, <2>2
<1> QED
  BY <1>1, <1>2, TableFacts DEF AllMembers

-----------------------------------------------------------------------------
(* Reading the file of a class *)

LEMMA FileFacts ==
  ASSUME NEW cls \in Classes, file = FileOf(cls)
  PROVE  /\ file[0].n = SlotNumber(cls.constants, Len(cls.constants) + 1)
         /\ file[InterfacesAt(cls)].n = cls.interfaces
         /\ IsTable(cls.fields, FieldsAt(cls))
         /\ IsTable(cls.methods, MethodsAt(cls))
         /\ file[AttributesAt(cls)].n = Len(cls.attributes)
         /\ AttributesAt(cls) + 2 \in Nat /\ cls.attributes \in AttributeList
         /\ IsList(cls.attributes, AttributesAt(cls) + 2)
         /\ NothingElse(file, cls)
<1>1. IsClassFile(file, cls)
  BY ClassFacts
<1>2. /\ cls.fields \in Seq(AttributeList) /\ cls.methods \in Seq(AttributeList)
      /\ cls.attributes \in AttributeList
  BY ClassFacts
<1>3. FieldsAt(cls) \in Nat /\ MethodsAt(cls) \in Nat /\ AttributesAt(cls) \in Nat
  BY TablesAt
<1>4. IsTable(cls.fields, FieldsAt(cls)) /\ IsTable(cls.methods, MethodsAt(cls))
  BY <1>1, <1>2, <1>3 DEF IsClassFile, IsTable
<1>5. AttributesAt(cls) + 2 \in Nat
  BY <1>3
<1>6. IsList(cls.attributes, AttributesAt(cls) + 2)
  BY <1>1, <1>2, <1>5 DEF IsClassFile, IsList
<1> QED
  BY <1>1, <1>2, <1>4, <1>5, <1>6 DEF IsClassFile, HasCount

\* A constant of the file is what its class says, and has the size the parser goes by.
LEMMA ConstantFacts ==
  ASSUME NEW cls \in Classes, file = FileOf(cls), NEW k \in 1..Len(cls.constants)
  PROVE  LET c == cls.constants[k]
             item == file[ConstantAt(cls, k)]
         IN  /\ ConstantAt(cls, k) \in DOMAIN file /\ item # Null
             /\ item.is = "constant" /\ item.tag = c.tag /\ item.id = k
             /\ item.meant = c.refs
             /\ DOMAIN item.refs = DOMAIN c.refs
             /\ \A j \in DOMAIN c.refs :
                  /\ item.refs[j] = SlotNumber(cls.constants, c.refs[j])
                  /\ c.refs[j] \in 1..Len(cls.constants)
             /\ c.tag \in Tags => SizeOf(item) = ConstantSize(c)
             /\ Wide(item) = Wide(c)
<1> DEFINE cs == cls.constants
           c == cs[k]
           item == file[ConstantAt(cls, k)]
<1>1. /\ cs \in Seq(ConstantEntry) /\ RefsInRange(cs) /\ IsClassFile(file, cls)
      /\ NothingElse(file, cls)
  BY ClassFacts, FileFacts
<1>2. DOMAIN cs = 1..Len(cs)
  BY <1>1, ElementsOfSequence
<1>3. HasConstant(file, ConstantAt(cls, k), cs, k)
  BY <1>1, <1>2 DEF IsClassFile
<1>4. /\ ConstantAt(cls, k) \in DOMAIN file
      /\ item.is = "constant" /\ item.tag = c.tag /\ item.length = c.length /\ item.id = k
      /\ item.meant = c.refs
      /\ item.refs = [j \in DOMAIN c.refs |-> SlotNumber(cs, c.refs[j])]
  BY <1>3 DEF HasConstant, Has
<1>5. item # Null
  BY <1>1, <1>4 DEF NothingElse
<1>6. /\ DOMAIN item.refs = DOMAIN c.refs
      /\ \A j \in DOMAIN c.refs : item.refs[j] = SlotNumber(cs, c.refs[j])
  BY <1>4
<1>7. \A j \in DOMAIN c.refs : c.refs[j] \in 1..Len(cs)
  BY <1>1, <1>2 DEF RefsInRange
<1>8. Wide(item) = Wide(c)
  BY <1>4 DEF Wide
<1> HIDE DEF c, item
<1>9. c.tag \in Tags => SizeOf(item) = ConstantSize(c)
  BY <1>4 DEF Tags, SizeOf, ConstantSize, Wide
<1> QED
  BY <1>4, <1>5, <1>6, <1>7, <1>8, <1>9 DEF c, item

\* Steps that leave the pool alone.
LEMMA PoolUnchanged ==
  ASSUME NEW cls, NEW k, PoolHolds(cls, k), UNCHANGED <<file, pool>>
  PROVE  PoolHolds(cls, k)'
BY DEF PoolHolds

LEMMA LinksUnchanged ==
  ASSUME Linked, UNCHANGED <<pool, links>>, section = "resolve" => section' = "resolve"
  PROVE  Linked'
BY DEF Linked, LinksReachWhatWasMeant

LEMMA StartReads ==
  ASSUME NEW cls \in Classes, file = FileOf(cls), AtHeader, Start
  PROVE  AtConstants(cls)' /\ Linked'
<1> DEFINE cs == cls.constants
           N == SlotNumber(cs, Len(cs) + 1)
<1>1. file[0].n = N /\ ConstantAt(cls, 1) = 10
  BY FileFacts, TablesAt
<1>2. SlotNumber(cs, 1) = 1 /\ Len(cs) \in Nat
  BY ClassFacts, SlotFacts, ElementsOfSequence
<1>3. /\ pool' = [slot \in 0..(N - 1) |-> Null]
      /\ links' = [slot \in 0..(N - 1) |-> <<>>]
      /\ offset' = 10 /\ section' = "constants" /\ next' = 1
      /\ left' = 0 /\ calls' = <<>>
  <2>1. /\ pool' = [slot \in 0..(N - 1) |-> Null]
        /\ links' = [slot \in DOMAIN pool' |-> <<>>]
        /\ offset' = 0 + 10
    BY <1>1 DEF AtHeader, Start
  <2> HIDE DEF N
  <2> QED
    BY <2>1 DEF AtHeader, Start, Idle
<1> HIDE DEF N
<1>4. PoolHolds(cls, 1)'
  BY <1>3 DEF PoolHolds, N
<1>5. 1 \in 1..(Len(cs) + 1)
  <2> DEFINE n == Len(cs)
  <2>1. n \in Nat
    BY <1>2
  <2> HIDE DEF n
  <2>2. 1 \in 1..(n + 1)
    BY <2>1
  <2> QED
    BY <2>2 DEF n
<1>6. AtConstants(cls)'
  BY <1>1, <1>2, <1>3, <1>4, <1>5 DEF AtConstants, ReadingConstants, Idle
<1>7. Linked'
  BY <1>3 DEF Linked, LinksReachWhatWasMeant
<1> QED
  BY <1>6, <1>7

\* The next slot is in the pool as long as there are constants.
LEMMA PoolIsRead ==
  ASSUME NEW cls \in Classes, NEW k \in 1..(Len(cls.constants) + 1), PoolHolds(cls, k),
         next = SlotNumber(cls.constants, k)
  PROVE  PoolRead <=> k = Len(cls.constants) + 1
<1> DEFINE cs == cls.constants
           n == Len(cs)
           N == SlotNumber(cs, n + 1)
<1>1. DOMAIN pool = 0..(N - 1)
  BY DEF PoolHolds
<1>2. n \in Nat
  BY ClassFacts, ElementsOfSequence
<1>3. /\ \A j \in 1..(n + 1) : SlotNumber(cs, j) \in Nat
      /\ \A i, j \in 1..(n + 1) : i < j => SlotNumber(cs, i) < SlotNumber(cs, j)
  BY ClassFacts, SlotFacts
<1>4. next \in Nat /\ next = SlotNumber(cs, k)
  BY <1>3
<1> HIDE DEF n
<1>5. n + 1 \in 1..(n + 1) /\ (k # n + 1 => k < n + 1)
  BY <1>2 DEF n
<1>6. N \in Nat /\ (k # n + 1 => next < N) /\ (k = n + 1 => next = N)
  BY <1>3, <1>4, <1>5 DEF n
<1> HIDE DEF N
<1>7. next \in 0..(N - 1) <=> next < N
  BY <1>4, <1>6
<1> QED
  BY <1>1, <1>4, <1>6, <1>7 DEF PoolRead, n

LEMMA ReadConstantReads ==
  ASSUME NEW cls \in Classes, file = FileOf(cls), AtConstants(cls), Linked, ReadConstant
  PROVE  AtConstants(cls)' /\ Linked'
<1> DEFINE cs == cls.constants
           n == Len(cs)
           N == SlotNumber(cs, n + 1)
<1>1. PICK k \in 1..(n + 1) : /\ next = SlotNumber(cs, k) /\ offset = ConstantAt(cls, k)
                              /\ PoolHolds(cls, k)
  BY DEF AtConstants, ReadingConstants
<1>2. /\ n \in Nat
      /\ \A j \in 1..(n + 1) : SlotNumber(cs, j) \in Nat
      /\ \A i, j \in 1..(n + 1) : i < j => SlotNumber(cs, i) < SlotNumber(cs, j)
      /\ \A j \in 1..n : SlotNumber(cs, j + 1) = SlotNumber(cs, j) + (IF Wide(cs[j]) THEN 2 ELSE 1)
  BY ClassFacts, SlotFacts, ElementsOfSequence
<1>3. k # n + 1
  BY <1>1, PoolIsRead DEF ReadConstant
<1>4. k \in Nat /\ k \in 1..n /\ k + 1 \in 1..(n + 1) /\ (k + 1) - 1 = k
  <2> HIDE DEF n
  <2> QED
    BY <1>2, <1>3
<1> DEFINE item == file[ConstantAt(cls, k)]
<1>5. /\ item # Null /\ item.tag = cs[k].tag /\ Wide(item) = Wide(cs[k])
      /\ cs[k].tag \in Tags => SizeOf(item) = ConstantSize(cs[k])
  BY <1>4, ConstantFacts
<1>6. /\ item.tag \in Tags
      /\ pool' = [pool EXCEPT ![next] = item]
      /\ offset' = offset + SizeOf(item)
      /\ next' = NextSlot(item)
      /\ section' = "constants" /\ left' = left /\ calls' = calls /\ links' = links
      /\ file' = file /\ section = "constants"
  BY <1>1 DEF ReadConstant
<1>7. cs[k].tag \in Tags
  BY <1>5, <1>6
<1> HIDE DEF item
<1>8. offset' = ConstantAt(cls, k + 1)
  BY <1>1, <1>4, <1>5, <1>6, <1>7, TablesAt
<1>9. next' = SlotNumber(cs, k + 1)
  <2>1. next' = IF Wide(item) THEN next + 2 ELSE next + 1
    BY <1>6 DEF NextSlot, Wide
  <2> QED
    BY <1>1, <1>2, <1>4, <1>5, <2>1
<1>10. DOMAIN pool' = DOMAIN pool /\ next \in DOMAIN pool /\ pool'[next] = item
       /\ \A slot \in DOMAIN pool : slot # next => pool'[slot] = pool[slot]
  <2>1. next \in DOMAIN pool
    BY DEF ReadConstant, PoolRead
  <2> QED
    BY <1>6, <2>1
<1>11. PoolHolds(cls, k + 1)'
  <2>1. DOMAIN pool' = 0..(N - 1)
    BY <1>1, <1>10 DEF PoolHolds
  <2>2. ASSUME NEW j \in 1..((k + 1) - 1)
        PROVE  pool'[SlotNumber(cs, j)] = file[ConstantAt(cls, j)] /\ cs[j].tag \in Tags
    <3>1. CASE j = k
      BY <1>1, <1>7, <1>10, <3>1 DEF item
    <3>2. CASE j # k
      <4>1. j \in 1..(k - 1) /\ j \in 1..(n + 1) /\ k \in 1..(n + 1) /\ j < k
        <5> HIDE DEF n
        <5> QED
          BY <1>2, <1>4, <3>2
      <4>2. /\ pool[SlotNumber(cs, j)] = file[ConstantAt(cls, j)] /\ cs[j].tag \in Tags
        BY <1>1, <4>1 DEF PoolHolds
      <4>3. SlotNumber(cs, j) # next /\ SlotNumber(cs, j) \in Nat /\ SlotNumber(cs, j) < next
            /\ next \in Nat
        <5>1. SlotNumber(cs, j) < SlotNumber(cs, k)
              /\ SlotNumber(cs, j) \in Nat /\ SlotNumber(cs, k) \in Nat
          BY <1>2, <4>1
        <5> QED
          BY <1>1, <5>1
      <4>4. SlotNumber(cs, j) \in DOMAIN pool
        <5>1. next \in 0..(N - 1) /\ N \in Nat
          <6>1. n + 1 \in 1..(n + 1)
            BY <1>4
          <6> QED
            BY <1>2, <1>10, <2>1, <6>1
        <5>2. SlotNumber(cs, j) \in 0..(N - 1)
          <6> HIDE DEF N
          <6> QED
            BY <4>3, <5>1
        <5> QED
          BY <1>10, <2>1, <5>2
      <4> QED
        BY <1>10, <4>2, <4>3, <4>4
    <3> QED
      BY <3>1, <3>2
  <2>3. ASSUME NEW slot \in DOMAIN pool'
        PROVE  pool'[slot] = Null \/ \E j \in 1..((k + 1) - 1) : slot = SlotNumber(cs, j)
    <3>1. CASE slot = next
      <4>1. k \in 1..((k + 1) - 1)
        BY <1>4
      <4> QED
        BY <1>1, <3>1, <4>1
    <3>2. CASE slot # next
      <4>1. pool'[slot] = pool[slot] /\ slot \in DOMAIN pool
        BY <1>10, <3>2
      <4>2. pool[slot] = Null \/ \E j \in 1..(k - 1) : slot = SlotNumber(cs, j)
        BY <1>1, <4>1 DEF PoolHolds
      <4>3. \A j \in 1..(k - 1) : j \in 1..((k + 1) - 1)
        BY <1>4
      <4> QED
        BY <4>1, <4>2, <4>3
    <3> QED
      BY <3>1, <3>2
  <2> QED
    BY <1>6, <2>1, <2>2, <2>3 DEF PoolHolds
<1>12. AtConstants(cls)'
  BY <1>4, <1>6, <1>8, <1>9, <1>11 DEF AtConstants, ReadingConstants, Idle
<1>13. Linked'
  <2>1. DOMAIN links' = DOMAIN pool'
    BY <1>6, <1>10 DEF Linked
  <2>2. \A slot \in DOMAIN links' : links'[slot] = <<>>
    BY <1>6 DEF Linked
  <2> QED
    BY <2>1, <2>2 DEF Linked, LinksReachWhatWasMeant
<1> QED
  BY <1>12, <1>13

LEMMA ReadClassReads ==
  ASSUME NEW cls \in Classes, file = FileOf(cls), AtConstants(cls), Linked, ReadClass
  PROVE  AtInterfaces(cls)' /\ Linked'
<1>1. PICK k \in 1..(Len(cls.constants) + 1) :
        /\ next = SlotNumber(cls.constants, k) /\ offset = ConstantAt(cls, k)
        /\ PoolHolds(cls, k)
  BY DEF AtConstants, ReadingConstants
<1>2. k = Len(cls.constants) + 1
  BY <1>1, PoolIsRead DEF ReadClass
<1>3. offset = ClassAt(cls)
  BY <1>1, <1>2, TablesAt
<1>4. /\ offset' = offset + 6 /\ section' = "class" /\ section = "constants"
      /\ left' = left /\ calls' = calls /\ UNCHANGED <<file, pool, links>>
  BY DEF ReadClass
<1>5. offset' = InterfacesAt(cls)
  BY <1>3, <1>4 DEF InterfacesAt
<1>6. PoolHolds(cls, Len(cls.constants) + 1)'
  BY <1>1, <1>2, <1>4, PoolUnchanged
<1> QED
  BY <1>4, <1>5, <1>6, LinksUnchanged DEF AtConstants, AtInterfaces, AllConstants, Idle

LEMMA ReadInterfacesReads ==
  ASSUME NEW cls \in Classes, file = FileOf(cls), AtInterfaces(cls), Linked, ReadInterfaces
  PROVE  AtFields(cls)' /\ Linked'
<1>1. /\ offset' = offset + 2 + 2 * file[offset].n /\ section' = "interfaces"
      /\ section = "class"
      /\ left' = left /\ calls' = calls /\ UNCHANGED <<file, pool, links>>
  BY DEF ReadInterfaces
<1>2. offset = InterfacesAt(cls) /\ file[offset].n = cls.interfaces
  BY FileFacts DEF AtInterfaces
<1>3. offset' = FieldsAt(cls)
  BY <1>1, <1>2 DEF FieldsAt
<1>4. PoolHolds(cls, Len(cls.constants) + 1)'
  BY <1>1, PoolUnchanged DEF AtInterfaces, AllConstants
<1> QED
  BY <1>1, <1>3, <1>4, LinksUnchanged DEF AtFields, AtInterfaces, AllConstants, Idle

LEMMA BeginFieldsReads ==
  ASSUME NEW cls \in Classes, file = FileOf(cls), AtFields(cls), Linked, BeginMembers
  PROVE  InFields(cls)' /\ Linked'
<1>1. section = "interfaces" /\ section' = "fields" /\ UNCHANGED <<file, pool, links>>
  BY DEF AtFields, BeginMembers
<1>2. ReadingMembers(cls.fields, FieldsAt(cls))'
  BY FileFacts, BeginTable DEF AtFields
<1>3. PoolHolds(cls, Len(cls.constants) + 1)'
  BY <1>1, PoolUnchanged DEF AtFields, AllConstants
<1> QED
  BY <1>1, <1>2, <1>3, LinksUnchanged DEF InFields, AllConstants

LEMMA BeginMethodsReads ==
  ASSUME NEW cls \in Classes, file = FileOf(cls), InFields(cls), Linked, BeginMembers
  PROVE  InMethods(cls)' /\ Linked'
<1>1. /\ section = "fields" /\ section' = "methods" /\ UNCHANGED <<file, pool, links>>
      /\ left = 0 /\ calls = <<>>
  BY DEF InFields, BeginMembers
<1>2. offset = MethodsAt(cls) /\ AllMembers(cls.fields)
  BY <1>1, FileFacts, TableRead DEF InFields, MethodsAt
<1>3. ReadingMembers(cls.methods, MethodsAt(cls))'
  BY <1>2, FileFacts, BeginTable
<1>4. PoolHolds(cls, Len(cls.constants) + 1)'
  BY <1>1, PoolUnchanged DEF InFields, AllConstants
<1> QED
  BY <1>1, <1>2, <1>3, <1>4, LinksUnchanged DEF InMethods, AllConstants, AllMembers

LEMMA BeginClassAttributesReads ==
  ASSUME NEW cls \in Classes, file = FileOf(cls), InMethods(cls), Linked, BeginClassAttributes
  PROVE  InClassAttributes(cls)' /\ Linked'
<1>1. /\ section = "methods" /\ section' = "attributes" /\ UNCHANGED <<file, pool, links>>
      /\ left = 0 /\ left' = 0 /\ calls = <<>>
      /\ calls' = <<Call(file[offset].n, offset + 2)>>
  BY DEF BeginClassAttributes
<1>2. offset = AttributesAt(cls) /\ AllMembers(cls.methods)
  BY <1>1, FileFacts, TableRead DEF InMethods, AttributesAt
<1>3. ReadingAttributes(cls.attributes, AttributesAt(cls) + 2)'
  <2>1. calls' = <<Call(Len(cls.attributes), AttributesAt(cls) + 2)>>
    BY <1>1, <1>2, FileFacts
  <2> QED
    BY <2>1, FileFacts, BeginList
<1>4. PoolHolds(cls, Len(cls.constants) + 1)'
  BY <1>1, PoolUnchanged DEF InMethods, AllConstants
<1>5. AllMembers(cls.fields)' /\ AllMembers(cls.methods)'
  BY <1>2 DEF InMethods, AllMembers
<1> QED
  BY <1>1, <1>3, <1>4, <1>5, LinksUnchanged DEF InClassAttributes, AllConstants

\* The actions on members and their attributes keep the section.
LEMMA InFieldsReads ==
  ASSUME NEW cls \in Classes, file = FileOf(cls), InFields(cls), Linked,
         ReadMember \/ ReadAttribute \/ ReadCode \/ EndAttributes
  PROVE  InFields(cls)' /\ Linked'
<1>1. section = "fields" /\ section' = "fields" /\ UNCHANGED <<file, pool, links>>
  BY DEF InFields, ReadMember, ReadAttribute, ReadCode, EndAttributes
<1>2. ReadingMembers(cls.fields, FieldsAt(cls))'
  BY FileFacts, ReadMemberReads, AttributesOfMember DEF InFields
<1>3. PoolHolds(cls, Len(cls.constants) + 1)'
  BY <1>1, PoolUnchanged DEF InFields, AllConstants
<1> QED
  BY <1>1, <1>2, <1>3, LinksUnchanged DEF InFields, AllConstants

LEMMA InMethodsReads ==
  ASSUME NEW cls \in Classes, file = FileOf(cls), InMethods(cls), Linked,
         ReadMember \/ ReadAttribute \/ ReadCode \/ EndAttributes
  PROVE  InMethods(cls)' /\ Linked'
<1>1. section = "methods" /\ section' = "methods" /\ UNCHANGED <<file, pool, links>>
  BY DEF InMethods, ReadMember, ReadAttribute, ReadCode, EndAttributes
<1>2. ReadingMembers(cls.methods, MethodsAt(cls))'
  BY FileFacts, ReadMemberReads, AttributesOfMember DEF InMethods
<1>3. PoolHolds(cls, Len(cls.constants) + 1)'
  BY <1>1, PoolUnchanged DEF InMethods, AllConstants
<1>4. AllMembers(cls.fields)'
  BY DEF InMethods, AllMembers
<1> QED
  BY <1>1, <1>2, <1>3, <1>4, LinksUnchanged DEF InMethods, AllConstants

LEMMA InClassAttributesReads ==
  ASSUME NEW cls \in Classes, file = FileOf(cls), InClassAttributes(cls), Linked,
         ReadAttribute \/ ReadCode \/ EndAttributes
  PROVE  (InClassAttributes(cls)' \/ AtLinks(cls)') /\ Linked'
<1> DEFINE as == cls.attributes
           at == AttributesAt(cls) + 2
<1>1. /\ section = "attributes" /\ left = 0 /\ left' = 0 /\ UNCHANGED <<file, pool, links>>
  BY DEF InClassAttributes, ReadAttribute, ReadCode, EndAttributes
<1>2. IsList(as, at) /\ ReadingAttributes(as, at)
  BY FileFacts DEF InClassAttributes
<1>3. PoolHolds(cls, Len(cls.constants) + 1)'
  BY <1>1, PoolUnchanged DEF InClassAttributes, AllConstants
<1>4. AllMembers(cls.fields)' /\ AllMembers(cls.methods)'
  BY DEF InClassAttributes, AllMembers
<1>5. CASE ReadAttribute \/ ReadCode \/ (EndAttributes /\ Len(calls) > 1)
  <2>1. section' = "attributes"
    BY <1>1, <1>5 DEF ReadAttribute, ReadCode, EndAttributes
  <2>2. ReadingAttributes(as, at)'
    <3> HIDE DEF as, at
    <3> QED
      BY <1>2, <1>5, ReadAttributeReads, ReadCodeReads, EndCodeReads
  <2> QED
    BY <1>1, <1>3, <1>4, <2>1, <2>2, LinksUnchanged DEF InClassAttributes, AllConstants
<1>6. CASE EndAttributes /\ ~(Len(calls) > 1)
  <2>1. calls' = <<>> /\ offset' = Ends(AttributeSizes(as), at) /\ FineTo(as, Len(as))
    <3> HIDE DEF as, at
    <3> QED
      BY <1>2, <1>6, EndListReads
  <2>2. section' = "resolve" /\ next' = 1
    BY <1>1, <1>6 DEF EndAttributes
  <2>3. offset' = EndAt(cls)
    BY <2>1 DEF EndAt
  <2> QED
    BY <1>1, <1>3, <1>4, <2>1, <2>2, <2>3, LinksUnchanged
    DEF AtLinks, AllConstants, Idle, FineTo
<1> QED
  BY <1>5, <1>6

-----------------------------------------------------------------------------
(* Resolving the pool *)

\* A slot that is not empty holds the constant it is numbered for.
LEMMA SlotHolds ==
  ASSUME NEW cls \in Classes, file = FileOf(cls), AllConstants(cls)
  PROVE  /\ Len(cls.constants) \in Nat
         /\ \A k \in 1..Len(cls.constants) :
              /\ pool[SlotNumber(cls.constants, k)] = file[ConstantAt(cls, k)]
              /\ cls.constants[k].tag \in Tags
         /\ \A slot \in DOMAIN pool : pool[slot] # Null =>
              \E k \in 1..Len(cls.constants) : slot = SlotNumber(cls.constants, k)
<1> DEFINE n == Len(cls.constants)
<1>1. n \in Nat
  BY ClassFacts, ElementsOfSequence
<1> HIDE DEF n
<1>2. (n + 1) - 1 = n
  BY <1>1
<1> QED
  BY <1>1, <1>2 DEF AllConstants, PoolHolds, n

\* An empty slot of the pool is a phantom's.
LEMMA EmptySlotIsPhantom ==
  ASSUME NEW cls \in Classes, file = FileOf(cls), AllConstants(cls),
         next \in Nat \ {0}, next \in DOMAIN pool, pool[next] = Null
  PROVE  Unloadable
<1> DEFINE cs == cls.constants
           N == SlotNumber(cs, Len(cs) + 1)
<1>1. DOMAIN pool = 0..(N - 1)
  BY DEF AllConstants, PoolHolds
<1>2. next \in 1..(N - 1)
  <2> HIDE DEF N
  <2> QED
    BY <1>1
<1>3. PICK k \in 1..Len(cs) :
        next = SlotNumber(cs, k) \/ (Wide(cs[k]) /\ next = SlotNumber(cs, k) + 1)
  BY <1>2, ClassFacts, SlotIsSomeones
<1>4. /\ pool[SlotNumber(cs, k)] = file[ConstantAt(cls, k)]
  BY SlotHolds
<1>5. /\ ConstantAt(cls, k) \in DOMAIN file /\ file[ConstantAt(cls, k)] # Null
      /\ file[ConstantAt(cls, k)].is = "constant"
      /\ Wide(file[ConstantAt(cls, k)]) = Wide(cs[k])
  BY ConstantFacts
<1>6. Wide(cs[k])
  BY <1>3, <1>4, <1>5
<1> QED
  BY <1>5, <1>6 DEF Unloadable

\* With every slot behind the reader, no constant was a long or double.
LEMMA AllSlotsHold ==
  ASSUME NEW cls \in Classes, file = FileOf(cls), AtLinks(cls), PoolRead
  PROVE  \A k \in 1..Len(cls.constants) : ~Wide(cls.constants[k])
<1> DEFINE cs == cls.constants
           n == Len(cs)
           N == SlotNumber(cs, n + 1)
<1> SUFFICES ASSUME NEW k \in 1..n, Wide(cs[k]) PROVE FALSE
  OBVIOUS
<1>1. /\ n \in Nat
      /\ \A j \in 1..(n + 1) : SlotNumber(cs, j) \in Nat /\ SlotNumber(cs, j) >= 1
      /\ \A i, j \in 1..(n + 1) : i < j => SlotNumber(cs, i) < SlotNumber(cs, j)
      /\ SlotNumber(cs, k + 1) = SlotNumber(cs, k) + 2
  BY ClassFacts, SlotFacts, ElementsOfSequence
<1> DEFINE phantom == SlotNumber(cs, k) + 1
<1>2. /\ k \in 1..(n + 1) /\ k + 1 \in 1..(n + 1) /\ n + 1 \in 1..(n + 1)
      /\ k + 1 = n + 1 \/ k + 1 < n + 1
  <2> HIDE DEF n
  <2> QED
    BY <1>1
<1>3. phantom \in Nat \ {0} /\ phantom < SlotNumber(cs, k + 1) /\ SlotNumber(cs, k + 1) <= N
      /\ N \in Nat
  <2>1. /\ SlotNumber(cs, k) \in Nat /\ SlotNumber(cs, k + 1) \in Nat /\ N \in Nat
        /\ SlotNumber(cs, k + 1) = N \/ SlotNumber(cs, k + 1) < N
    BY <1>1, <1>2
  <2> HIDE DEF N
  <2> QED
    BY <1>1, <2>1
<1>4. DOMAIN pool = 0..(N - 1) /\ AllConstants(cls)
  BY DEF AtLinks, AllConstants, PoolHolds
<1>5. phantom \in DOMAIN pool /\ phantom < N
  <2>1. phantom \in Nat /\ N \in Nat /\ phantom < N
    <3>1. SlotNumber(cs, k + 1) \in Nat
      BY <1>1, <1>2
    <3> HIDE DEF N, phantom
    <3> QED
      BY <1>3, <3>1
  <2> HIDE DEF N, phantom
  <2> QED
    BY <1>4, <2>1
<1>6. next \in Nat \ {0} /\ next >= N
  <2>1. next \in Nat \ {0} /\ next \notin 0..(N - 1)
    BY <1>4 DEF AtLinks, PoolRead
  <2> HIDE DEF N
  <2> QED
    BY <1>3, <2>1
<1>7. pool[phantom] # Null
  <2>1. phantom \in 1..(next - 1)
    <3> HIDE DEF N, phantom
    <3> QED
      BY <1>3, <1>5, <1>6
  <2> QED
    BY <2>1 DEF AtLinks
<1>8. PICK j \in 1..n : phantom = SlotNumber(cs, j)
  BY <1>4, <1>5, <1>7, SlotHolds
<1>9. j \in 1..(n + 1) /\ (j = k \/ j < k \/ j = k + 1 \/ k + 1 < j)
  <2> HIDE DEF n
  <2> QED
    BY <1>1
<1>10. /\ SlotNumber(cs, j) \in Nat /\ SlotNumber(cs, k) \in Nat
       /\ \/ SlotNumber(cs, j) = SlotNumber(cs, k) \/ SlotNumber(cs, j) < SlotNumber(cs, k)
          \/ SlotNumber(cs, j) = SlotNumber(cs, k + 1)
          \/ SlotNumber(cs, k + 1) < SlotNumber(cs, j)
  BY <1>1, <1>2, <1>9
<1> QED
  BY <1>1, <1>8, <1>10

LEMMA ResolveReads ==
  ASSUME NEW cls \in Classes, file = FileOf(cls), AtLinks(cls), Linked, Ended,
         vm = "running", Resolve
  PROVE  AtLinks(cls)' /\ Linked' /\ Ended'
<1> DEFINE cs == cls.constants
           n == Len(cs)
<1>1. /\ UNCHANGED <<file, offset, section, left, calls, pool>> /\ section = "resolve"
  BY DEF Resolve
<1>2. /\ Idle' /\ offset' = EndAt(cls) /\ section' = "resolve"
      /\ AllConstants(cls)' /\ AllMembers(cls.fields)' /\ AllMembers(cls.methods)'
      /\ FineTo(cls.attributes, Len(cls.attributes))'
  <2>1. AllConstants(cls)'
    BY <1>1, PoolUnchanged DEF AtLinks, AllConstants
  <2>2. AllMembers(cls.fields)' /\ AllMembers(cls.methods)'
        /\ FineTo(cls.attributes, Len(cls.attributes))'
    BY DEF AtLinks, AllMembers, FineTo
  <2> QED
    BY <1>1, <2>1, <2>2 DEF AtLinks, Idle
<1>3. CASE PoolRead
  <2>1. vm' = "parsed" /\ links' = links /\ next' = next
    BY <1>3 DEF Resolve
  <2>2. PoolRead'
    BY <1>1, <1>3, <2>1 DEF PoolRead
  <2>3. AtLinks(cls)'
    BY <1>1, <1>2, <2>1 DEF AtLinks
  <2>4. Linked'
    BY <1>1, <2>1, LinksUnchanged
  <2>5. Ended'
    BY <1>2, <2>1, <2>2 DEF Ended
  <2> QED
    BY <2>3, <2>4, <2>5
<1>4. CASE ~PoolRead /\ pool[next] = Null
  <2>1. vm' = "aborted" /\ links' = links /\ next' = next
    BY <1>4 DEF Resolve, ResolveSlot
  <2>2. AtLinks(cls)'
    BY <1>1, <1>2, <2>1 DEF AtLinks
  <2>3. Linked'
    BY <1>1, <2>1, LinksUnchanged
  <2>4. Unloadable
    BY <1>4, EmptySlotIsPhantom DEF AtLinks, PoolRead
  <2>5. Ended'
    BY <1>1, <2>1, <2>4 DEF Ended, Unloadable
  <2> QED
    BY <2>2, <2>3, <2>5
<1>5. CASE ~PoolRead /\ pool[next] # Null
  <2> DEFINE stored == [k \in DOMAIN pool[next].refs |-> pool[pool[next].refs[k]]]
  <2>1. /\ links' = [links EXCEPT ![next] = stored]
        /\ next' = next + 1 /\ vm' = "running"
    BY <1>5 DEF Resolve, ResolveSlot
  <2>2. /\ AllConstants(cls) /\ next \in Nat \ {0} /\ next \in DOMAIN pool
        /\ \A slot \in 1..(next - 1) : slot \in DOMAIN pool /\ pool[slot] # Null
    BY <1>5 DEF AtLinks, PoolRead
  <2>3. AtLinks(cls)'
    <3>1. next' \in Nat \ {0} /\ \A slot \in 1..(next' - 1) : slot \in 1..(next - 1) \/ slot = next
      BY <2>1, <2>2
    <3>2. \A slot \in 1..(next' - 1) : slot \in DOMAIN pool' /\ pool'[slot] # Null
      BY <1>1, <1>5, <2>2, <3>1
    <3> QED
      BY <1>2, <3>1, <3>2 DEF AtLinks
  <2>4. PICK j \in 1..n : next = SlotNumber(cs, j)
    BY <1>5, <2>2, SlotHolds
  <2> DEFINE item == file[ConstantAt(cls, j)]
  <2>5. pool[next] = item
    BY <2>2, <2>4, SlotHolds
  <2>6. /\ DOMAIN item.refs = DOMAIN cs[j].refs /\ item.meant = cs[j].refs
        /\ \A k \in DOMAIN cs[j].refs : item.refs[k] = SlotNumber(cs, cs[j].refs[k])
                                        /\ cs[j].refs[k] \in 1..n
    BY ConstantFacts
  <2>7. ASSUME NEW k \in DOMAIN stored
        PROVE  stored[k] # Null /\ stored[k].id = pool[next].meant[k]
    <3> DEFINE m == cs[j].refs[k]
    <3> HIDE DEF item
    <3>1. stored[k] = pool[SlotNumber(cs, m)] /\ m \in 1..n /\ item.meant[k] = m
      BY <2>5, <2>6
    <3>2. pool[SlotNumber(cs, m)] = file[ConstantAt(cls, m)]
      BY <2>2, <3>1, SlotHolds
    <3>3. file[ConstantAt(cls, m)] # Null /\ file[ConstantAt(cls, m)].id = m
      BY <3>1, ConstantFacts
    <3> QED
      BY <2>5, <3>1, <3>2, <3>3
  <2> HIDE DEF stored
  <2>8. /\ DOMAIN links' = DOMAIN links /\ DOMAIN links = DOMAIN pool
        /\ links'[next] = stored
        /\ \A slot \in DOMAIN links : slot # next => links'[slot] = links[slot]
    BY <2>1, <2>2 DEF Linked
  <2>9. LinksReachWhatWasMeant'
    <3> SUFFICES ASSUME NEW slot \in DOMAIN links', NEW k \in DOMAIN links'[slot]
                 PROVE  /\ links'[slot][k] # Null
                        /\ links'[slot][k].id = pool'[slot].meant[k]
      BY DEF LinksReachWhatWasMeant
    <3>1. CASE slot = next
      BY <1>1, <2>7, <2>8, <3>1
    <3>2. CASE slot # next
      BY <1>1, <2>8, <3>2 DEF Linked, LinksReachWhatWasMeant
    <3> QED
      BY <3>1, <3>2
  <2>10. Linked'
    BY <1>1, <1>2, <2>8, <2>9 DEF Linked
  <2>11. Ended'
    BY <2>1 DEF Ended
  <2> QED
    BY <2>3, <2>10, <2>11
<1> QED
  BY <1>3, <1>4, <1>5

-----------------------------------------------------------------------------
(* The invariant *)

LEMMA InitParser == Init => ParserInv
<1> SUFFICES ASSUME Init PROVE ParserInv
  OBVIOUS
<1>1. PICK cls \in Classes : file = FileOf(cls)
  <2>1. file \in {FileOf(cls) : cls \in Classes}
    BY ClassFileAssumption DEF Init
  <2> QED
    BY <2>1
<1>2. AtHeader
  BY DEF Init, AtHeader, Idle
<1>3. Linked
  BY DEF Init, Linked, LinksReachWhatWasMeant
<1>4. Ended
  BY DEF Init, Ended
<1> QED
  BY <1>1, <1>2, <1>3, <1>4 DEF ParserInv, Placed

\* Steps that move nothing.
LEMMA PlacedUnchanged ==
  ASSUME NEW cls, Placed(cls),
         UNCHANGED <<file, offset, section, left, calls, pool, next, links>>
  PROVE  Placed(cls)'
<1>1. \A k : PoolHolds(cls, k) => PoolHolds(cls, k)'
  BY DEF PoolHolds
<1>2. \A as, at : ReadingAttributes(as, at) => ReadingAttributes(as, at)'
  <2> SUFFICES ASSUME NEW as, NEW at, ReadingAttributes(as, at)
               PROVE  ReadingAttributes(as, at)'
    OBVIOUS
  <2>1. \A i : BetweenAttributes(as, at, i) => BetweenAttributes(as, at, i)'
    BY DEF BetweenAttributes, FineTo
  <2>2. \A i, q : InsideCode(as, at, i, q) => InsideCode(as, at, i, q)'
    BY DEF InsideCode, FineTo
  <2> QED
    BY <2>1, <2>2 DEF ReadingAttributes, InCode
<1>3. \A members, at : ReadingMembers(members, at) => ReadingMembers(members, at)'
  <2> SUFFICES ASSUME NEW members, NEW at, ReadingMembers(members, at)
               PROVE  ReadingMembers(members, at)'
    OBVIOUS
  <2> QED
    BY <1>2 DEF ReadingMembers, FineMembersTo, FineTo
<1>4. /\ AtHeader => AtHeader'
      /\ AtConstants(cls) => AtConstants(cls)'
      /\ AtInterfaces(cls) => AtInterfaces(cls)'
      /\ AtFields(cls) => AtFields(cls)'
  BY <1>1 DEF AtHeader, AtConstants, ReadingConstants, AtInterfaces, AtFields, AllConstants, Idle
<1>5. /\ InFields(cls) => InFields(cls)'
      /\ InMethods(cls) => InMethods(cls)'
      /\ InClassAttributes(cls) => InClassAttributes(cls)'
      /\ AtLinks(cls) => AtLinks(cls)'
  BY <1>1, <1>2, <1>3 DEF InFields, InMethods, InClassAttributes, AtLinks, AllConstants,
     AllMembers, FineTo, Idle
<1> QED
  BY <1>4, <1>5 DEF Placed

\* Every reading action, from where it can happen.
LEMMA ReadingKeepsPlace ==
  ASSUME NEW cls \in Classes, file = FileOf(cls), Placed(cls), Linked,
         \/ Start \/ ReadConstant \/ ReadClass \/ ReadInterfaces \/ BeginMembers
         \/ ReadMember \/ BeginClassAttributes
         \/ ReadAttribute \/ ReadCode \/ EndAttributes
  PROVE  Placed(cls)' /\ Linked' /\ file' = file /\ vm' = vm
<1>1. file' = file /\ vm' = vm
  BY DEF Start, ReadConstant, ReadClass, ReadInterfaces, BeginMembers, ReadMember,
         BeginClassAttributes, ReadAttribute, ReadCode, EndAttributes
<1>2. CASE Start
  <2>1. AtHeader
    BY <1>2 DEF Start, Placed, AtConstants, AtInterfaces, AtFields, InFields, InMethods,
                InClassAttributes, AtLinks
  <2> QED
    BY <1>1, <1>2, <2>1, StartReads DEF Placed
<1>3. CASE ReadConstant \/ ReadClass
  <2>1. AtConstants(cls)
    BY <1>3 DEF ReadConstant, ReadClass, Placed, AtHeader, AtInterfaces, AtFields, InFields,
                InMethods, InClassAttributes, AtLinks
  <2> QED
    BY <1>1, <1>3, <2>1, ReadConstantReads, ReadClassReads DEF Placed
<1>4. CASE ReadInterfaces
  <2>1. AtInterfaces(cls)
    BY <1>4 DEF ReadInterfaces, Placed, AtHeader, AtConstants, AtFields, InFields, InMethods,
                InClassAttributes, AtLinks
  <2> QED
    BY <1>1, <1>4, <2>1, ReadInterfacesReads DEF Placed
<1>5. CASE BeginMembers
  <2>1. AtFields(cls) \/ InFields(cls)
    BY <1>5 DEF BeginMembers, Placed, AtHeader, AtConstants, AtInterfaces, InMethods,
                InClassAttributes, AtLinks
  <2> QED
    BY <1>1, <1>5, <2>1, BeginFieldsReads, BeginMethodsReads DEF Placed
<1>6. CASE BeginClassAttributes
  <2>1. InMethods(cls)
    BY <1>6 DEF BeginClassAttributes, Placed, AtHeader, AtConstants, AtInterfaces, AtFields,
                InFields, InClassAttributes, AtLinks
  <2> QED
    BY <1>1, <1>6, <2>1, BeginClassAttributesReads DEF Placed
<1>7. CASE ReadMember
  <2>1. InFields(cls) \/ InMethods(cls)
    BY <1>7 DEF ReadMember, Placed, AtHeader, AtConstants, AtInterfaces, AtFields, Idle,
                InClassAttributes, AtLinks
  <2> QED
    BY <1>1, <1>7, <2>1, InFieldsReads, InMethodsReads DEF Placed
<1>8. CASE ReadAttribute \/ ReadCode \/ EndAttributes
  <2>1. InFields(cls) \/ InMethods(cls) \/ InClassAttributes(cls)
    <3>1. calls # <<>>
      BY <1>8 DEF ReadAttribute, ReadCode, EndAttributes, InAttributes
    <3> QED
      BY <3>1 DEF Placed, AtHeader, AtConstants, AtInterfaces, AtFields, AtLinks, Idle
  <2> QED
    BY <1>1, <1>8, <2>1, InFieldsReads, InMethodsReads, InClassAttributesReads DEF Placed
<1> QED
  BY <1>2, <1>3, <1>4, <1>5, <1>6, <1>7, <1>8

LEMMA NextParser == ParserInv /\ [Next]_vars => ParserInv'
<1> SUFFICES ASSUME ParserInv, [Next]_vars PROVE ParserInv'
  OBVIOUS
<1>1. PICK cls \in Classes : file = FileOf(cls) /\ Placed(cls)
  BY DEF ParserInv
<1>2. Linked /\ Ended
  BY DEF ParserInv
<1>3. CASE UNCHANGED vars
  <2>1. Placed(cls)'
    BY <1>1, <1>3, PlacedUnchanged DEF vars
  <2>2. Linked'
    BY <1>2, <1>3, LinksUnchanged DEF vars
  <2>3. Ended' /\ file' = file
    BY <1>2, <1>3 DEF Ended, Unloadable, PoolRead, vars
  <2> QED
    BY <1>1, <2>1, <2>2, <2>3 DEF ParserInv
<1>4. CASE UnknownConstant \/ UnknownAttribute
  <2>1. /\ UNCHANGED <<file, offset, section, left, calls, pool, next, links>>
        /\ vm' = "aborted"
    BY <1>4 DEF UnknownConstant, UnknownAttribute
  <2>2. Unloadable
    BY <1>4 DEF UnknownConstant, UnknownAttribute, InAttributes, Attribute, Reads, Unloadable
  <2>3. Placed(cls)'
    BY <1>1, <2>1, PlacedUnchanged
  <2>4. Linked'
    BY <1>2, <2>1, LinksUnchanged
  <2>5. Ended'
    BY <2>1, <2>2 DEF Ended, Unloadable
  <2> QED
    BY <1>1, <2>1, <2>3, <2>4, <2>5 DEF ParserInv
<1>5. CASE vm = "running" /\ Resolve
  <2>1. AtLinks(cls)
    BY <1>1, <1>5 DEF Resolve, Placed, AtHeader, AtConstants, AtInterfaces, AtFields, InFields,
                      InMethods, InClassAttributes
  <2>2. AtLinks(cls)' /\ Linked' /\ Ended'
    BY <1>1, <1>2, <1>5, <2>1, ResolveReads
  <2>3. file' = file
    BY <1>5 DEF Resolve
  <2> QED
    BY <1>1, <2>2, <2>3 DEF ParserInv, Placed
<1>6. CASE vm = "running" /\ (\/ Start \/ ReadConstant \/ ReadClass \/ ReadInterfaces
                              \/ BeginMembers \/ ReadMember \/ BeginClassAttributes
                              \/ ReadAttribute \/ ReadCode \/ EndAttributes)
  <2>1. Placed(cls)' /\ Linked' /\ file' = file /\ vm' = vm
    BY <1>1, <1>2, <1>6, ReadingKeepsPlace
  <2>2. Ended'
    BY <1>6, <2>1 DEF Ended
  <2> QED
    BY <1>1, <2>1, <2>2 DEF ParserInv
<1> QED
  BY <1>3, <1>4, <1>5, <1>6 DEF Next

LEMMA ParserInvHolds == Spec => []ParserInv
<1> QED
  BY InitParser, NextParser, PTL DEF Spec

-----------------------------------------------------------------------------
(* What the invariant is for *)

\* Whatever classes the files are of, every link leads to the constant that was meant.
THEOREM LinksLead == Spec => []LinksReachWhatWasMeant
<1>1. ParserInv => LinksReachWhatWasMeant
  BY DEF ParserInv, Linked
<1> QED
  BY <1>1, ParserInvHolds, PTL

\* An attribute of a list whose attributes are all fine is one the parser knows.
LEMMA FineListIsKnown ==
  ASSUME NEW as, NEW at, IsList(as, at), FineTo(as, Len(as)),
         NEW here, AttributeOf(file, here, as, at)
  PROVE  file[here].name \in Known
<1>1. DOMAIN as = 1..Len(as)
  BY AttributesAtFacts DEF IsList
<1>2. PICK k \in 1..Len(as) :
        \/ here = Begins(AttributeSizes(as), at, k)
        \/ /\ as[k].name = "Code"
           /\ \E j \in DOMAIN as[k].inner :
                here = Begins(PlainSizes(as[k].inner),
                              Begins(AttributeSizes(as), at, k) + 6 + CodeSize(as[k]), j)
  BY <1>1 DEF AttributeOf
<1>3. Fine(as[k])
  BY DEF FineTo
<1>4. CASE here = Begins(AttributeSizes(as), at, k)
  <2>1. file[here].name = as[k].name
    BY <1>4, ListFacts
  <2> QED
    BY <1>3, <2>1 DEF Fine
<1>5. CASE as[k].name = "Code" /\ \E j \in DOMAIN as[k].inner :
             here = Begins(PlainSizes(as[k].inner),
                           Begins(AttributeSizes(as), at, k) + 6 + CodeSize(as[k]), j)
  <2> DEFINE a == as[k]
             begin == Begins(AttributeSizes(as), at, k)
             body == begin + 6
  <2>1. begin \in Nat /\ a \in CodeAttribute /\ HasCode(file, body, a)
    BY <1>5, ListFacts
  <2>2. PICK j \in DOMAIN a.inner : here = Begins(PlainSizes(a.inner), body + CodeSize(a), j)
    BY <1>5
  <2>3. a.inner[j].name \in Known
    BY <1>3, <1>5 DEF Fine
  <2> HIDE DEF a, begin
  <2>4. body \in Nat
    BY <2>1
  <2> HIDE DEF body
  <2>5. DOMAIN a.inner = 1..Len(a.inner)
    BY <2>1, CodeFacts, ElementsOfSequence
  <2>6. file[here].name = a.inner[j].name
    BY <2>1, <2>2, <2>4, <2>5, CodeItemFacts
  <2> QED
    BY <2>3, <2>6
<1> QED
  BY <1>2, <1>4, <1>5

LEMMA ParsedIsLoadable ==
  ASSUME NEW cls \in Classes, file = FileOf(cls), AtLinks(cls), PoolRead
  PROVE  ~Unloadable
<1> SUFFICES ASSUME NEW here \in DOMAIN file,
                    \/ /\ file[here].is = "constant"
                       /\ Wide(file[here]) \/ file[here].tag \notin Tags
                    \/ file[here].is = "attribute" /\ file[here].name \notin Known
             PROVE  FALSE
  BY DEF Unloadable
<1>1. NothingElse(file, cls) /\ AllConstants(cls)
  BY FileFacts DEF AtLinks
<1>2. CASE file[here].is = "constant" /\ (Wide(file[here]) \/ file[here].tag \notin Tags)
  <2>1. DOMAIN cls.constants = 1..Len(cls.constants)
    BY ClassFacts, ElementsOfSequence
  <2>2. PICK k \in 1..Len(cls.constants) : here = ConstantAt(cls, k)
    BY <1>1, <1>2, <2>1 DEF NothingElse
  <2>3. file[here].tag = cls.constants[k].tag /\ Wide(file[here]) = Wide(cls.constants[k])
    BY <2>2, ConstantFacts
  <2>4. cls.constants[k].tag \in Tags
    BY <1>1, SlotHolds
  <2>5. ~Wide(cls.constants[k])
    BY AllSlotsHold
  <2> QED
    BY <1>2, <2>3, <2>4, <2>5
<1>3. CASE file[here].is = "attribute" /\ file[here].name \notin Known
  <2>1. \/ \E k \in DOMAIN cls.fields :
             AttributeOf(file, here, cls.fields[k], MemberAt(cls.fields, FieldsAt(cls), k) + 8)
        \/ \E k \in DOMAIN cls.methods :
             AttributeOf(file, here, cls.methods[k], MemberAt(cls.methods, MethodsAt(cls), k) + 8)
        \/ AttributeOf(file, here, cls.attributes, AttributesAt(cls) + 2)
    BY <1>1, <1>3 DEF NothingElse
  <2>2. ASSUME NEW members, NEW at, IsTable(members, at), AllMembers(members),
               NEW k \in DOMAIN members,
               AttributeOf(file, here, members[k], MemberAt(members, at, k) + 8)
        PROVE  FALSE
    <3>1. k \in 1..Len(members) /\ IsList(members[k], MemberAt(members, at, k) + 8)
      BY <2>2, TableFacts
    <3>2. FineTo(members[k], Len(members[k]))
      BY <2>2, <3>1 DEF AllMembers, FineMembersTo
    <3> QED
      BY <1>3, <2>2, <3>1, <3>2, FineListIsKnown
  <2>3. /\ IsTable(cls.fields, FieldsAt(cls)) /\ AllMembers(cls.fields)
        /\ IsTable(cls.methods, MethodsAt(cls)) /\ AllMembers(cls.methods)
        /\ IsList(cls.attributes, AttributesAt(cls) + 2)
        /\ FineTo(cls.attributes, Len(cls.attributes))
    BY FileFacts DEF AtLinks
  <2>4. ~AttributeOf(file, here, cls.attributes, AttributesAt(cls) + 2)
    BY <1>3, <2>3, FineListIsKnown
  <2> QED
    BY <2>1, <2>2, <2>3, <2>4
<1> QED
  BY <1>2, <1>3

\* Whatever classes the files are of, parseClass gives up on exactly the unloadable ones.
THEOREM RefusesTheUnloadable == Spec => []RefusesExactlyTheUnloadable
<1>1. ParserInv => RefusesExactlyTheUnloadable
  <2> SUFFICES ASSUME ParserInv, vm = "parsed"
               PROVE  ~Unloadable
    BY DEF ParserInv, Ended, RefusesExactlyTheUnloadable
  <2>1. section = "resolve" /\ PoolRead
    BY DEF ParserInv, Ended
  <2>2. PICK cls \in Classes : file = FileOf(cls) /\ Placed(cls)
    BY DEF ParserInv
  <2>3. AtLinks(cls)
    BY <2>1, <2>2 DEF Placed, AtHeader, AtConstants, AtInterfaces, AtFields, InFields,
                      InMethods, InClassAttributes
  <2> QED
    BY <2>1, <2>2, <2>3, ParsedIsLoadable
<1> QED
  BY <1>1, ParserInvHolds, PTL

-----------------------------------------------------------------------------
(* The cursors *)

LEMMA TablesBegin ==
  ASSUME NEW cls \in Classes, file = FileOf(cls)
  PROVE  /\ Reads(0, "header") /\ Reads(ClassAt(cls), "class")
         /\ Reads(InterfacesAt(cls), "count") /\ Reads(FieldsAt(cls), "count")
         /\ Reads(MethodsAt(cls), "count") /\ Reads(AttributesAt(cls), "count")
         /\ Reads(EndAt(cls), "end")
<1>1. IsClassFile(file, cls)
  BY ClassFacts
<1> QED
  BY <1>1 DEF IsClassFile, HasMembers, HasCount, Has, Reads

LEMMA AttributeReads ==
  ASSUME NEW as, NEW at, IsList(as, at), ReadingAttributes(as, at), Innermost.left > 0
  PROVE  /\ Reads(Innermost.at, "attribute")
         /\ Attribute.name = "Code" => Reads(Innermost.at + 6, "code")
<1> DEFINE n == Len(as)
<1>1. n \in Nat
  BY AttributesAtFacts DEF IsList
<1>2. ASSUME NEW i \in 0..n, BetweenAttributes(as, at, i)
      PROVE  /\ Reads(Innermost.at, "attribute")
             /\ Attribute.name = "Code" => Reads(Innermost.at + 6, "code")
  <2> DEFINE here == Begins(AttributeSizes(as), at, i + 1)
             x == [left |-> n - i, at |-> here, skip |-> 0]
  <2>1. calls = <<x>>
    BY <1>2 DEF BetweenAttributes
  <2>2. x.left = n - i /\ x.at = here
    OBVIOUS
  <2> HIDE DEF x, here
  <2>3. Innermost = x
    BY <2>1, OneCall DEF Innermost
  <2>4. i + 1 \in 1..n
    <3>1. n - i > 0
      BY <2>2, <2>3
    <3> HIDE DEF n
    <3> QED
      BY <1>1, <3>1
  <2>5. /\ here \in DOMAIN file /\ file[here].is = "attribute"
        /\ file[here].name = as[i + 1].name
        /\ as[i + 1].name = "Code" => HasCode(file, here + 6, as[i + 1])
    BY <2>4, ListFacts DEF here
  <2> QED
    BY <2>2, <2>3, <2>5 DEF Attribute, Reads, HasCode, Has
<1>3. ASSUME NEW i \in 1..n, as[i].name = "Code",
             NEW q \in 0..Len(as[i].inner), InsideCode(as, at, i, q)
      PROVE  /\ Reads(Innermost.at, "attribute")
             /\ Attribute.name # "Code"
  <2> DEFINE a == as[i]
             m == Len(a.inner)
             body == Begins(AttributeSizes(as), at, i) + 6
             there == Begins(PlainSizes(a.inner), body + CodeSize(a), q + 1)
             x == [left |-> n - i, at |-> body, skip |-> BodySize(a)]
             y == [left |-> m - q, at |-> there, skip |-> 0]
  <2>1. calls = <<x, y>>
    BY <1>3 DEF InsideCode
  <2>2. y.left = m - q /\ y.at = there
    OBVIOUS
  <2>3. Innermost = y
    <3> HIDE DEF x, y
    <3> QED
      BY <2>1, TwoCalls DEF Innermost
  <2>4. a \in CodeAttribute /\ body \in Nat /\ HasCode(file, body, a)
    <3> DEFINE here == Begins(AttributeSizes(as), at, i)
    <3>1. here \in Nat /\ a \in CodeAttribute /\ HasCode(file, here + 6, a)
      BY <1>3, ListFacts
    <3> HIDE DEF here, a
    <3>2. here + 6 \in Nat
      BY <3>1
    <3> QED
      BY <3>1, <3>2 DEF here
  <2>5. q \in 0..m
    OBVIOUS
  <2> HIDE DEF y, body, a
  <2>6. m \in Nat
    BY <2>4, CodeItemFacts
  <2>7. q + 1 \in 1..m
    <3>1. m - q > 0
      BY <2>2, <2>3
    <3> HIDE DEF m
    <3> QED
      BY <2>5, <2>6, <3>1
  <2>8. /\ there \in DOMAIN file /\ file[there].is = "attribute"
        /\ file[there].name = a.inner[q + 1].name /\ a.inner[q + 1].name # "Code"
    BY <2>4, <2>7, CodeItemFacts
  <2> HIDE DEF there, m
  <2> QED
    BY <2>2, <2>3, <2>8 DEF Attribute, Reads
<1> QED
  BY <1>2, <1>3 DEF ReadingAttributes, InCode

LEMMA MemberReads ==
  ASSUME NEW members, NEW at, IsTable(members, at), ReadingMembers(members, at)
  PROVE  /\ calls = <<>> /\ left > 0 => Reads(offset, "member")
         /\ calls # <<>> /\ Innermost.left > 0 =>
              /\ Reads(Innermost.at, "attribute")
              /\ Attribute.name = "Code" => Reads(Innermost.at + 6, "code")
<1>1. ASSUME calls = <<>>, left > 0
      PROVE  Reads(offset, "member")
  <2> DEFINE n == Len(members)
  <2>1. PICK i \in 0..n : left = n - i /\ offset = MemberAt(members, at, i + 1)
    BY <1>1, ReadingIsCalling DEF ReadingMembers
  <2>2. n \in Nat /\ DOMAIN members = 1..n
    BY TableFacts
  <2>3. i + 1 \in 1..n
    <3> HIDE DEF n
    <3> QED
      BY <1>1, <2>1, <2>2
  <2>4. HasMembers(file, at, members)
    BY DEF IsTable
  <2> HIDE DEF n
  <2> QED
    BY <2>1, <2>2, <2>3, <2>4 DEF HasMembers, Has, Reads
<1>2. ASSUME calls # <<>>, Innermost.left > 0
      PROVE  /\ Reads(Innermost.at, "attribute")
             /\ Attribute.name = "Code" => Reads(Innermost.at + 6, "code")
  BY <1>2, MemberUnderWay, AttributeReads
<1> QED
  BY <1>1, <1>2

LEMMA CursorsPlaced ==
  ASSUME NEW cls \in Classes, file = FileOf(cls), Placed(cls)
  PROVE  CursorsOnItems
<1>1. CASE AtHeader
  BY <1>1, TablesBegin DEF AtHeader, Idle, CursorsOnItems
<1>2. CASE AtConstants(cls)
  <2>1. PICK k \in 1..(Len(cls.constants) + 1) :
          /\ next = SlotNumber(cls.constants, k) /\ offset = ConstantAt(cls, k)
          /\ PoolHolds(cls, k)
    BY <1>2 DEF AtConstants, ReadingConstants
  <2>2. PoolRead <=> k = Len(cls.constants) + 1
    BY <2>1, PoolIsRead
  <2>3. PoolRead => Reads(offset, "class")
    BY <2>1, <2>2, TablesAt, TablesBegin
  <2>4. ~PoolRead => Reads(offset, "constant")
    <3>1. ~PoolRead => k \in 1..Len(cls.constants)
      <4> DEFINE n == Len(cls.constants)
      <4>1. n \in Nat
        BY ClassFacts, ElementsOfSequence
      <4>2. k \in 1..(n + 1) /\ (PoolRead <=> k = n + 1)
        BY <2>2
      <4> HIDE DEF n
      <4>3. k # n + 1 => k \in 1..n
        BY <4>1, <4>2
      <4> QED
        BY <4>2, <4>3 DEF n
    <3> QED
      BY <2>1, <3>1, ConstantFacts DEF Reads
  <2> QED
    BY <1>2, <2>3, <2>4 DEF AtConstants, Idle, CursorsOnItems
<1>3. CASE AtInterfaces(cls) \/ AtFields(cls)
  BY <1>3, TablesBegin DEF AtInterfaces, AtFields, Idle, CursorsOnItems
<1>4. CASE InFields(cls)
  <2>1. left # 0 => left > 0
    <3>1. left \in Nat
      <4>1. PICK i \in 0..Len(cls.fields) : left = Len(cls.fields) - i
        BY <1>4 DEF InFields, ReadingMembers
      <4> DEFINE n == Len(cls.fields)
      <4>2. n \in Nat /\ i \in 0..n /\ left = n - i
        BY <4>1, ClassFacts, ElementsOfSequence
      <4> HIDE DEF n
      <4> QED
        BY <4>2
    <3> QED
      BY <3>1
  <2>2. left = 0 /\ calls = <<>> => Reads(offset, "count")
    BY <1>4, FileFacts, TableRead, TablesBegin DEF InFields, MethodsAt
  <2>3. ~(0 > 0)
    OBVIOUS
  <2> QED
    BY <1>4, <2>1, <2>2, <2>3, FileFacts, MemberReads DEF InFields, CursorsOnItems
<1>5. CASE InMethods(cls)
  <2>1. left # 0 => left > 0
    <3>1. left \in Nat
      <4>1. PICK i \in 0..Len(cls.methods) : left = Len(cls.methods) - i
        BY <1>5 DEF InMethods, ReadingMembers
      <4> DEFINE n == Len(cls.methods)
      <4>2. n \in Nat /\ i \in 0..n /\ left = n - i
        BY <4>1, ClassFacts, ElementsOfSequence
      <4> HIDE DEF n
      <4> QED
        BY <4>2
    <3> QED
      BY <3>1
  <2>2. left = 0 /\ calls = <<>> => Reads(offset, "count")
    BY <1>5, FileFacts, TableRead, TablesBegin DEF InMethods, AttributesAt
  <2>3. ~(0 > 0)
    OBVIOUS
  <2> QED
    BY <1>5, <2>1, <2>2, <2>3, FileFacts, MemberReads DEF InMethods, CursorsOnItems
<1>6. CASE InClassAttributes(cls)
  BY <1>6, FileFacts, AttributeReads DEF InClassAttributes, CursorsOnItems
<1>7. CASE AtLinks(cls)
  BY <1>7, TablesBegin DEF AtLinks, Idle, CursorsOnItems
<1> QED
  BY <1>1, <1>2, <1>3, <1>4, <1>5, <1>6, <1>7 DEF Placed

\* Whatever classes the files are of, the cursors of parseClass and of the calls of
\* parseAttributes stand on the item that is read next, to the end of the file.
THEOREM CursorsStandOnItems == Spec => []CursorsOnItems
<1>1. ParserInv => CursorsOnItems
  BY CursorsPlaced DEF ParserInv
<1> QED
  BY <1>1, ParserInvHolds, PTL
=============================================================================

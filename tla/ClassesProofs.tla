---------------------------- MODULE ClassesProofs ----------------------------
(***************************************************************************)
(* The class heap on every disk without a cycle of superclasses, with any  *)
(* number of classes.  A climb is a recursive function: what it computes   *)
(* is shown by induction over its places, as a set of naturals.            *)
(***************************************************************************)
EXTENDS Classes, Recursion

-----------------------------------------------------------------------------
(* A climb is what its recursion says *)

\* The first k + 1 results of the climb from s.
Climb(g, s, k) == g = [d \in 0..k |-> IF d = 0 THEN s ELSE Up(g[d - 1])]

LEMMA ClimbExists ==
  ASSUME NEW s, NEW n \in Nat
  PROVE  \E g : Climb(g, s, n)
<1> DEFINE S == {k \in Nat : \E g : Climb(g, s, k)}
<1>1. 0 \in S
  <2>1. Climb([d \in 0..0 |-> s], s, 0)
    BY DEF Climb
  <2> QED
    BY <2>1
<1>2. ASSUME NEW k \in Nat, k \in S
      PROVE  k + 1 \in S
  <2>1. PICK g : Climb(g, s, k)
    BY <1>2
  <2> DEFINE h == [d \in 0..(k + 1) |-> IF d = k + 1 THEN Up(g[k]) ELSE g[d]]
  <2>2. ASSUME NEW d \in 0..(k + 1)
        PROVE  h[d] = IF d = 0 THEN s ELSE Up(h[d - 1])
    <3>1. CASE d = k + 1
      <4>1. d # 0 /\ d - 1 = k /\ k \in 0..(k + 1) /\ k # k + 1
        BY <3>1
      <4>2. h[d] = Up(g[k]) /\ h[k] = g[k]
        BY <3>1, <4>1
      <4> QED
        BY <4>1, <4>2
    <3>2. CASE d # k + 1
      <4>1. d \in 0..k /\ h[d] = g[d]
        BY <3>2
      <4>2. g[d] = IF d = 0 THEN s ELSE Up(g[d - 1])
        BY <2>1, <4>1 DEF Climb
      <4>3. d # 0 => d - 1 \in 0..(k + 1) /\ d - 1 # k + 1
        BY <4>1
      <4>4. d # 0 => h[d - 1] = g[d - 1]
        BY <4>3
      <4> QED
        BY <4>1, <4>2, <4>4
    <3> QED
      BY <3>1, <3>2
  <2>3. Climb(h, s, k + 1)
    <3>1. DOMAIN h = 0..(k + 1) /\ h = [d \in 0..(k + 1) |-> h[d]]
      OBVIOUS
    <3> HIDE DEF h
    <3> QED
      BY <2>2, <3>1 DEF Climb
  <2> QED
    BY <2>3
<1> QED
  <2> HIDE DEF S
  <2>1. n \in S
    BY <1>1, <1>2, NaturalsInSet
  <2> QED
    BY <2>1 DEF S

LEMMA ClimbedFacts ==
  ASSUME NEW r, NEW c
  PROVE  /\ Cardinality(Names) \in Nat
         /\ DOMAIN Climbed(r, c) = 0..Cardinality(Names)
         /\ Climbed(r, c)[0] = [r EXCEPT !.value = c]
         /\ \A k \in Nat : k + 1 \in 0..Cardinality(Names) =>
              Climbed(r, c)[k + 1] = Up(Climbed(r, c)[k])
<1> DEFINE N == Cardinality(Names)
           s == [r EXCEPT !.value = c]
           up == Climbed(r, c)
<1>1. N \in Nat
  BY FS_CardinalityType, ClassesNamesAssumption
<1>2. Climb(up, s, N)
  <2>1. PICK g : Climb(g, s, N)
    BY <1>1, ClimbExists
  <2>2. up = CHOOSE f : Climb(f, s, N)
    BY DEF Climbed, Climb
  <2> QED
    BY <2>1, <2>2
<1>3. up = [d \in 0..N |-> IF d = 0 THEN s ELSE Up(up[d - 1])]
  BY <1>2 DEF Climb
<1> HIDE DEF up, s, N
<1>4. DOMAIN up = 0..N /\ \A d \in 0..N : up[d] = IF d = 0 THEN s ELSE Up(up[d - 1])
  BY <1>3
<1>5. up[0] = s
  BY <1>1, <1>4
<1>6. ASSUME NEW k \in Nat, k + 1 \in 0..N
      PROVE  up[k + 1] = Up(up[k])
  <2>1. k + 1 # 0 /\ (k + 1) - 1 = k
    OBVIOUS
  <2> QED
    BY <1>4, <1>6, <2>1
<1> QED
  BY <1>1, <1>4, <1>5, <1>6 DEF up, s, N

-----------------------------------------------------------------------------
(* What loading keeps *)

ClassMaps == UNION {[D -> JavaClass] : D \in SUBSET Names}
Result ==
  [heap : ClassMaps, parses : Nat, value : JavaClass \cup {None},
   failed : Failures \cup {None}]

\* Class v came from a file.
FromFile(v) == v \in JavaClass /\ disk[v.file] # None

\* The result of a call so far: the heap has one class for every parse, under the name
\* in its file, and those it had when the call began.
Sound(r) ==
  /\ r \in Result
  /\ \A n \in DOMAIN r.heap : FromFile(r.heap[n]) /\ FileOf(r.heap[n]).this = n
  /\ r.value # None => FromFile(r.value)
  /\ r.failed = None => r.parses = Cardinality(DOMAIN r.heap)
  /\ r.failed = "duplicate" => ~WellNamed
  /\ \A n \in DOMAIN heap : n \in DOMAIN r.heap /\ r.heap[n] = heap[n]

DiskOK == disk \in [Names -> ClassFile \cup {None}] /\ Acyclic(disk)

LEMMA MapFacts ==
  ASSUME NEW h \in ClassMaps
  PROVE  /\ DOMAIN h \subseteq Names
         /\ \A n \in DOMAIN h : h[n] \in JavaClass
         /\ IsFiniteSet(DOMAIN h) /\ Cardinality(DOMAIN h) \in Nat
<1>1. PICK D \in SUBSET Names : h \in [D -> JavaClass]
  BY DEF ClassMaps
<1>2. DOMAIN h \subseteq Names /\ \A n \in DOMAIN h : h[n] \in JavaClass
  BY <1>1
<1> QED
  BY <1>2, FS_Subset, FS_CardinalityType, ClassesNamesAssumption

LEMMA ResultFacts ==
  ASSUME NEW r \in Result
  PROVE  /\ r = [heap |-> r.heap, parses |-> r.parses, value |-> r.value, failed |-> r.failed]
         /\ r.heap \in ClassMaps
         /\ r.parses \in Nat /\ r.parses + 1 \in Nat
         /\ r.value \in JavaClass \cup {None}
         /\ r.failed \in Failures \cup {None}
<1>1. /\ r = [heap |-> r.heap, parses |-> r.parses, value |-> r.value, failed |-> r.failed]
      /\ r.heap \in ClassMaps
      /\ r.parses \in Nat
      /\ r.value \in JavaClass \cup {None}
      /\ r.failed \in Failures \cup {None}
  BY DEF Result
<1>2. r.parses + 1 \in Nat
  BY <1>1
<1> QED
  BY <1>1, <1>2

LEMMA FailSound ==
  ASSUME NEW r, Sound(r), NEW f \in Failures, f # "duplicate"
  PROVE  Sound(Fail(r, f))
<1>1. r \in Result /\ f # None
  BY ClassesNamesAssumption DEF Sound
<1>2. /\ Fail(r, f) \in Result
      /\ Fail(r, f).heap = r.heap /\ Fail(r, f).value = r.value
      /\ Fail(r, f).failed = f
  BY <1>1 DEF Fail, Result
<1> QED
  BY <1>1, <1>2 DEF Sound

LEMMA ValueSound ==
  ASSUME NEW r, Sound(r), NEW v \in JavaClass \cup {None}, v # None => FromFile(v)
  PROVE  /\ Sound([r EXCEPT !.value = v])
         /\ [r EXCEPT !.value = v].value = v
         /\ [r EXCEPT !.value = v].failed = r.failed
<1> DEFINE q == [r EXCEPT !.value = v]
<1>1. /\ r \in Result
  BY DEF Sound
<1>2. /\ q \in Result
      /\ q.heap = r.heap /\ q.parses = r.parses /\ q.failed = r.failed /\ q.value = v
  BY <1>1 DEF Result
<1> HIDE DEF q
<1>3. Sound(q)
  BY <1>2 DEF Sound
<1> QED
  BY <1>2, <1>3 DEF q

LEMMA AddClassSound ==
  ASSUME DiskOK, NEW r, Sound(r), r.failed = None,
         NEW n \in Names, n \notin DOMAIN r.heap, disk[n] # None
  PROVE  /\ Sound(AddClass(r, n))
         /\ AddClass(r, n).failed = None =>
              AddClass(r, n).value # None /\ AddClass(r, n).value.file = n
<1> DEFINE this == disk[n].this
           v == Parsed(n, r)
           add == [k \in DOMAIN r.heap \cup {this} |-> IF k = this THEN v ELSE r.heap[k]]
<1>1. /\ r \in Result /\ r.parses \in Nat /\ r.parses = Cardinality(DOMAIN r.heap)
      /\ r.heap \in ClassMaps
  BY DEF Sound, Result
<1>2. this \in Names
  BY DEF DiskOK, ClassFile
<1>3. v \in JavaClass /\ v.file = n /\ FromFile(v) /\ v # None
  BY <1>1, ClassesNamesAssumption DEF Parsed, JavaClass, FromFile
<1>4. CASE this \in DOMAIN r.heap
  <2> DEFINE q == Fail([r EXCEPT !.parses = @ + 1], "duplicate")
  <2>1. AddClass(r, n) = q
    BY <1>4 DEF AddClass
  <2>2. /\ q \in Result
        /\ q.heap = r.heap /\ q.value = r.value /\ q.failed = "duplicate"
    <3>1. q = [heap |-> r.heap, parses |-> r.parses + 1, value |-> r.value,
               failed |-> "duplicate"]
      <4>1. r = [heap |-> r.heap, parses |-> r.parses, value |-> r.value,
                 failed |-> r.failed]
        BY <1>1, ResultFacts
      <4>2. [r EXCEPT !.parses = @ + 1]
              = [heap |-> r.heap, parses |-> r.parses + 1, value |-> r.value,
                 failed |-> r.failed]
        BY <4>1
      <4>3. Fail([r EXCEPT !.parses = @ + 1], "duplicate")
              = Fail([heap |-> r.heap, parses |-> r.parses + 1, value |-> r.value,
                      failed |-> r.failed], "duplicate")
        BY <4>2
      <4>4. Fail([heap |-> r.heap, parses |-> r.parses + 1, value |-> r.value,
                  failed |-> r.failed], "duplicate")
              = [heap |-> r.heap, parses |-> r.parses + 1, value |-> r.value,
                 failed |-> "duplicate"]
        BY DEF Fail
      <4> QED
        BY <4>3, <4>4
    <3>2. /\ r.parses + 1 \in Nat /\ r.value \in JavaClass \cup {None}
          /\ "duplicate" \in Failures
      BY <1>1, ResultFacts DEF Failures
    <3> HIDE DEF q
    <3> QED
      BY <1>1, <3>1, <3>2 DEF Result
  <2>3. ~WellNamed
    BY <1>4 DEF WellNamed
  <2>4. q.failed # None
    BY <2>2, ClassesNamesAssumption DEF Failures
  <2> HIDE DEF q
  <2> QED
    BY <2>1, <2>2, <2>3, <2>4 DEF Sound
<1>5. CASE this \notin DOMAIN r.heap
  <2> DEFINE q == AddClass(r, n)
  <2>1. q = [r EXCEPT !.parses = @ + 1, !.value = v, !.heap = add]
    BY <1>5 DEF AddClass
  <2>2. DOMAIN add = DOMAIN r.heap \cup {this} /\ add[this] = v
    OBVIOUS
  <2>3. \A k \in DOMAIN r.heap : add[k] = r.heap[k]
    BY <1>5
  <2>4. add \in ClassMaps
    <3>1. \A k \in DOMAIN add : add[k] \in JavaClass
      BY <1>1, <1>3, MapFacts
    <3>2. DOMAIN add \in SUBSET Names
      BY <1>1, <1>2, <2>2, MapFacts
    <3>3. add \in [DOMAIN add -> JavaClass]
      BY <3>1
    <3> HIDE DEF add
    <3> QED
      BY <3>2, <3>3 DEF ClassMaps
  <2>5. Cardinality(DOMAIN add) = Cardinality(DOMAIN r.heap) + 1
    BY <1>1, <1>5, <2>2, MapFacts, FS_AddElement
  <2> HIDE DEF add, v
  <2>6. /\ q \in Result
        /\ q.heap = add /\ q.parses = r.parses + 1 /\ q.value = v /\ q.failed = None
    <3>1. q = [heap |-> add, parses |-> r.parses + 1, value |-> v, failed |-> None]
      BY <1>1, <2>1 DEF Result
    <3>2. r.parses + 1 \in Nat
      BY <1>1
    <3> HIDE DEF q
    <3> QED
      BY <1>3, <2>4, <3>1, <3>2 DEF Result
  <2> HIDE DEF q
  <2>7. \A k \in DOMAIN q.heap : FromFile(q.heap[k]) /\ FileOf(q.heap[k]).this = k
    BY <1>3, <2>2, <2>3, <2>6 DEF Sound, FileOf
  <2>8. \A k \in DOMAIN heap : k \in DOMAIN q.heap /\ q.heap[k] = heap[k]
    BY <2>2, <2>3, <2>6 DEF Sound
  <2>9. q.parses = Cardinality(DOMAIN q.heap)
    BY <1>1, <2>5, <2>6
  <2>10. Sound(q)
    BY <1>3, <2>6, <2>7, <2>8, <2>9, ClassesNamesAssumption DEF Sound, Failures
  <2> QED
    BY <1>3, <2>6, <2>10 DEF q
<1> QED
  BY <1>4, <1>5

\* Whoever asks for a class gets the file of that name, or a class of that name.
LEMMA LoadClassSound ==
  ASSUME DiskOK, NEW r, Sound(r), NEW n \in Names
  PROVE  /\ Sound(LoadClass(r, n))
         /\ LoadClass(r, n).failed = None =>
              /\ LoadClass(r, n).value # None
              /\ \/ LoadClass(r, n).value.file = n
                 \/ FileOf(LoadClass(r, n).value).this = n
            \/ r.failed # None
<1>1. CASE r.failed # None
  BY <1>1 DEF LoadClass
<1>2. CASE r.failed = None /\ n \in DOMAIN r.heap
  <2>1. LoadClass(r, n) = [r EXCEPT !.value = r.heap[n]]
    BY <1>2 DEF LoadClass
  <2>2. FromFile(r.heap[n]) /\ FileOf(r.heap[n]).this = n
    BY <1>2 DEF Sound
  <2>3. r.heap[n] \in JavaClass /\ r.heap[n] # None
    BY <2>2, ClassesNamesAssumption DEF FromFile
  <2> QED
    BY <2>1, <2>2, <2>3, ValueSound
<1>3. CASE r.failed = None /\ n \notin DOMAIN r.heap /\ disk[n] = None
  <2>1. LoadClass(r, n) = Fail(r, "no file")
    BY <1>3 DEF LoadClass
  <2>2. Sound(Fail(r, "no file")) /\ Fail(r, "no file").failed # None
    <3>1. Fail(r, "no file").failed = "no file"
      BY DEF Fail, Sound, Result
    <3> QED
      BY <3>1, FailSound, ClassesNamesAssumption DEF Failures
  <2> QED
    BY <2>1, <2>2
<1>4. CASE r.failed = None /\ n \notin DOMAIN r.heap /\ disk[n] # None
  <2>1. LoadClass(r, n) = AddClass(r, n)
    BY <1>4 DEF LoadClass
  <2> QED
    BY <1>4, <2>1, AddClassSound
<1> QED
  BY <1>1, <1>2, <1>3, <1>4

-----------------------------------------------------------------------------
(* A climb is sound and ends *)

Ended(r) == r.failed # None \/ r.value = None

\* rank shows that disk has no cycle.
Ranks(rank) ==
  /\ rank \in [Names -> 1..Cardinality(Names)]
  /\ \A n \in Names : disk[n] # None /\ disk[n].super # None =>
       rank[disk[n].super] < rank[n] /\ rank[disk[n].super] < rank[disk[n].this]

LEMMA UpSound ==
  ASSUME DiskOK, NEW r, Sound(r)
  PROVE  /\ Sound(Up(r))
         /\ ~Ended(Up(r)) =>
              /\ ~Ended(r)
              /\ FileOf(r.value).super \in Names
              /\ Up(r) = LoadClass(r, FileOf(r.value).super)
              /\ \/ Up(r).value.file = FileOf(r.value).super
                 \/ FileOf(Up(r).value).this = FileOf(r.value).super
<1>1. CASE Ended(r)
  BY <1>1 DEF Ended, Up
<1>2. CASE ~Ended(r) /\ FileOf(r.value).super = None
  <2>1. Up(r) = [r EXCEPT !.value = None]
    BY <1>2 DEF Ended, Up
  <2>2. Sound([r EXCEPT !.value = None]) /\ [r EXCEPT !.value = None].value = None
    BY ValueSound
  <2> QED
    BY <2>1, <2>2 DEF Ended
<1>3. CASE ~Ended(r) /\ FileOf(r.value).super # None
  <2> DEFINE s == FileOf(r.value).super
  <2>1. Up(r) = LoadClass(r, s)
    BY <1>3 DEF Ended, Up
  <2>2. FromFile(r.value)
    BY <1>3 DEF Ended, Sound
  <2>3. s \in Names
    <3>1. r.value.file \in Names /\ disk[r.value.file] # None
      BY <2>2 DEF FromFile, JavaClass
    <3> QED
      BY <1>3, <3>1 DEF FileOf, DiskOK, ClassFile
  <2> HIDE DEF s
  <2>4. /\ Sound(LoadClass(r, s))
        /\ LoadClass(r, s).failed = None =>
             \/ LoadClass(r, s).value.file = s
             \/ FileOf(LoadClass(r, s).value).this = s
    BY <1>3, <2>3, LoadClassSound DEF Ended
  <2> QED
    BY <1>3, <2>1, <2>3, <2>4 DEF Ended, s
<1> QED
  BY <1>1, <1>2, <1>3

LEMMA RankOfSuper ==
  ASSUME DiskOK, NEW rank, Ranks(rank), NEW v, FromFile(v), FileOf(v).super # None
  PROVE  /\ v.file \in Names /\ FileOf(v).this \in Names /\ FileOf(v).super \in Names
         /\ rank[FileOf(v).super] < rank[v.file]
         /\ rank[FileOf(v).super] < rank[FileOf(v).this]
<1>1. v.file \in Names /\ disk[v.file] # None
  BY DEF FromFile, JavaClass
<1>2. disk[v.file] \in ClassFile
  BY <1>1 DEF DiskOK
<1>3. disk[v.file].this \in Names /\ disk[v.file].super \in Names \cup {None}
  BY <1>2 DEF ClassFile
<1> QED
  BY <1>1, <1>3 DEF FileOf, Ranks

\* Each class on the way up has a lower rank, so that the last place is behind the top.
LEMMA ClimbSound ==
  ASSUME DiskOK, NEW r, Sound(r), NEW c, FromFile(c)
  PROVE  /\ \A d \in 0..Cardinality(Names) : Sound(Climbed(r, c)[d])
         /\ Ended(Climbed(r, c)[Cardinality(Names)])
<1> DEFINE N == Cardinality(Names)
           up == Climbed(r, c)
           Below(rank, k) ==
             /\ Sound(up[k])
             /\ ~Ended(up[k]) =>
                  /\ k < N
                  /\ FileOf(up[k].value).super # None =>
                       rank[FileOf(up[k].value).super] + k < N
<1>1. PICK rank : Ranks(rank)
  BY DEF DiskOK, Acyclic, Ranks
<1>2. /\ N \in Nat
      /\ up[0] = [r EXCEPT !.value = c]
      /\ \A k \in Nat : k + 1 \in 0..N => up[k + 1] = Up(up[k])
  BY ClimbedFacts
<1> HIDE DEF N, up
<1>3. \A n \in Names : rank[n] \in 1..N
  BY <1>1 DEF Ranks, N
<1>4. Below(rank, 0)
  <2>1. c \in JavaClass /\ c.file \in Names
    BY DEF FromFile, JavaClass
  <2>2. Sound(up[0]) /\ up[0].value = c
    BY <1>2, <2>1, ValueSound
  <2>3. 0 < N
    BY <1>2, <1>3, <2>1
  <2>4. ASSUME FileOf(c).super # None
        PROVE  rank[FileOf(c).super] + 0 < N
    BY <1>1, <1>2, <1>3, <2>4, RankOfSuper
  <2> QED
    BY <2>2, <2>3, <2>4
<1>5. ASSUME NEW k \in Nat, k + 1 \in 0..N, Below(rank, k)
      PROVE  Below(rank, k + 1)
  <2>1. up[k + 1] = Up(up[k])
    BY <1>2, <1>5
  <2>2. Sound(up[k])
    BY <1>5
  <2>3. Sound(up[k + 1])
    BY <2>1, <2>2, UpSound
  <2>4. ASSUME ~Ended(up[k + 1])
        PROVE  /\ k + 1 < N
               /\ FileOf(up[k + 1].value).super # None =>
                    rank[FileOf(up[k + 1].value).super] + (k + 1) < N
    <3> DEFINE s == FileOf(up[k].value).super
               v == up[k + 1].value
    <3>1. ~Ended(up[k]) /\ s \in Names /\ (v.file = s \/ FileOf(v).this = s)
      BY <2>1, <2>2, <2>4, UpSound
    <3>2. s # None
      BY <3>1, ClassesNamesAssumption
    <3>3. rank[s] + k < N /\ rank[s] \in 1..N
      BY <1>3, <1>5, <3>1, <3>2
    <3>4. FromFile(v)
      BY <2>3, <2>4 DEF Sound, Ended
    <3> HIDE DEF s, v
    <3>5. ASSUME FileOf(v).super # None
          PROVE  rank[FileOf(v).super] + (k + 1) < N
      <4>1. /\ FileOf(v).super \in Names
            /\ rank[FileOf(v).super] < rank[v.file]
            /\ rank[FileOf(v).super] < rank[FileOf(v).this]
        BY <1>1, <3>4, <3>5, RankOfSuper
      <4>2. rank[FileOf(v).super] \in 1..N /\ rank[FileOf(v).super] < rank[s]
        BY <1>3, <3>1, <4>1
      <4> QED
        BY <1>2, <3>3, <4>2
    <3>6. k + 1 < N
      BY <1>2, <3>3
    <3> QED
      BY <3>5, <3>6 DEF v
  <2> QED
    BY <2>3, <2>4
<1>6. \A d \in 0..N : Below(rank, d)
  <2> DEFINE S == {k \in Nat : k \in 0..N => Below(rank, k)}
  <2> HIDE DEF Below
  <2>1. 0 \in S
    BY <1>4
  <2>2. ASSUME NEW k \in Nat, k \in S
        PROVE  k + 1 \in S
    BY <1>2, <1>5, <2>2
  <2>3. Nat \subseteq S
    <3> HIDE DEF S
    <3> QED
      BY <2>1, <2>2, NaturalsInSet
  <2> QED
    BY <1>2, <2>3
<1>7. Ended(up[N])
  BY <1>2, <1>6
<1> QED
  BY <1>6, <1>7 DEF N, up

LEMMA LeastEnd ==
  ASSUME NEW n \in Nat, NEW E, E \subseteq 0..n, n \in E
  PROVE  LET least == CHOOSE d \in E : \A e \in E : d <= e
         IN  least \in E /\ \A e \in E : least <= e
<1>1. E \subseteq Nat /\ E # {}
  OBVIOUS
<1>2. \E d \in E : \A e \in E : d <= e
  BY <1>1, LeastNatural
<1> QED
  BY <1>2

-----------------------------------------------------------------------------
(* The searches keep what loading keeps *)

LEMMA MethodIdSound ==
  ASSUME DiskOK, NEW r, Sound(r), NEW c, FromFile(c), NEW m
  PROVE  Sound(MethodId(r, c, m))
<1> DEFINE N == Cardinality(Names)
           up == Climbed(r, c)
           Declares(class) == m \in FileOf(class).methods
           ends == {d \in DOMAIN up :
                      up[d].failed # None \/ up[d].value = None \/ Declares(up[d].value)}
           found == FirstOf(up, Declares)
<1>1. N \in Nat /\ DOMAIN up = 0..N
  BY ClimbedFacts
<1>2. (\A d \in 0..N : Sound(up[d])) /\ Ended(up[N])
  BY ClimbSound
<1>3. Sound(found)
  <2> HIDE DEF N, up
  <2>1. ends \subseteq 0..N /\ N \in ends
    BY <1>1, <1>2 DEF Ended
  <2>2. found = up[CHOOSE d \in ends : \A e \in ends : d <= e]
    BY DEF FirstOf
  <2> HIDE DEF ends
  <2>3. (CHOOSE d \in ends : \A e \in ends : d <= e) \in ends
    BY <1>1, <2>1, LeastEnd
  <2> QED
    BY <1>2, <2>1, <2>2, <2>3
<1>4. Sound([r EXCEPT !.value = None])
  BY ValueSound
<1>5. Sound(Fail(found, "no method"))
  <2> HIDE DEF found
  <2> QED
    BY <1>3, FailSound DEF Failures
<1> QED
  BY <1>3, <1>4, <1>5 DEF MethodId

LEMMA InheritFromSound ==
  ASSUME DiskOK, NEW r, Sound(r), NEW c, FromFile(c), NEW name
  PROVE  Sound(InheritFrom(r, c, name))
<1> DEFINE N == Cardinality(Names)
           up == Climbed(r, c)
           Named(class) == FileOf(class).this = name
           ends == {d \in DOMAIN up :
                      up[d].failed # None \/ up[d].value = None \/ Named(up[d].value)}
<1>1. N \in Nat /\ DOMAIN up = 0..N
  BY ClimbedFacts
<1>2. (\A d \in 0..N : Sound(up[d])) /\ Ended(up[N])
  BY ClimbSound
<1>3. InheritFrom(r, c, name) = up[CHOOSE d \in ends : \A e \in ends : d <= e]
  BY DEF InheritFrom, FirstOf
<1> HIDE DEF N, up
<1>4. ends \subseteq 0..N /\ N \in ends
  BY <1>1, <1>2 DEF Ended
<1> HIDE DEF ends
<1>5. (CHOOSE d \in ends : \A e \in ends : d <= e) \in ends
  BY <1>1, <1>4, LeastEnd
<1> QED
  BY <1>2, <1>3, <1>4, <1>5

LEMMA ToTheTopSound ==
  ASSUME DiskOK, NEW r, Sound(r), NEW c, FromFile(c)
  PROVE  Sound(ToTheTop(r, c))
<1> DEFINE N == Cardinality(Names)
           up == Climbed(r, c)
           Never(class) == FALSE
           ends == {d \in DOMAIN up :
                      up[d].failed # None \/ up[d].value = None \/ Never(up[d].value)}
<1>1. N \in Nat /\ DOMAIN up = 0..N
  BY ClimbedFacts
<1>2. (\A d \in 0..N : Sound(up[d])) /\ Ended(up[N])
  BY ClimbSound
<1>3. ToTheTop(r, c) = up[CHOOSE d \in ends : \A e \in ends : d <= e]
  BY DEF ToTheTop, FirstOf
<1> HIDE DEF N, up
<1>4. ends \subseteq 0..N /\ N \in ends
  BY <1>1, <1>2 DEF Ended
<1> HIDE DEF ends
<1>5. (CHOOSE d \in ends : \A e \in ends : d <= e) \in ends
  BY <1>1, <1>4, LeastEnd
<1> QED
  BY <1>2, <1>3, <1>4, <1>5

-----------------------------------------------------------------------------
(* Every call *)

\* Between calls there is a class for every parse, under the name in its file.
HeapOK ==
  /\ heap \in ClassMaps /\ parses \in Nat
  /\ \A n \in DOMAIN heap : FromFile(heap[n]) /\ FileOf(heap[n]).this = n
  /\ parses = Cardinality(DOMAIN heap)

LoadInv ==
  /\ DiskOK
  /\ vm \in Failures \cup {"running"}
  /\ vm = "running" => HeapOK
  /\ vm = "duplicate" => ~WellNamed

LEMMA StartSound ==
  ASSUME HeapOK
  PROVE  Sound(Start) /\ Start.failed = None /\ Start.heap = heap
<1>1. /\ Start \in Result
      /\ Start.heap = heap /\ Start.parses = parses
      /\ Start.value = None /\ Start.failed = None
  BY DEF HeapOK, Start, Result
<1> HIDE DEF Start
<1> QED
  BY <1>1, ClassesNamesAssumption DEF Sound, HeapOK, Failures

LEMMA FinishKeeps ==
  ASSUME LoadInv, NEW r, Sound(r), NEW call, Finish(r, call)
  PROVE  LoadInv' /\ \A n \in DOMAIN heap : n \in DOMAIN heap' /\ heap'[n] = heap[n]
<1>1. /\ heap' = r.heap /\ parses' = r.parses /\ disk' = disk
      /\ vm' = IF r.failed = None THEN "running" ELSE r.failed
  BY DEF Finish
<1>2. r.failed \in Failures \cup {None} /\ r.heap \in ClassMaps /\ r.parses \in Nat
  BY ResultFacts DEF Sound
<1>3. vm' \in Failures \cup {"running"}
  BY <1>1, <1>2
<1>4. DiskOK'
  BY <1>1 DEF LoadInv, DiskOK, Acyclic
<1>5. ASSUME vm' = "running"
      PROVE  HeapOK'
  <2>1. r.failed = None
    BY <1>1, <1>2, <1>5 DEF Failures
  <2>2. r.parses = Cardinality(DOMAIN r.heap)
    BY <2>1 DEF Sound
  <2>3. \A n \in DOMAIN r.heap :
          /\ r.heap[n] \in JavaClass /\ disk[r.heap[n].file] # None
          /\ disk[r.heap[n].file].this = n
    BY DEF Sound, FromFile, FileOf
  <2> QED
    BY <1>1, <1>2, <2>2, <2>3 DEF HeapOK, FromFile, FileOf
<1>6. ASSUME vm' = "duplicate"
      PROVE  ~WellNamed'
  <2>1. r.failed = "duplicate"
    BY <1>1, <1>6
  <2> QED
    BY <1>1, <2>1 DEF Sound, WellNamed
<1>7. \A n \in DOMAIN heap : n \in DOMAIN heap' /\ heap'[n] = heap[n]
  BY <1>1 DEF Sound
<1> QED
  BY <1>3, <1>4, <1>5, <1>6, <1>7 DEF LoadInv

LEMMA CallKeeps ==
  ASSUME LoadInv, Next
  PROVE  LoadInv' /\ \A n \in DOMAIN heap : n \in DOMAIN heap' /\ heap'[n] = heap[n]
<1>1. vm = "running" => HeapOK /\ Sound(Start) /\ Start.failed = None
  BY StartSound DEF LoadInv
<1>2. DiskOK
  BY DEF LoadInv
<1>3. ASSUME NEW n \in Names, vm = "running", LoadClass(Start, n).failed = None
      PROVE  FromFile(LoadClass(Start, n).value)
  BY <1>1, <1>2, <1>3, LoadClassSound DEF Sound
<1>4. ASSUME NEW n \in Names, vm = "running"
      PROVE  Sound(LoadClass(Start, n))
  BY <1>1, <1>2, <1>4, LoadClassSound
<1>5. ASSUME NEW n \in Names, Load(n)
      PROVE  \E r, call : Sound(r) /\ Finish(r, call)
  BY <1>4, <1>5 DEF Load
<1>6. ASSUME NEW n \in Names, NEW m \in Members, ResolveMethod(n, m)
      PROVE  \E r, call : Sound(r) /\ Finish(r, call)
  <2> DEFINE r == LoadClass(Start, n)
             q == IF r.failed # None THEN r ELSE MethodId(r, r.value, m)
  <2>1. vm = "running" /\ Finish(q, Call("method", n, m))
    BY <1>6 DEF ResolveMethod
  <2>2. Sound(r) /\ (r.failed = None => FromFile(r.value))
    BY <1>3, <1>4, <2>1
  <2> HIDE DEF r
  <2>3. Sound(q)
    BY <1>2, <2>2, MethodIdSound
  <2> QED
    BY <2>1, <2>3
<1>7. ASSUME NEW n \in Names, New(n)
      PROVE  \E r, call : Sound(r) /\ Finish(r, call)
  <2> DEFINE r == LoadClass(Start, n)
             q == IF r.failed # None THEN r ELSE ToTheTop(r, r.value)
  <2>1. vm = "running" /\ Finish(q, Call("new", n, None))
    BY <1>7 DEF New
  <2>2. Sound(r) /\ (r.failed = None => FromFile(r.value))
    BY <1>3, <1>4, <2>1
  <2> HIDE DEF r
  <2>3. Sound(q)
    BY <1>2, <2>2, ToTheTopSound
  <2> QED
    BY <2>1, <2>3
<1>8. ASSUME NEW n \in Names, NEW name \in Names, AskInheritance(n, name)
      PROVE  \E r, call : Sound(r) /\ Finish(r, call)
  <2>1. /\ vm = "running" /\ n \in DOMAIN heap
        /\ Finish(InheritFrom(Start, heap[n], name), Call("inherits", n, name))
    BY <1>8 DEF AskInheritance
  <2>2. Sound(Start) /\ FromFile(heap[n])
    BY <1>1, <2>1 DEF HeapOK
  <2>3. Sound(InheritFrom(Start, heap[n], name))
    BY <1>2, <2>2, InheritFromSound
  <2> QED
    BY <2>1, <2>3
<1>9. \E r, call : Sound(r) /\ Finish(r, call)
  BY <1>5, <1>6, <1>7, <1>8 DEF Next
<1> QED
  BY <1>9, FinishKeeps

LEMMA EmptyHeap ==
  ASSUME NEW D, D \subseteq {d \in [Names -> ClassFile \cup {None}] : Acyclic(d)},
         InitOn(D)
  PROVE  LoadInv
<1>1. DiskOK
  BY DEF InitOn, DiskOK
<1>2. heap = <<>> /\ DOMAIN heap = {} /\ parses = 0 /\ vm = "running"
  BY DEF InitOn
<1>3. heap \in ClassMaps
  <2>1. heap \in [{} -> JavaClass]
    BY <1>2
  <2> QED
    BY <2>1 DEF ClassMaps
<1>4. Cardinality(DOMAIN heap) = 0
  BY <1>2, FS_EmptySet
<1> QED
  BY <1>1, <1>2, <1>3, <1>4 DEF LoadInv, HeapOK

\* On every set of disks without a cycle of superclasses, every file is parsed at most
\* once, whatever searches come across it, and the assertion of addClass fails only for
\* a file that holds a class of another name (loadClass, addClass and the climbs of
\* getMethodID, isInheritFrom and getFieldCount).
THEOREM LoadingParsesOnce ==
  ASSUME NEW D, D \subseteq {d \in [Names -> ClassFile \cup {None}] : Acyclic(d)}
  PROVE  InitOn(D) /\ [][Next]_vars => []ParsedOnce
<1>1. InitOn(D) => LoadInv
  BY EmptyHeap
<1>2. LoadInv /\ [Next]_vars => LoadInv'
  <2>1. LoadInv /\ UNCHANGED vars => LoadInv'
    BY DEF LoadInv, vars, DiskOK, HeapOK, FromFile, FileOf, WellNamed
  <2> QED
    BY <2>1, CallKeeps
<1>3. LoadInv => ParsedOnce
  BY DEF LoadInv, HeapOK, ParsedOnce
<1> QED
  BY <1>1, <1>2, <1>3, PTL

\* On every such set of disks, a loaded class stays the class of its name: no later call
\* replaces it or drops it, also when the call throws or fails half way.
THEOREM LoadingKeepsClasses ==
  ASSUME NEW D, D \subseteq {d \in [Names -> ClassFile \cup {None}] : Acyclic(d)}
  PROVE  InitOn(D) /\ [][Next]_vars => ClassIdentity
<1> DEFINE Stays == \A n \in DOMAIN heap : n \in DOMAIN heap' /\ heap'[n] = heap[n]
<1>1. InitOn(D) => LoadInv
  BY EmptyHeap
<1>2. LoadInv /\ [Next]_vars => LoadInv' /\ [Stays]_vars
  <2>1. LoadInv /\ UNCHANGED vars => LoadInv'
    BY DEF LoadInv, vars, DiskOK, HeapOK, FromFile, FileOf, WellNamed
  <2> QED
    BY <2>1, CallKeeps
<1> QED
  BY <1>1, <1>2, PTL DEF ClassIdentity

-----------------------------------------------------------------------------
(* The line of superclasses on the disk *)

LineTo(g, n, k) == g = [d \in 0..k |-> IF d = 0 THEN n ELSE SuperOf(g[d - 1])]

LEMMA LineExists ==
  ASSUME NEW s, NEW n \in Nat
  PROVE  \E g : LineTo(g, s, n)
<1> DEFINE S == {k \in Nat : \E g : LineTo(g, s, k)}
<1>1. 0 \in S
  <2>1. LineTo([d \in 0..0 |-> s], s, 0)
    BY DEF LineTo
  <2> QED
    BY <2>1
<1>2. ASSUME NEW k \in Nat, k \in S
      PROVE  k + 1 \in S
  <2>1. PICK g : LineTo(g, s, k)
    BY <1>2
  <2> DEFINE h == [d \in 0..(k + 1) |-> IF d = k + 1 THEN SuperOf(g[k]) ELSE g[d]]
  <2>2. ASSUME NEW d \in 0..(k + 1)
        PROVE  h[d] = IF d = 0 THEN s ELSE SuperOf(h[d - 1])
    <3>1. CASE d = k + 1
      <4>1. d # 0 /\ d - 1 = k /\ k \in 0..(k + 1) /\ k # k + 1
        BY <3>1
      <4>2. h[d] = SuperOf(g[k]) /\ h[k] = g[k]
        BY <3>1, <4>1
      <4> QED
        BY <4>1, <4>2
    <3>2. CASE d # k + 1
      <4>1. d \in 0..k /\ h[d] = g[d]
        BY <3>2
      <4>2. g[d] = IF d = 0 THEN s ELSE SuperOf(g[d - 1])
        BY <2>1, <4>1 DEF LineTo
      <4>3. d # 0 => d - 1 \in 0..(k + 1) /\ d - 1 # k + 1
        BY <4>1
      <4>4. d # 0 => h[d - 1] = g[d - 1]
        BY <4>3
      <4> QED
        BY <4>1, <4>2, <4>4
    <3> QED
      BY <3>1, <3>2
  <2>3. LineTo(h, s, k + 1)
    <3>1. DOMAIN h = 0..(k + 1) /\ h = [d \in 0..(k + 1) |-> h[d]]
      OBVIOUS
    <3> HIDE DEF h
    <3> QED
      BY <2>2, <3>1 DEF LineTo
  <2> QED
    BY <2>3
<1> QED
  <2> HIDE DEF S
  <2>1. n \in S
    BY <1>1, <1>2, NaturalsInSet
  <2> QED
    BY <2>1 DEF S

LEMMA UpwardFacts ==
  ASSUME NEW n
  PROVE  /\ Cardinality(Names) \in Nat
         /\ DOMAIN Upward(n) = 0..Cardinality(Names)
         /\ Upward(n)[0] = n
         /\ \A k \in Nat : k + 1 \in 0..Cardinality(Names) =>
              Upward(n)[k + 1] = SuperOf(Upward(n)[k])
<1> DEFINE N == Cardinality(Names)
           line == Upward(n)
<1>1. N \in Nat
  BY FS_CardinalityType, ClassesNamesAssumption
<1>2. LineTo(line, n, N)
  <2>1. PICK g : LineTo(g, n, N)
    BY <1>1, LineExists
  <2>2. line = CHOOSE f : LineTo(f, n, N)
    BY DEF Upward, LineTo
  <2> QED
    BY <2>1, <2>2
<1>3. line = [d \in 0..N |-> IF d = 0 THEN n ELSE SuperOf(line[d - 1])]
  BY <1>2 DEF LineTo
<1> HIDE DEF line, N
<1>4. DOMAIN line = 0..N /\ \A d \in 0..N : line[d] = IF d = 0 THEN n ELSE SuperOf(line[d - 1])
  BY <1>3
<1>5. line[0] = n
  BY <1>1, <1>4
<1>6. ASSUME NEW k \in Nat, k + 1 \in 0..N
      PROVE  line[k + 1] = SuperOf(line[k])
  <2>1. k + 1 # 0 /\ (k + 1) - 1 = k
    OBVIOUS
  <2> QED
    BY <1>4, <1>6, <2>1
<1> QED
  BY <1>1, <1>4, <1>5, <1>6 DEF line, N

\* Behind the last name there is none.
LEMMA LineStops ==
  ASSUME NEW n, NEW k \in 0..Cardinality(Names), Upward(n)[k] = None,
         NEW j \in 0..Cardinality(Names), k <= j
  PROVE  Upward(n)[j] = None
<1> DEFINE N == Cardinality(Names)
           line == Upward(n)
           S == {i \in Nat : k + i \in 0..N => line[k + i] = None}
<1>1. N \in Nat /\ \A i \in Nat : i + 1 \in 0..N => line[i + 1] = SuperOf(line[i])
  BY UpwardFacts
<1> HIDE DEF N
<1>2. k \in 0..N /\ line[k] = None /\ j \in 0..N
  BY DEF N
<1> HIDE DEF line
<1>3. 0 \in S
  BY <1>2
<1>4. ASSUME NEW i \in Nat, i \in S
      PROVE  i + 1 \in S
  <2>1. SUFFICES ASSUME k + (i + 1) \in 0..N PROVE line[k + (i + 1)] = None
    OBVIOUS
  <2>2. k + i \in 0..N /\ k + i \in Nat /\ k + (i + 1) = (k + i) + 1
    BY <1>1, <1>2, <2>1
  <2>3. line[k + i] = None
    BY <1>4, <2>2
  <2>4. line[(k + i) + 1] = SuperOf(line[k + i])
    BY <1>1, <2>1, <2>2
  <2> QED
    BY <2>2, <2>3, <2>4 DEF SuperOf
<1>5. j - k \in Nat /\ k + (j - k) = j
  BY <1>1, <1>2
<1>6. j - k \in S
  <2> HIDE DEF S
  <2> QED
    BY <1>3, <1>4, <1>5, NaturalsInSet
<1> QED
  BY <1>2, <1>5, <1>6 DEF line

-----------------------------------------------------------------------------
(* On a well-named disk the climb follows the line *)

LEMMA NamedByFile ==
  ASSUME WellNamed, NEW v, FromFile(v)
  PROVE  v.file \in Names /\ disk[v.file] # None /\ FileOf(v).this = v.file /\ v # None
BY ClassesNamesAssumption DEF WellNamed, FromFile, JavaClass, FileOf

\* A load finds the class of that name and leaves no other behind.
LEMMA LoadByName ==
  ASSUME DiskOK, WellNamed, NEW r, Sound(r), r.failed = None, NEW n \in Names
  PROVE  /\ DOMAIN LoadClass(r, n).heap \subseteq DOMAIN r.heap \cup {n}
         /\ LoadClass(r, n).failed = None =>
              LoadClass(r, n).value # None /\ LoadClass(r, n).value.file = n
<1>1. ASSUME LoadClass(r, n).failed = None
      PROVE  LoadClass(r, n).value # None /\ LoadClass(r, n).value.file = n
  <2> DEFINE q == LoadClass(r, n)
  <2>1. Sound(q) /\ q.value # None /\ (q.value.file = n \/ FileOf(q.value).this = n)
    BY <1>1, LoadClassSound
  <2> HIDE DEF q
  <2>2. FromFile(q.value)
    BY <2>1 DEF Sound
  <2>3. q.value.file = n
    BY <2>1, <2>2, NamedByFile
  <2> QED
    BY <2>1, <2>3 DEF q
<1>2. r = [heap |-> r.heap, parses |-> r.parses, value |-> r.value, failed |-> r.failed]
  BY ResultFacts DEF Sound
<1>3. DOMAIN LoadClass(r, n).heap \subseteq DOMAIN r.heap \cup {n}
  <2>1. CASE n \in DOMAIN r.heap
    <3>1. LoadClass(r, n) = [r EXCEPT !.value = r.heap[n]]
      BY <2>1 DEF LoadClass
    <3>2. [r EXCEPT !.value = r.heap[n]].heap = r.heap
      BY <1>2
    <3> QED
      BY <3>1, <3>2
  <2>2. CASE n \notin DOMAIN r.heap /\ disk[n] = None
    <3>1. LoadClass(r, n) = [r EXCEPT !.failed = "no file"]
      BY <2>2 DEF LoadClass, Fail
    <3>2. [r EXCEPT !.failed = "no file"].heap = r.heap
      BY <1>2
    <3> QED
      BY <3>1, <3>2
  <2>3. CASE n \notin DOMAIN r.heap /\ disk[n] # None
    <3> DEFINE v == Parsed(n, r)
               add == [k \in DOMAIN r.heap \cup {n} |-> IF k = n THEN v ELSE r.heap[k]]
    <3>1. disk[n].this = n
      BY <2>3 DEF WellNamed
    <3>2. LoadClass(r, n) = [r EXCEPT !.parses = @ + 1, !.value = v, !.heap = add]
      BY <2>3, <3>1 DEF LoadClass, AddClass
    <3>3. DOMAIN add = DOMAIN r.heap \cup {n}
      OBVIOUS
    <3> HIDE DEF add, v
    <3>4. [r EXCEPT !.parses = @ + 1, !.value = v, !.heap = add].heap = add
      BY <1>2
    <3> QED
      BY <3>2, <3>3, <3>4
  <2> QED
    BY <2>1, <2>2, <2>3
<1> QED
  BY <1>1, <1>3

LEMMA ClimbFollowsLine ==
  ASSUME DiskOK, WellNamed, NEW r, Sound(r), NEW c, FromFile(c)
  PROVE  \A d \in 0..Cardinality(Names) :
           LET q == Climbed(r, c)[d]
               line == Upward(c.file)
           IN  q.failed = None =>
                 /\ IF q.value = None THEN line[d] = None ELSE q.value.file = line[d]
                 /\ DOMAIN q.heap \subseteq DOMAIN r.heap \cup {line[j] : j \in 0..d}
<1> DEFINE N == Cardinality(Names)
           up == Climbed(r, c)
           line == Upward(c.file)
           Follows(d) ==
             up[d].failed = None =>
               /\ IF up[d].value = None THEN line[d] = None ELSE up[d].value.file = line[d]
               /\ DOMAIN up[d].heap \subseteq DOMAIN r.heap \cup {line[j] : j \in 0..d}
           S == {d \in Nat : d \in 0..N => Follows(d)}
<1>1. /\ N \in Nat
      /\ up[0] = [r EXCEPT !.value = c]
      /\ \A k \in Nat : k + 1 \in 0..N => up[k + 1] = Up(up[k])
  BY ClimbedFacts
<1>2. /\ line[0] = c.file
      /\ \A k \in Nat : k + 1 \in 0..N => line[k + 1] = SuperOf(line[k])
  BY UpwardFacts
<1>3. \A d \in 0..N : Sound(up[d])
  BY ClimbSound
<1> HIDE DEF N, up, line
<1>4. Follows(0)
  <2>1. up[0].value = c /\ up[0].heap = r.heap
    BY <1>1, ResultFacts DEF Sound
  <2>2. c # None
    BY NamedByFile
  <2> QED
    BY <1>2, <2>1, <2>2
<1>5. ASSUME NEW d \in Nat, d + 1 \in 0..N, Follows(d)
      PROVE  Follows(d + 1)
  <2>1. SUFFICES ASSUME up[d + 1].failed = None
                 PROVE  /\ IF up[d + 1].value = None THEN line[d + 1] = None
                           ELSE up[d + 1].value.file = line[d + 1]
                        /\ DOMAIN up[d + 1].heap
                             \subseteq DOMAIN r.heap \cup {line[j] : j \in 0..(d + 1)}
    OBVIOUS
  <2>2. /\ d \in 0..N /\ Sound(up[d])
        /\ up[d + 1] = Up(up[d]) /\ line[d + 1] = SuperOf(line[d])
    BY <1>1, <1>2, <1>3, <1>5
  <2>3. {line[j] : j \in 0..d} \subseteq {line[j] : j \in 0..(d + 1)}
        /\ line[d + 1] \in {line[j] : j \in 0..(d + 1)}
    OBVIOUS
  <2>4. CASE up[d].failed # None
    BY <2>1, <2>2, <2>4 DEF Up
  <2>5. CASE up[d].failed = None /\ up[d].value = None
    <3>1. up[d + 1] = up[d] /\ line[d] = None
      BY <1>5, <2>2, <2>5 DEF Up
    <3>2. line[d + 1] = None
      BY <2>2, <3>1 DEF SuperOf
    <3> QED
      BY <1>5, <2>3, <2>5, <3>1, <3>2
  <2>6. CASE up[d].failed = None /\ up[d].value # None
    <3>1. FromFile(up[d].value) /\ up[d].value.file = line[d]
      BY <1>5, <2>2, <2>6 DEF Sound
    <3>2. line[d] \in Names /\ disk[line[d]] # None /\ line[d] # None
      BY <3>1, NamedByFile, ClassesNamesAssumption
    <3>3. line[d + 1] = FileOf(up[d].value).super
      BY <2>2, <3>1, <3>2 DEF SuperOf, FileOf
    <3>4. CASE line[d + 1] = None
      <4>1. up[d + 1] = [up[d] EXCEPT !.value = None]
        BY <2>2, <2>6, <3>3, <3>4 DEF Up
      <4>2. up[d + 1].value = None /\ up[d + 1].heap = up[d].heap
        BY <2>2, <4>1, ResultFacts DEF Sound
      <4> QED
        BY <1>5, <2>3, <2>6, <3>4, <4>2
    <3>5. CASE line[d + 1] # None
      <4>1. line[d + 1] \in Names
        <5>1. disk[line[d]] \in ClassFile
          BY <3>2 DEF DiskOK
        <5>2. disk[line[d]].super \in Names \cup {None}
          BY <5>1 DEF ClassFile
        <5> QED
          BY <2>2, <3>2, <3>5, <5>2 DEF SuperOf
      <4>2. up[d + 1] = LoadClass(up[d], line[d + 1])
        BY <2>2, <2>6, <3>3, <3>5 DEF Up
      <4>3. /\ DOMAIN up[d + 1].heap \subseteq DOMAIN up[d].heap \cup {line[d + 1]}
            /\ up[d + 1].value # None /\ up[d + 1].value.file = line[d + 1]
        BY <2>1, <2>2, <2>6, <4>1, <4>2, LoadByName
      <4> QED
        BY <1>5, <2>3, <2>6, <4>3
    <3> QED
      BY <3>4, <3>5
  <2> QED
    BY <2>4, <2>5, <2>6
<1>6. Nat \subseteq S
  <2> HIDE DEF Follows
  <2>1. 0 \in S
    BY <1>4
  <2>2. ASSUME NEW k \in Nat, k \in S
        PROVE  k + 1 \in S
    BY <1>1, <1>5, <2>2
  <2> HIDE DEF S
  <2> QED
    BY <2>1, <2>2, NaturalsInSet
<1>7. \A d \in 0..N : Follows(d)
  <2> HIDE DEF Follows
  <2> QED
    BY <1>1, <1>6
<1> QED
  BY <1>7 DEF N, up, line

Least(E) == CHOOSE d \in E : \A e \in E : d <= e

\* What a search from file n that answers v may load (see LoadsOnlyItsPath).
Path(n, v) ==
  LET line == Upward(n)
      stop == {k \in DOMAIN line : v # None /\ line[k] = v.file}
  IN  {line[k] : k \in {k \in DOMAIN line : \A j \in stop : k <= j}}

\* Where a search from r and c ends that wants a file in G, and what it has found there.
Ends(r, c, G) ==
  {d \in DOMAIN Climbed(r, c) :
     \/ Climbed(r, c)[d].failed # None
     \/ Climbed(r, c)[d].value = None
     \/ Climbed(r, c)[d].value.file \in G}
FoundIn(r, c, G) == Climbed(r, c)[Least(Ends(r, c, G))]

Fits(n, G) == {k \in DOMAIN Upward(n) : Upward(n)[k] \in G}

\* A search for a class whose file is in G stops at the first of them.
LEMMA SearchFinds ==
  ASSUME DiskOK, WellNamed, NEW r, Sound(r), NEW c, FromFile(c), NEW G \in SUBSET Names
  PROVE  /\ Sound(FoundIn(r, c, G))
         /\ FoundIn(r, c, G).failed = None =>
              /\ IF Fits(c.file, G) = {} THEN FoundIn(r, c, G).value = None
                 ELSE /\ FoundIn(r, c, G).value # None
                      /\ FoundIn(r, c, G).value.file = Upward(c.file)[Least(Fits(c.file, G))]
              /\ DOMAIN FoundIn(r, c, G).heap
                   \subseteq DOMAIN r.heap \cup Path(c.file, FoundIn(r, c, G).value)
<1> DEFINE N == Cardinality(Names)
           up == Climbed(r, c)
           line == Upward(c.file)
           ends == {d \in DOMAIN up :
                      up[d].failed # None \/ up[d].value = None \/ up[d].value.file \in G}
           k == Least(ends)
           found == up[k]
           fits == {i \in DOMAIN line : line[i] \in G}
<1>1. /\ N \in Nat /\ DOMAIN up = 0..N /\ DOMAIN line = 0..N
      /\ \A d \in 0..N : Sound(up[d])
      /\ Ended(up[N])
  BY ClimbedFacts, UpwardFacts, ClimbSound
<1>2. \A d \in 0..N : up[d].failed = None =>
        /\ IF up[d].value = None THEN line[d] = None ELSE up[d].value.file = line[d]
        /\ DOMAIN up[d].heap \subseteq DOMAIN r.heap \cup {line[j] : j \in 0..d}
  BY ClimbFollowsLine
<1>3. \A i, j \in 0..N : line[i] = None /\ i <= j => line[j] = None
  BY LineStops
<1> DEFINE path == {line[i] : i \in {i \in DOMAIN line :
                       \A j \in {j \in DOMAIN line : found.value # None
                                                     /\ line[j] = found.value.file} : i <= j}}
<1>4. Path(c.file, found.value) = path
  BY DEF Path
<1> HIDE DEF N, up, line
<1>5. k \in ends /\ \A e \in ends : k <= e
  <2>1. ends \subseteq 0..N /\ N \in ends
    BY <1>1 DEF Ended
  <2> HIDE DEF ends
  <2> QED
    BY <1>1, <2>1, LeastEnd DEF Least
<1> HIDE DEF k
<1>6. k \in 0..N /\ Sound(found)
  BY <1>1, <1>5
<1>7. ASSUME found.failed = None
      PROVE  /\ IF fits = {} THEN found.value = None
                ELSE found.value # None /\ found.value.file = line[Least(fits)]
             /\ DOMAIN found.heap \subseteq DOMAIN r.heap \cup path
  <2>1. ASSUME NEW j \in fits
        PROVE  k <= j
    <3>1. j \in 0..N /\ line[j] \in G /\ line[j] # None
      BY <1>1, ClassesNamesAssumption
    <3>2. CASE j \in ends
      BY <1>5, <3>2
    <3>3. CASE j \notin ends
      BY <1>1, <1>2, <3>1, <3>3
    <3> QED
      BY <3>2, <3>3
  <2>2. {line[j] : j \in 0..k} \subseteq {line[i] : i \in 0..N}
    BY <1>1, <1>6
  <2>3. DOMAIN found.heap \subseteq DOMAIN r.heap \cup {line[j] : j \in 0..k}
    BY <1>2, <1>6, <1>7
  <2>4. CASE found.value = None
    <3>1. line[k] = None
      BY <1>2, <1>6, <1>7, <2>4
    <3>2. fits = {}
      <4>1. ASSUME NEW j \in fits PROVE FALSE
        BY <1>1, <1>3, <1>6, <2>1, <3>1, <4>1, ClassesNamesAssumption
      <4> QED
        BY <4>1
    <3>3. path = {line[i] : i \in 0..N}
      BY <1>1, <2>4
    <3> QED
      BY <2>2, <2>3, <2>4, <3>2, <3>3
  <2>5. CASE found.value # None
    <3>1. found.value.file = line[k] /\ line[k] \in G
      BY <1>2, <1>5, <1>6, <1>7, <2>5
    <3>2. k \in fits
      BY <1>1, <1>6, <3>1
    <3>3. Least(fits) = k
      <4>1. fits \subseteq Nat
        BY <1>1
      <4>2. \A d \in fits : (\A e \in fits : d <= e) => d <= k /\ k <= d
        BY <2>1, <3>2
      <4>3. \A d \in fits : (\A e \in fits : d <= e) => d = k
        BY <4>1, <4>2, <3>2
      <4> HIDE DEF fits
      <4> QED
        BY <2>1, <3>2, <4>3 DEF Least
    <3>4. ASSUME NEW i \in 0..k
          PROVE  line[i] \in path
      <4>1. i \in 0..N
        BY <1>1, <1>6
      <4>2. ASSUME NEW j \in DOMAIN line, line[j] = found.value.file
            PROVE  i <= j
        <5>1. j \in fits /\ j \in 0..N
          BY <1>1, <3>1, <4>2
        <5>2. k <= j
          BY <2>1, <5>1
        <5> QED
          BY <1>1, <1>6, <5>1, <5>2
      <4> QED
        BY <1>1, <4>1, <4>2
    <3> HIDE DEF path, fits
    <3> QED
      BY <2>3, <2>5, <3>1, <3>2, <3>3, <3>4
  <2> QED
    BY <2>4, <2>5
<1>8. Ends(r, c, G) = ends /\ Fits(c.file, G) = fits /\ FoundIn(r, c, G) = found
  BY DEF Ends, Fits, FoundIn, up, line, k
<1> HIDE DEF fits, found, path
<1> QED
  BY <1>4, <1>6, <1>7, <1>8 DEF line

-----------------------------------------------------------------------------
(* What the calls find *)

\* NearestIsFound and LoadsOnlyItsPath for one answer.
Nearest(a) ==
  a.op \in {"method", "inherits"} =>
    LET line == Upward(a.of)
        fits == {k \in DOMAIN line : line[k] \in Wanted(a)}
        mute == a.op = "method" /\ disk[a.of].methods = {}
    IN  IF fits = {} \/ mute THEN a.value = None
        ELSE a.value # None /\ a.value.file = line[Least(fits)]

LEMMA SoundOnTheWay ==
  ASSUME DiskOK, NEW r, Sound(r), NEW c, FromFile(c), NEW d \in DOMAIN Climbed(r, c)
  PROVE  Sound(Climbed(r, c)[d])
<1>1. DOMAIN Climbed(r, c) = 0..Cardinality(Names)
  BY ClimbedFacts
<1> QED
  BY <1>1, ClimbSound

LEMMA MethodFinds ==
  ASSUME DiskOK, WellNamed, NEW r, Sound(r), NEW c, FromFile(c), NEW m \in Members,
         NEW a, a = [op |-> "method", of |-> c.file, arg |-> m,
                     value |-> MethodId(r, c, m).value],
         MethodId(r, c, m).failed = None
  PROVE  Nearest(a) /\ DOMAIN MethodId(r, c, m).heap
                         \subseteq DOMAIN r.heap \cup Path(c.file, a.value)
<1> DEFINE G == Wanted(a)
           found == FoundIn(r, c, G)
           q == MethodId(r, c, m)
<1>1. /\ a.op = "method" /\ a.of = c.file /\ a.arg = m /\ a.value = q.value
      /\ G = {n \in Names : disk[n] # None /\ m \in disk[n].methods}
  BY DEF Wanted
<1>2. q = IF FileOf(c).methods = {} THEN [r EXCEPT !.value = None]
          ELSE IF found.failed = None /\ found.value = None THEN Fail(found, "no method")
          ELSE found
  <2> DEFINE up == Climbed(r, c)
             Declares(class) == m \in FileOf(class).methods
             declared == {d \in DOMAIN up : up[d].failed # None \/ up[d].value = None
                                            \/ Declares(up[d].value)}
  <2>1. FirstOf(up, Declares) = up[Least(declared)]
    BY DEF FirstOf, Least
  <2>2. \A d \in DOMAIN up : up[d].value # None => FromFile(up[d].value)
    BY SoundOnTheWay DEF Sound
  <2>3. Ends(r, c, G) = {d \in DOMAIN up : up[d].failed # None \/ up[d].value = None
                                            \/ up[d].value.file \in G}
    BY DEF Ends
  <2> HIDE DEF up, G
  <2>4. \A d \in DOMAIN up : up[d].value # None =>
          (Declares(up[d].value) <=> up[d].value.file \in G)
    BY <1>1, <2>2, NamedByFile DEF FileOf
  <2>5. declared = Ends(r, c, G)
    BY <2>3, <2>4
  <2> HIDE DEF declared
  <2>6. FirstOf(up, Declares) = found
    BY <2>1, <2>5 DEF FoundIn, up
  <2> QED
    BY <2>6 DEF MethodId, up
<1>3. G \in SUBSET Names
  BY <1>1
<1> HIDE DEF q, G
<1>4. /\ Sound(found)
      /\ found.failed = None =>
           /\ IF Fits(c.file, G) = {} THEN found.value = None
              ELSE found.value # None /\ found.value.file = Upward(c.file)[Least(Fits(c.file, G))]
           /\ DOMAIN found.heap \subseteq DOMAIN r.heap \cup Path(c.file, found.value)
  BY <1>3, SearchFinds
<1> HIDE DEF found
<1>5. CASE FileOf(c).methods = {}
  <2>1. q.value = None /\ q.heap = r.heap
    BY <1>2, <1>5, ResultFacts DEF Sound
  <2>2. disk[a.of].methods = {}
    BY <1>1, <1>5 DEF FileOf
  <2> QED
    BY <1>1, <2>1, <2>2 DEF Nearest, q
<1>6. CASE FileOf(c).methods # {}
  <2>1. ~(found.failed = None /\ found.value = None)
    <3>1. SUFFICES ASSUME found.failed = None /\ found.value = None PROVE FALSE
      OBVIOUS
    <3>2. q = Fail(found, "no method")
      BY <1>2, <1>6, <3>1
    <3>3. found = [heap |-> found.heap, parses |-> found.parses, value |-> found.value,
                   failed |-> found.failed]
      BY <1>4, ResultFacts DEF Sound
    <3>4. q.failed = "no method"
      BY <3>2, <3>3 DEF Fail
    <3> QED
      BY <3>4, ClassesNamesAssumption DEF q, Failures
  <2>2. q = found /\ found.failed = None
    BY <1>2, <1>6, <2>1 DEF q
  <2>3. /\ Fits(c.file, G) # {} /\ a.value # None
        /\ a.value.file = Upward(c.file)[Least(Fits(c.file, G))]
    BY <1>1, <1>4, <2>1, <2>2
  <2>4. disk[a.of].methods # {}
    BY <1>1, <1>6 DEF FileOf
  <2>5. Nearest(a)
    BY <1>1, <2>3, <2>4 DEF Nearest, Fits, G
  <2> QED
    BY <1>1, <1>4, <2>2, <2>5 DEF q
<1> QED
  BY <1>5, <1>6

LEMMA InheritFinds ==
  ASSUME DiskOK, WellNamed, NEW r, Sound(r), NEW c, FromFile(c), NEW name \in Names,
         NEW a, a = [op |-> "inherits", of |-> c.file, arg |-> name,
                     value |-> InheritFrom(r, c, name).value],
         InheritFrom(r, c, name).failed = None
  PROVE  Nearest(a) /\ DOMAIN InheritFrom(r, c, name).heap
                         \subseteq DOMAIN r.heap \cup Path(c.file, a.value)
<1> DEFINE G == Wanted(a)
           found == FoundIn(r, c, G)
           q == InheritFrom(r, c, name)
<1>1. /\ a.op = "inherits" /\ a.of = c.file /\ a.arg = name /\ a.value = q.value
      /\ G = {n \in Names : disk[n] # None /\ name = n}
  BY DEF Wanted
<1>2. q = found
  <2> DEFINE up == Climbed(r, c)
             Named(class) == FileOf(class).this = name
             named == {d \in DOMAIN up : up[d].failed # None \/ up[d].value = None
                                         \/ Named(up[d].value)}
  <2>1. q = up[Least(named)]
    BY DEF InheritFrom, FirstOf, Least
  <2>2. \A d \in DOMAIN up : up[d].value # None => FromFile(up[d].value)
    BY SoundOnTheWay DEF Sound
  <2>3. Ends(r, c, G) = {d \in DOMAIN up : up[d].failed # None \/ up[d].value = None
                                            \/ up[d].value.file \in G}
    BY DEF Ends
  <2> HIDE DEF up, G, q
  <2>4. \A d \in DOMAIN up : up[d].value # None =>
          (Named(up[d].value) <=> up[d].value.file \in G)
    BY <1>1, <2>2, NamedByFile DEF FileOf
  <2>5. named = Ends(r, c, G)
    BY <2>3, <2>4
  <2> HIDE DEF named
  <2> QED
    BY <2>1, <2>5 DEF FoundIn, up
<1>3. G \in SUBSET Names
  BY <1>1
<1> HIDE DEF G
<1>4. found.failed = None =>
        /\ IF Fits(c.file, G) = {} THEN found.value = None
           ELSE found.value # None /\ found.value.file = Upward(c.file)[Least(Fits(c.file, G))]
        /\ DOMAIN found.heap \subseteq DOMAIN r.heap \cup Path(c.file, found.value)
  BY <1>3, SearchFinds
<1> HIDE DEF found
<1>5. found.failed = None
  BY <1>2
<1>6. Nearest(a)
  BY <1>1, <1>2, <1>4, <1>5 DEF Nearest, Fits, G
<1> QED
  BY <1>1, <1>2, <1>4, <1>5, <1>6

LEMMA ToTheTopLoads ==
  ASSUME DiskOK, WellNamed, NEW r, Sound(r), NEW c, FromFile(c),
         ToTheTop(r, c).failed = None
  PROVE  DOMAIN ToTheTop(r, c).heap
           \subseteq DOMAIN r.heap \cup Path(c.file, ToTheTop(r, c).value)
<1> DEFINE up == Climbed(r, c)
           Never(class) == FALSE
           top == {d \in DOMAIN up : up[d].failed # None \/ up[d].value = None
                                     \/ Never(up[d].value)}
<1>1. ToTheTop(r, c) = up[Least(top)]
  BY DEF ToTheTop, FirstOf, Least
<1>2. top = Ends(r, c, {})
  BY DEF Ends
<1> HIDE DEF top
<1>3. ToTheTop(r, c) = FoundIn(r, c, {})
  BY <1>1, <1>2 DEF FoundIn
<1> QED
  BY <1>3, SearchFinds

LEMMA CallFinds ==
  ASSUME LoadInv, Next, WellNamed, vm' = "running"
  PROVE  Nearest(answer') /\ DOMAIN heap' \subseteq DOMAIN heap \cup Path(answer'.of, answer'.value)
<1>1. HeapOK /\ Sound(Start) /\ Start.failed = None /\ Start.heap = heap
  <2>1. vm = "running"
    BY DEF Next, Load, New, ResolveMethod, AskInheritance
  <2> QED
    BY <2>1, StartSound DEF LoadInv
<1>2. DiskOK
  BY DEF LoadInv
<1>3. ASSUME NEW r, Sound(r), NEW call, Finish(r, call)
      PROVE  r.failed = None /\ heap' = r.heap /\ answer' = [call EXCEPT !.value = r.value]
  <2>1. r.failed \in Failures \cup {None}
    BY <1>3, ResultFacts DEF Sound
  <2> QED
    BY <1>3, <2>1 DEF Finish, Failures
<1>4. ASSUME NEW op, NEW of, NEW arg, NEW v
      PROVE  [Call(op, of, arg) EXCEPT !.value = v]
               = [op |-> op, of |-> of, arg |-> arg, value |-> v]
  BY DEF Call
<1>5. ASSUME NEW n, NEW v
      PROVE  n \in Path(n, v)
  <2>1. /\ Cardinality(Names) \in Nat
        /\ DOMAIN Upward(n) = 0..Cardinality(Names) /\ Upward(n)[0] = n
    BY UpwardFacts
  <2> QED
    BY <2>1 DEF Path
<1>6. ASSUME NEW n \in Names
      PROVE  /\ Sound(LoadClass(Start, n))
             /\ DOMAIN LoadClass(Start, n).heap \subseteq DOMAIN heap \cup {n}
             /\ LoadClass(Start, n).failed = None =>
                  /\ FromFile(LoadClass(Start, n).value)
                  /\ LoadClass(Start, n).value.file = n
  <2>1. Sound(LoadClass(Start, n))
    BY <1>1, <1>2, LoadClassSound
  <2> QED
    BY <1>1, <1>2, <2>1, LoadByName DEF Sound
<1>7. ASSUME NEW n \in Names, Load(n)
      PROVE  Nearest(answer') /\ DOMAIN heap' \subseteq DOMAIN heap \cup Path(answer'.of, answer'.value)
  <2> DEFINE r == LoadClass(Start, n)
  <2>1. Finish(r, Call("load", n, None))
    BY <1>7 DEF Load
  <2>2. r.failed = None /\ heap' = r.heap
        /\ answer' = [Call("load", n, None) EXCEPT !.value = r.value]
    BY <1>3, <1>6, <2>1
  <2>3. answer' = [op |-> "load", of |-> n, arg |-> None, value |-> r.value]
    BY <1>4, <2>2
  <2>4. DOMAIN r.heap \subseteq DOMAIN heap \cup {n}
    BY <1>6
  <2> HIDE DEF r
  <2>5. answer'.op = "load" /\ answer'.of = n
    BY <2>3
  <2>6. n \in Path(answer'.of, answer'.value)
    BY <1>5, <2>5
  <2> QED
    BY <2>2, <2>4, <2>5, <2>6 DEF Nearest
<1>8. ASSUME NEW n \in Names, New(n)
      PROVE  Nearest(answer') /\ DOMAIN heap' \subseteq DOMAIN heap \cup Path(answer'.of, answer'.value)
  <2> DEFINE r == LoadClass(Start, n)
             q == IF r.failed # None THEN r ELSE ToTheTop(r, r.value)
  <2>1. Finish(q, Call("new", n, None))
    BY <1>8 DEF New
  <2>2. /\ Sound(r) /\ DOMAIN r.heap \subseteq DOMAIN heap \cup {n}
        /\ r.failed = None => FromFile(r.value) /\ r.value.file = n
    BY <1>6
  <2> HIDE DEF r
  <2>3. Sound(q)
    BY <1>2, <2>2, ToTheTopSound
  <2>4. q.failed = None /\ heap' = q.heap
        /\ answer' = [op |-> "new", of |-> n, arg |-> None, value |-> q.value]
    <3>1. q.failed = None /\ heap' = q.heap
      BY <1>3, <2>1, <2>3
    <3>2. answer' = [Call("new", n, None) EXCEPT !.value = q.value]
      BY <1>3, <2>1, <2>3
    <3> HIDE DEF q
    <3> QED
      BY <1>4, <3>1, <3>2
  <2>5. r.failed = None /\ q = ToTheTop(r, r.value)
    BY <2>4
  <2>6. DOMAIN q.heap \subseteq DOMAIN r.heap \cup Path(n, q.value)
    BY <1>2, <2>2, <2>4, <2>5, ToTheTopLoads
  <2> HIDE DEF q
  <2>7. answer'.op = "new" /\ answer'.of = n /\ answer'.value = q.value
    BY <2>4
  <2>8. n \in Path(n, q.value)
    BY <1>5
  <2> QED
    BY <2>2, <2>4, <2>6, <2>7, <2>8 DEF Nearest
<1>9. ASSUME NEW n \in Names, NEW m \in Members, ResolveMethod(n, m)
      PROVE  Nearest(answer') /\ DOMAIN heap' \subseteq DOMAIN heap \cup Path(answer'.of, answer'.value)
  <2> DEFINE r == LoadClass(Start, n)
             q == IF r.failed # None THEN r ELSE MethodId(r, r.value, m)
  <2>1. Finish(q, Call("method", n, m))
    BY <1>9 DEF ResolveMethod
  <2>2. /\ Sound(r) /\ DOMAIN r.heap \subseteq DOMAIN heap \cup {n}
        /\ r.failed = None => FromFile(r.value) /\ r.value.file = n
    BY <1>6
  <2> HIDE DEF r
  <2>3. Sound(q)
    BY <1>2, <2>2, MethodIdSound
  <2>4. q.failed = None /\ heap' = q.heap
        /\ answer' = [op |-> "method", of |-> n, arg |-> m, value |-> q.value]
    <3>1. q.failed = None /\ heap' = q.heap
      BY <1>3, <2>1, <2>3
    <3>2. answer' = [Call("method", n, m) EXCEPT !.value = q.value]
      BY <1>3, <2>1, <2>3
    <3> HIDE DEF q
    <3> QED
      BY <1>4, <3>1, <3>2
  <2>5. r.failed = None /\ q = MethodId(r, r.value, m)
    BY <2>4
  <2>6. answer'.value = q.value
    BY <2>4
  <2>7. /\ Nearest(answer')
        /\ DOMAIN q.heap \subseteq DOMAIN r.heap \cup Path(n, answer'.value)
    BY <1>2, <2>2, <2>4, <2>5, MethodFinds
  <2> HIDE DEF q
  <2>8. n \in Path(n, q.value) /\ answer'.of = n
    BY <1>5, <2>4
  <2> QED
    BY <2>2, <2>4, <2>6, <2>7, <2>8
<1>10. ASSUME NEW n \in Names, NEW name \in Names, AskInheritance(n, name)
       PROVE  Nearest(answer') /\ DOMAIN heap' \subseteq DOMAIN heap \cup Path(answer'.of, answer'.value)
  <2> DEFINE c == heap[n]
             q == InheritFrom(Start, c, name)
  <2>1. n \in DOMAIN heap /\ Finish(q, Call("inherits", n, name))
    BY <1>10 DEF AskInheritance
  <2>2. FromFile(c) /\ FileOf(c).this = n
    BY <1>1, <2>1 DEF HeapOK
  <2> HIDE DEF c
  <2>3. c.file = n
    BY <2>2, NamedByFile
  <2>4. Sound(q)
    BY <1>1, <1>2, <2>2, InheritFromSound
  <2>5. q.failed = None /\ heap' = q.heap
        /\ answer' = [op |-> "inherits", of |-> n, arg |-> name, value |-> q.value]
    <3>1. q.failed = None /\ heap' = q.heap
      BY <1>3, <2>1, <2>4
    <3>2. answer' = [Call("inherits", n, name) EXCEPT !.value = q.value]
      BY <1>3, <2>1, <2>4
    <3> HIDE DEF q
    <3> QED
      BY <1>4, <3>1, <3>2
  <2>6. /\ Nearest(answer')
        /\ DOMAIN q.heap \subseteq DOMAIN Start.heap \cup Path(n, answer'.value)
    BY <1>1, <1>2, <2>2, <2>3, <2>5, InheritFinds
  <2> HIDE DEF q
  <2>7. answer'.of = n
    BY <2>5
  <2> QED
    BY <1>1, <2>5, <2>6, <2>7
<1> QED
  BY <1>7, <1>8, <1>9, <1>10 DEF Next

NearestHere == WellNamed /\ vm = "running" => Nearest(answer)

LEMMA NearestSame ==
  ASSUME disk' = disk
  PROVE  /\ WellNamed' = WellNamed
         /\ Nearest(answer') => Nearest(answer)'
<1>1. WellNamed' = WellNamed
  BY DEF WellNamed
<1>2. Upward(answer.of)' = Upward(answer'.of)
  BY DEF Upward, SuperOf
<1>3. Wanted(answer)' = Wanted(answer')
  BY DEF Wanted
<1> QED
  BY <1>1, <1>2, <1>3 DEF Nearest

\* On every set of disks without a cycle of superclasses whose files are named after
\* their classes, a Methodref resolves to the nearest declaration above its class, and
\* isInheritFrom answers with the ancestor of that name or throws.
THEOREM SearchesFindTheNearest ==
  ASSUME NEW D, D \subseteq {d \in [Names -> ClassFile \cup {None}] : Acyclic(d)}
  PROVE  InitOn(D) /\ [][Next]_vars => []NearestIsFound
<1>1. InitOn(D) => LoadInv /\ NearestHere
  <2>1. InitOn(D) => answer.op = "none"
    BY DEF InitOn, Call
  <2> QED
    BY <2>1, EmptyHeap DEF NearestHere, Nearest
<1>2. LoadInv /\ NearestHere /\ [Next]_vars => LoadInv' /\ NearestHere'
  <2>1. SUFFICES ASSUME LoadInv, NearestHere, [Next]_vars
                 PROVE  LoadInv' /\ NearestHere'
    OBVIOUS
  <2>2. CASE UNCHANGED vars
    <3>1. LoadInv'
      BY <2>1, <2>2 DEF LoadInv, vars, DiskOK, HeapOK, FromFile, FileOf, WellNamed
    <3>2. disk' = disk /\ vm' = vm /\ answer' = answer
      BY <2>2 DEF vars
    <3>3. Nearest(answer) => Nearest(answer')
      BY <3>2
    <3> QED
      BY <2>1, <3>1, <3>2, <3>3, NearestSame DEF NearestHere
  <2>3. CASE Next
    <3>1. disk' = disk
      BY <2>3 DEF Next, Load, New, ResolveMethod, AskInheritance, Finish
    <3> QED
      BY <2>1, <2>3, <3>1, CallKeeps, CallFinds, NearestSame DEF NearestHere
  <2> QED
    BY <2>1, <2>2, <2>3
<1>3. NearestHere => NearestIsFound
  BY DEF NearestHere, Nearest, NearestIsFound, Least
<1> QED
  BY <1>1, <1>2, <1>3, PTL

\* On such disks, a call loads the classes between the one it was asked about and the
\* one it answers, and none above it: linking stays as lazy as the code means it to be.
THEOREM SearchesLoadOnlyTheirPath ==
  ASSUME NEW D, D \subseteq {d \in [Names -> ClassFile \cup {None}] : Acyclic(d)}
  PROVE  InitOn(D) /\ [][Next]_vars => LoadsOnlyItsPath
<1> DEFINE Lazy == WellNamed /\ vm' = "running" =>
                     DOMAIN heap' \subseteq DOMAIN heap \cup Path(answer'.of, answer'.value)
<1>1. InitOn(D) => LoadInv
  BY EmptyHeap
<1>2. LoadInv /\ [Next]_vars => LoadInv' /\ [Lazy]_vars
  <2>1. LoadInv /\ UNCHANGED vars => LoadInv'
    BY DEF LoadInv, vars, DiskOK, HeapOK, FromFile, FileOf, WellNamed
  <2>2. LoadInv /\ Next => LoadInv' /\ Lazy
    BY CallKeeps, CallFinds
  <2> QED
    BY <2>1, <2>2
<1>3. LoadsOnlyItsPath <=> [][Lazy]_vars
  BY DEF LoadsOnlyItsPath, Path
<1> QED
  BY <1>1, <1>2, <1>3, PTL
=============================================================================

---------------------------- MODULE FramesProofs ----------------------------
(***************************************************************************)
(* The frames of e-jvm beside those of the specification, for every set of *)
(* methods, every program and every width of int.                          *)
(***************************************************************************)
EXTENDS JvmFrames, Recursion

-----------------------------------------------------------------------------
(* Parameters: the string countMethodStack makes of them *)

Characters == {"I", "F", "J", "L", ";"}

Pieces(params) == [k \in DOMAIN params |-> Counted(params[k])]

\* The characters the first k parameters become.
CharactersOf(params, k) == SumTo(Lengths(Pieces(params)), k)

LEMMA PieceFacts ==
  ASSUME NEW params \in Seq(ParameterType)
  PROVE  /\ Pieces(params) \in Seq(Seq(Characters))
         /\ Len(Pieces(params)) = Len(params)
         /\ \A k \in 1..Len(params) :
              /\ Pieces(params)[k] = Counted(params[k])
              /\ Lengths(Pieces(params))[k] = IF params[k] = "L" THEN 2 ELSE 1
<1>1. ASSUME NEW type \in ParameterType
      PROVE  /\ Counted(type) \in Seq(Characters)
             /\ Len(Counted(type)) = IF type = "L" THEN 2 ELSE 1
  <2>1. \/ Counted(type) = <<"I">> /\ type # "L"
        \/ Counted(type) = <<"J">> /\ type # "L"
        \/ Counted(type) = <<"F">> /\ type # "L"
        \/ Counted(type) = <<"L", ";">> /\ type = "L"
    BY DEF Counted, ParameterType
  <2>2. /\ <<"I">> \in Seq(Characters) /\ <<"J">> \in Seq(Characters)
        /\ <<"F">> \in Seq(Characters) /\ <<"L", ";">> \in Seq(Characters)
    BY DEF Characters
  <2>3. Len(<<"I">>) = 1 /\ Len(<<"J">>) = 1 /\ Len(<<"F">>) = 1 /\ Len(<<"L", ";">>) = 2
    OBVIOUS
  <2> QED
    BY <2>1, <2>2, <2>3
<1>2. DOMAIN params = 1..Len(params) /\ Len(params) \in Nat
  OBVIOUS
<1>3. Pieces(params) = [k \in 1..Len(params) |-> Counted(params[k])]
  BY <1>2 DEF Pieces
<1>4. \A k \in 1..Len(params) : params[k] \in ParameterType
  OBVIOUS
<1>5. Pieces(params) \in Seq(Seq(Characters))
  BY <1>1, <1>2, <1>3, <1>4
<1>6. Len(Pieces(params)) = Len(params)
  BY <1>2, <1>3
<1>7. \A k \in 1..Len(params) : Lengths(Pieces(params))[k] = Len(Counted(params[k]))
  BY <1>3, <1>6 DEF Lengths
<1> QED
  BY <1>1, <1>3, <1>4, <1>5, <1>6, <1>7

\* Between two parameters there are as many characters as parameters, and one more
\* for each class among them.
LEMMA CharactersFacts ==
  ASSUME NEW params \in Seq(ParameterType)
  PROVE  /\ CharactersOf(params, 0) = 0
         /\ \A k \in 0..Len(params) : CharactersOf(params, k) \in Nat
         /\ \A k \in 1..Len(params) :
              CharactersOf(params, k) =
                CharactersOf(params, k - 1) + (IF params[k] = "L" THEN 2 ELSE 1)
<1> DEFINE w == Lengths(Pieces(params))
           n == Len(params)
<1>1. n \in Nat /\ \A k \in 1..n : w[k] = IF params[k] = "L" THEN 2 ELSE 1
  BY PieceFacts
<1>2. \A k \in 1..n : w[k] \in Nat /\ w[k] \in Int
  BY <1>1
<1>3. \A k \in 0..n : k <= n /\ n \in 0..n
  BY <1>1
<1> HIDE DEF w, n
<1>4. /\ SumTo(w, 0) = 0
      /\ \A k \in 0..n : SumTo(w, k) \in Nat
      /\ \A k \in 1..n : SumTo(w, k) = SumTo(w, k - 1) + w[k]
  BY <1>1, <1>2, <1>3, SumToFacts, SumToGrows
<1> QED
  BY <1>1, <1>4 DEF CharactersOf, w, n

LEMMA CharactersBetween ==
  ASSUME NEW params \in Seq(ParameterType), NEW j \in 0..Len(params)
  PROVE  \A k \in j..Len(params) :
           /\ k - j <= CharactersOf(params, k) - CharactersOf(params, j)
           /\ (\A q \in (j + 1)..k : params[q] # "L") =>
                CharactersOf(params, k) - CharactersOf(params, j) = k - j
           /\ (\E q \in (j + 1)..k : params[q] = "L") =>
                CharactersOf(params, k) - CharactersOf(params, j) > k - j
<1> DEFINE n == Len(params)
           c(k) == CharactersOf(params, k)
           P(k) == /\ k - j <= c(k) - c(j)
                   /\ (\A q \in (j + 1)..k : params[q] # "L") => c(k) - c(j) = k - j
                   /\ (\E q \in (j + 1)..k : params[q] = "L") => c(k) - c(j) > k - j
           S == {d \in Nat : j + d \in j..n => P(j + d)}
<1>1. n \in Nat /\ j \in Nat
  OBVIOUS
<1>2. /\ \A k \in 0..n : c(k) \in Nat
      /\ \A k \in 1..n : c(k) = c(k - 1) + (IF params[k] = "L" THEN 2 ELSE 1)
  BY CharactersFacts
<1> HIDE DEF c, n
<1>3. 0 \in S
  <2>1. j + 0 = j /\ c(j) \in Nat
    BY <1>1, <1>2 DEF n
  <2> QED
    BY <1>1, <2>1
<1>4. ASSUME NEW d \in Nat, d \in S
      PROVE  d + 1 \in S
  <2> SUFFICES ASSUME j + (d + 1) \in j..n PROVE P(j + (d + 1))
    OBVIOUS
  <2> DEFINE k == j + d
  <2>1. /\ k \in j..n /\ k \in 0..n /\ k + 1 \in 1..n /\ (k + 1) - 1 = k
        /\ j + (d + 1) = k + 1 /\ k \in Nat /\ j \in 0..n
    BY <1>1
  <2>2. P(k)
    BY <1>4, <2>1
  <2> HIDE DEF k
  <2>3. /\ c(k) \in Nat /\ c(j) \in Nat
        /\ c(k + 1) = c(k) + (IF params[k + 1] = "L" THEN 2 ELSE 1)
    BY <1>2, <2>1
  <2>4. (j + 1)..(k + 1) = ((j + 1)..k) \cup {k + 1}
    BY <1>1, <2>1
  <2>5. CASE params[k + 1] = "L"
    <3>1. (k + 1) - j < c(k + 1) - c(j)
      BY <1>1, <2>1, <2>2, <2>3, <2>5
    <3> QED
      BY <2>1, <2>4, <2>5, <3>1, <1>1, <2>3
  <2>6. CASE params[k + 1] # "L"
    <3>1. c(k + 1) - c(j) = c(k) - c(j) + 1 /\ (k + 1) - j = k - j + 1
      BY <1>1, <2>1, <2>3, <2>6
    <3>2. /\ (\A q \in (j + 1)..(k + 1) : params[q] # "L")
               => (\A q \in (j + 1)..k : params[q] # "L")
          /\ (\E q \in (j + 1)..(k + 1) : params[q] = "L")
               => (\E q \in (j + 1)..k : params[q] = "L")
      BY <2>4, <2>6
    <3>3. P(k + 1)
      BY <1>1, <2>1, <2>2, <2>3, <3>1, <3>2, SMTT(20)
    <3> QED
      BY <2>1, <3>3
  <2> QED
    BY <2>5, <2>6
<1>5. Nat \subseteq S
  <2> HIDE DEF S
  <2> QED
    BY <1>3, <1>4, NaturalsInSet
<1>6. \A k \in j..n : k - j \in Nat /\ j + (k - j) = k
  BY <1>1
<1>7. \A k \in j..n : P(k)
  <2> HIDE DEF P
  <2> QED
    BY <1>5, <1>6
<1> QED
  BY <1>7 DEF c, n

\* Where the string has the character of a parameter, and where a J comes from.
LEMMA CountFacts ==
  ASSUME NEW params \in Seq(ParameterType)
  PROVE  LET count == CountMethodStack(params)
             n == Len(params)
         IN  /\ count \in Seq(Characters)
             /\ Len(count) = CharactersOf(params, n)
             /\ \A q \in 1..n :
                  /\ CharactersOf(params, q - 1) + 1 \in 1..Len(count)
                  /\ count[CharactersOf(params, q - 1) + 1] = "J"
                       <=> params[q] \in {"J", "[J"}
             /\ \A x \in 1..Len(count) : count[x] = "J" =>
                  \E q \in 1..n : /\ x = CharactersOf(params, q - 1) + 1
                                  /\ params[q] \in {"J", "[J"}
<1> DEFINE ss == Pieces(params)
           n == Len(params)
           count == CountMethodStack(params)
           c(k) == CharactersOf(params, k)
           w == Lengths(ss)
<1>1. count = FlattenSeq(ss)
  BY DEF CountMethodStack, Pieces
<1>2. /\ ss \in Seq(Seq(Characters)) /\ Len(ss) = n
      /\ \A k \in 1..n : ss[k] = Counted(params[k]) /\ w[k] = IF params[k] = "L" THEN 2 ELSE 1
  BY PieceFacts
<1>3. n \in Nat /\ \A q \in 1..n : params[q] \in ParameterType
  OBVIOUS
<1> HIDE DEF ss
<1>4. /\ count \in Seq(Characters)
      /\ Len(count) = c(n)
      /\ \A k \in 1..n : \A i \in 1..Len(ss[k]) : count[c(k - 1) + i] = ss[k][i]
  BY <1>1, <1>2, FlattenFacts DEF CharactersOf, ss
<1>5. \A k \in 1..n : w[k] = Len(ss[k])
  BY <1>2 DEF Lengths
<1>6. \A k \in 1..n : w[k] \in Nat
  <2>1. 1 \in Nat /\ 2 \in Nat
    OBVIOUS
  <2> HIDE DEF w, n
  <2> QED
    BY <1>2, <2>1
<1>7. \A x \in 1..c(n) : \E k \in 1..n : \E i \in 1..w[k] : x = c(k - 1) + i
  <2> HIDE DEF w, n
  <2>1. \A x \in 1..SumTo(w, n) : \E k \in 1..n : \E i \in 1..w[k] : x = SumTo(w, k - 1) + i
    BY <1>3, <1>6, SumToLocates
  <2>2. \A k : SumTo(w, k) = c(k)
    BY DEF CharactersOf, w, ss
  <2> QED
    BY <2>1, <2>2
<1>8. ASSUME NEW q \in 1..n
      PROVE  /\ Len(ss[q]) \in {1, 2} /\ (ss[q][1] = "J" <=> params[q] \in {"J", "[J"})
             /\ Len(ss[q]) = 2 => ss[q][2] # "J"
  <2>1. ss[q] = Counted(params[q]) /\ params[q] \in ParameterType
    BY <1>2, <1>3
  <2>2. \/ Counted(params[q]) = <<"I">> /\ params[q] \in {"I", "[I"}
        \/ Counted(params[q]) = <<"J">> /\ params[q] \in {"J", "[J"}
        \/ Counted(params[q]) = <<"F">> /\ params[q] = "F"
        \/ Counted(params[q]) = <<"L", ";">> /\ params[q] = "L"
    BY <2>1 DEF Counted, ParameterType
  <2>3. /\ Len(<<"I">>) = 1 /\ Len(<<"J">>) = 1 /\ Len(<<"F">>) = 1 /\ Len(<<"L", ";">>) = 2
        /\ <<"I">>[1] # "J" /\ <<"J">>[1] = "J" /\ <<"F">>[1] # "J"
        /\ <<"L", ";">>[1] # "J" /\ <<"L", ";">>[2] # "J"
    OBVIOUS
  <2>4. CASE Counted(params[q]) = <<"I">> /\ params[q] \in {"I", "[I"}
    BY <2>1, <2>3, <2>4
  <2>5. CASE Counted(params[q]) = <<"J">> /\ params[q] \in {"J", "[J"}
    BY <2>1, <2>3, <2>5
  <2>6. CASE Counted(params[q]) = <<"F">> /\ params[q] = "F"
    BY <2>1, <2>3, <2>6
  <2>7. CASE Counted(params[q]) = <<"L", ";">> /\ params[q] = "L"
    BY <2>1, <2>3, <2>7
  <2> QED
    BY <2>2, <2>4, <2>5, <2>6, <2>7
<1>9. ASSUME NEW q \in 1..n
      PROVE  c(q - 1) + 1 \in 1..Len(count) /\ (count[c(q - 1) + 1] = "J" <=> params[q] \in {"J", "[J"})
  <2>1. count[c(q - 1) + 1] = ss[q][1]
    <3>1. 1 \in 1..Len(ss[q])
      BY <1>8
    <3> QED
      BY <1>4, <3>1
  <2>2. c(q - 1) \in Nat /\ c(q) \in Nat /\ c(q) >= c(q - 1) + 1
    <3>1. q \in 0..n /\ q - 1 \in 0..n
      BY <1>3
    <3> QED
      BY <3>1, CharactersFacts
  <2>3. c(n) >= c(q)
    <3>1. q \in 0..n /\ n \in q..n
      BY <1>3
    <3>2. n - q <= c(n) - c(q) /\ c(n) \in Nat
      <4>1. \A k \in q..Len(params) : k - q <= CharactersOf(params, k) - CharactersOf(params, q)
        BY <3>1, CharactersBetween
      <4>2. n \in 0..n
        BY <1>3
      <4> QED
        BY <3>1, <4>1, <4>2, CharactersFacts
    <3> HIDE DEF c, n
    <3> QED
      BY <1>3, <2>2, <3>1, <3>2
  <2>4. c(n) \in Nat
    BY <1>3, CharactersFacts
  <2> HIDE DEF c, count, n
  <2>5. c(q - 1) + 1 \in 1..Len(count)
    BY <1>4, <2>2, <2>3, <2>4
  <2> QED
    BY <1>8, <2>1, <2>5
<1>10. ASSUME NEW x \in 1..Len(count), count[x] = "J"
       PROVE  \E q \in 1..n : x = c(q - 1) + 1 /\ params[q] \in {"J", "[J"}
  <2>1. PICK q \in 1..n : \E i \in 1..w[q] : x = c(q - 1) + i
    BY <1>4, <1>7
  <2>2. PICK i \in 1..Len(ss[q]) : x = c(q - 1) + i
    BY <1>5, <2>1
  <2>3. ss[q][i] = "J"
    BY <1>4, <1>10, <2>2
  <2>4. i = 1
    BY <1>8, <2>3
  <2> QED
    BY <1>8, <2>2, <2>3, <2>4
<1> QED
  BY <1>4, <1>9, <1>10

-----------------------------------------------------------------------------
(* Parameters: the locals pushNewFrame writes them to *)

LEMMA SlotFacts ==
  ASSUME NEW count \in Seq(Characters)
  PROVE  LET N == Len(count) IN
         /\ Slot(count, N) = N
         /\ \A j \in 0..N : Slot(count, j) \in Int
         /\ \A j \in 1..N :
              Slot(count, j) = Slot(count, j - 1) + (IF count[j] = "J" THEN 2 ELSE 1)
<1> DEFINE N == Len(count)
           S == {m \in 1..N : count[m] = "J"}
           above(j) == {m \in (j + 1)..N : count[m] = "J"}
<1>1. N \in Nat
  OBVIOUS
<1>2. ASSUME NEW j \in 0..N
      PROVE  above(j) = {m \in (j + 1)..N : m \in S}
  <2>1. \A m \in (j + 1)..N : m \in 1..N
    OBVIOUS
  <2> QED
    BY <2>1
<1>3. \A j : Slot(count, j) = j - Cardinality(above(j))
  BY DEF Slot
<1> HIDE DEF above
<1>4. Slot(count, N) = N
  <2>1. above(N) = {}
    BY <1>1 DEF above
  <2>2. Cardinality({}) = 0
    BY FS_EmptySet
  <2>3. Slot(count, N) = N - 0
    BY <1>3, <2>1, <2>2
  <2> HIDE DEF N
  <2> QED
    BY <1>1, <2>3
<1>5. ASSUME NEW j \in 0..N, j < N
      PROVE  /\ Cardinality(above(j)) \in Nat /\ Cardinality(above(j + 1)) \in Nat
             /\ Cardinality(above(j)) =
                  Cardinality(above(j + 1)) + (IF count[j + 1] = "J" THEN 1 ELSE 0)
  <2>1. j \in Nat /\ j + 1 \in 0..N /\ (j + 1) + 1 = j + 2 /\ (j + 1 \in S <=> count[j + 1] = "J")
    BY <1>1, <1>5
  <2>2. above(j) = {m \in (j + 1)..N : m \in S} /\ above(j + 1) = {m \in (j + 2)..N : m \in S}
    BY <1>2, <2>1
  <2> HIDE DEF N, S
  <2> QED
    BY <1>1, <1>5, <2>1, <2>2, CountedNext
<1>6. ASSUME NEW j \in 0..N
      PROVE  Slot(count, j) \in Int
  <2>1. CASE j = N
    BY <1>1, <1>4, <2>1
  <2>2. CASE j # N
    <3>1. j < N
      BY <1>1, <2>2
    <3> QED
      BY <1>3, <1>5, <3>1
  <2> QED
    BY <2>1, <2>2
<1>7. ASSUME NEW j \in 1..N
      PROVE  Slot(count, j) = Slot(count, j - 1) + (IF count[j] = "J" THEN 2 ELSE 1)
  <2>1. j - 1 \in 0..N /\ j - 1 < N /\ (j - 1) + 1 = j
    BY <1>1
  <2>2. /\ Cardinality(above(j - 1)) \in Nat /\ Cardinality(above(j)) \in Nat
        /\ Cardinality(above(j - 1)) = Cardinality(above(j)) + (IF count[j] = "J" THEN 1 ELSE 0)
    BY <1>5, <2>1
  <2>3. Slot(count, j) = j - Cardinality(above(j))
    BY <1>3
  <2>4. Slot(count, j - 1) = (j - 1) - Cardinality(above(j - 1))
    BY <1>3
  <2>5. j \in Nat
    OBVIOUS
  <2> HIDE DEF N
  <2> QED
    BY <2>2, <2>3, <2>4, <2>5
<1> QED
  BY <1>4, <1>6, <1>7

LEMMA SlotGrows ==
  ASSUME NEW count \in Seq(Characters), NEW j \in 0..Len(count)
  PROVE  \A k \in j..Len(count) : Slot(count, k) - Slot(count, j) >= k - j
<1> DEFINE N == Len(count)
           s(k) == Slot(count, k)
           S == {d \in Nat : j + d \in j..N => s(j + d) - s(j) >= d}
<1>1. N \in Nat /\ j \in Nat
  OBVIOUS
<1>2. /\ \A k \in 0..N : s(k) \in Int
      /\ \A k \in 1..N : s(k) = s(k - 1) + (IF count[k] = "J" THEN 2 ELSE 1)
  BY SlotFacts
<1> HIDE DEF s, N
<1>3. ASSUME NEW k \in 1..N
      PROVE  s(k) >= s(k - 1) + 1
  <2>1. s(k - 1) \in Int
    BY <1>1, <1>2
  <2>2. s(k) = s(k - 1) + 2 \/ s(k) = s(k - 1) + 1
    BY <1>2
  <2> QED
    BY <2>1, <2>2
<1>4. 0 \in S
  <2>1. j + 0 = j /\ j \in 0..N
    BY <1>1 DEF N
  <2> QED
    BY <1>2, <2>1
<1>5. ASSUME NEW d \in Nat, d \in S
      PROVE  d + 1 \in S
  <2> SUFFICES ASSUME j + (d + 1) \in j..N PROVE s(j + (d + 1)) - s(j) >= d + 1
    OBVIOUS
  <2>1. /\ j + d \in j..N /\ j + (d + 1) \in 1..N /\ (j + (d + 1)) - 1 = j + d
        /\ j + d \in 0..N /\ j \in 0..N /\ j + (d + 1) \in 0..N
    BY <1>1
  <2>2. s(j + d) - s(j) >= d
    BY <1>5, <2>1
  <2>3. s(j + (d + 1)) >= s(j + d) + 1
    BY <1>3, <2>1
  <2> QED
    BY <1>2, <2>1, <2>2, <2>3
<1>6. Nat \subseteq S
  <2> HIDE DEF S
  <2> QED
    BY <1>4, <1>5, NaturalsInSet
<1>7. ASSUME NEW k \in j..N
      PROVE  s(k) - s(j) >= k - j
  <2>1. k - j \in Nat /\ j + (k - j) = k
    BY <1>1
  <2>2. k - j \in S
    BY <1>6, <2>1
  <2> QED
    BY <2>1, <2>2
<1> QED
  BY <1>7 DEF s, N

\* The turn that reaches local 0 is the only one, and so the last.
LEMMA OneLastTurn ==
  ASSUME NEW count \in Seq(Characters), NEW j \in 0..Len(count), Slot(count, j) = 0
  PROVE  /\ LastTurns(count) = {j}
         /\ (CHOOSE i \in LastTurns(count) : \A k \in LastTurns(count) : k <= i) = j
<1>1. ASSUME NEW k \in 0..Len(count), Slot(count, k) = 0
      PROVE  k = j
  <2>1. CASE j < k
    <3>1. k \in j..Len(count)
      BY <2>1
    <3>2. Slot(count, k) - Slot(count, j) >= k - j
      BY <3>1, SlotGrows
    <3> QED
      BY <1>1, <2>1, <3>2
  <2>2. CASE k < j
    <3>1. j \in k..Len(count)
      BY <2>2
    <3>2. Slot(count, j) - Slot(count, k) >= j - k
      BY <3>1, SlotGrows
    <3> QED
      BY <1>1, <2>2, <3>2
  <2> QED
    BY <2>1, <2>2
<1>2. LastTurns(count) = {j}
  BY <1>1 DEF LastTurns
<1>3. j \in LastTurns(count) /\ \A k \in LastTurns(count) : k <= j
  BY <1>2
<1> QED
  BY <1>2, <1>3

-----------------------------------------------------------------------------
(* Parameters: where the specification wants them *)

LEMMA WidthFacts ==
  ASSUME NEW params \in Seq(ParameterType)
  PROVE  /\ WidthOf(params, 0) = 0
         /\ \A k \in 0..Len(params) : WidthOf(params, k) \in Nat
         /\ \A k \in 1..Len(params) :
              WidthOf(params, k) =
                WidthOf(params, k - 1) + (IF params[k] = "J" THEN 2 ELSE 1)
<1> DEFINE w == [k \in DOMAIN params |-> Width(params[k])]
           n == Len(params)
<1>1. n \in Nat /\ DOMAIN params = 1..n
  OBVIOUS
<1>2. \A k \in 1..n : w[k] = IF params[k] = "J" THEN 2 ELSE 1
  BY <1>1 DEF Width
<1>3. \A k \in 1..n : w[k] \in Nat /\ w[k] \in Int
  <2>1. 1 \in Nat /\ 2 \in Nat /\ 1 \in Int /\ 2 \in Int
    OBVIOUS
  <2> HIDE DEF w, n
  <2> QED
    BY <1>2, <2>1
<1>4. \A k \in 0..n : k <= n /\ n \in 0..n
  BY <1>1
<1> HIDE DEF w, n
<1>5. /\ SumTo(w, 0) = 0
      /\ \A k \in 0..n : SumTo(w, k) \in Nat
      /\ \A k \in 1..n : SumTo(w, k) = SumTo(w, k - 1) + w[k]
  BY <1>1, <1>3, <1>4, SumToFacts, SumToGrows
<1>6. \A k : WidthOf(params, k) = SumTo(w, k)
  BY DEF WidthOf, w
<1> QED
  BY <1>2, <1>5, <1>6 DEF n

LEMMA WidthGrows ==
  ASSUME NEW params \in Seq(ParameterType)
  PROVE  \A j, k \in 0..Len(params) : j <= k => WidthOf(params, j) <= WidthOf(params, k)
<1> DEFINE w == [k \in DOMAIN params |-> Width(params[k])]
           n == Len(params)
<1>1. n \in Nat /\ DOMAIN params = 1..n
  OBVIOUS
<1>2. \A k \in 1..n : w[k] \in Nat
  BY <1>1 DEF Width
<1> HIDE DEF w, n
<1>3. \A j, k \in 0..n : j <= k => SumTo(w, j) <= SumTo(w, k)
  BY <1>1, <1>2, SumToGrows
<1> QED
  BY <1>3 DEF WidthOf, w, n

\* Without a long, every parameter has one local.
LEMMA WidthWithoutLongs ==
  ASSUME NEW params \in Seq(ParameterType), NEW m \in 0..Len(params),
         \A k \in 1..m : params[k] # "J"
  PROVE  \A k \in 0..m : WidthOf(params, k) = k
<1> DEFINE S == {k \in Nat : k \in 0..m => WidthOf(params, k) = k}
<1>1. m \in Nat /\ m <= Len(params) /\ Len(params) \in Nat
  OBVIOUS
<1>2. 0 \in S
  BY WidthFacts
<1>3. ASSUME NEW k \in Nat, k \in S
      PROVE  k + 1 \in S
  <2> SUFFICES ASSUME k + 1 \in 0..m PROVE WidthOf(params, k + 1) = k + 1
    OBVIOUS
  <2>1. k \in 0..m /\ k + 1 \in 1..m /\ k + 1 \in 1..Len(params) /\ (k + 1) - 1 = k
    BY <1>1
  <2>2. WidthOf(params, k + 1) = WidthOf(params, k) + 1
    BY <2>1, WidthFacts
  <2> QED
    BY <1>3, <2>1, <2>2
<1> QED
  <2> HIDE DEF S
  <2>1. Nat \subseteq S
    BY <1>2, <1>3, NaturalsInSet
  <2> QED
    BY <2>1 DEF S

-----------------------------------------------------------------------------
(* Parameters: a shift that fits *)

\* If the locals of the loop are those of the specification, the widths above each of
\* them are the same, although one reads the parameter above and the other the one
\* below.
SameSteps(params, shift) ==
  LET count == CountMethodStack(params) IN
  \A k \in 1..Len(params) :
    count[shift + k] = "J" <=> k > 1 /\ params[k - 1] = "J"

Odd(params) == {"L", "J", "[J"} \cap ToSet(params)

\* Then no class and no wide type is among the parameters, or all of them are.
LEMMA ShiftFits ==
  ASSUME NEW params \in Seq(ParameterType), NEW shift \in Nat,
         Len(CountMethodStack(params)) = Len(params) + shift,
         Len(params) > 0 =>
           1 + WidthOf(params, Len(params) - 1) = Len(params) + shift,
         SameSteps(params, shift)
  PROVE  Odd(params) \in {{}, {"L", "J", "[J"}}
<1> DEFINE n == Len(params)
           count == CountMethodStack(params)
           c(k) == CharactersOf(params, k)
           Wide(k) == params[k] \in {"J", "[J"}
<1>1. n \in Nat /\ DOMAIN params = 1..n /\ \A k \in 1..n : params[k] \in ParameterType
  OBVIOUS
<1>2. /\ Len(count) = c(n) /\ c(n) = n + shift
      /\ \A q \in 1..n : count[c(q - 1) + 1] = "J" <=> Wide(q)
      /\ \A x \in 1..Len(count) : count[x] = "J" =>
           \E q \in 1..n : x = c(q - 1) + 1 /\ Wide(q)
  BY CountFacts
<1>3. \A k \in 1..n : count[shift + k] = "J" <=> k > 1 /\ params[k - 1] = "J"
  BY DEF SameSteps
<1>4. \A k \in 0..n : c(k) \in Nat
  BY CharactersFacts
<1>5. \A x : x \in ToSet(params) <=> \E k \in 1..n : params[k] = x
  BY <1>1 DEF ToSet
<1>6. ASSUME \A k \in 1..n : params[k] # "L"
      PROVE  Odd(params) = {}
  <2>1. \A k \in 0..n : c(k) = k
    <3>1. 0 \in 0..Len(params)
      BY <1>1
    <3>2. \A k \in 0..n : (\A q \in (0 + 1)..k : params[q] # "L") => c(k) - c(0) = k - 0
      BY <3>1, CharactersBetween
    <3>3. \A k \in 0..n : (\A q \in (0 + 1)..k : params[q] # "L")
      BY <1>1, <1>6
    <3>4. c(0) = 0
      BY CharactersFacts
    <3> HIDE DEF c, n
    <3> QED
      BY <1>4, <3>2, <3>3, <3>4
  <2>2. shift = 0
    <3>1. n \in 0..n
      BY <1>1
    <3> HIDE DEF c, n, count
    <3> QED
      BY <1>1, <1>2, <2>1, <3>1
  <2>3. \A k \in 1..n : count[k] = "J" <=> Wide(k)
    <3>1. \A k \in 1..n : k - 1 \in 0..n /\ (k - 1) + 1 = k
      BY <1>1
    <3> HIDE DEF c, n, count, Wide
    <3> QED
      BY <1>2, <2>1, <3>1
  <2>4. \A k \in 1..n : count[k] = "J" <=> k > 1 /\ params[k - 1] = "J"
    BY <1>3, <2>2
  <2> DEFINE S == {k \in Nat : k \in 1..n => ~Wide(k)}
  <2>5. 0 \in S
    OBVIOUS
  <2>6. ASSUME NEW k \in Nat, k \in S
        PROVE  k + 1 \in S
    <3> SUFFICES ASSUME k + 1 \in 1..n PROVE ~Wide(k + 1)
      OBVIOUS
    <3>1. (k + 1) - 1 = k
      OBVIOUS
    <3>2. Wide(k + 1) <=> k + 1 > 1 /\ params[k] = "J"
      BY <2>3, <2>4, <3>1
    <3>3. k + 1 > 1 => k \in 1..n
      BY <1>1
    <3>4. params[k] = "J" => Wide(k)
      OBVIOUS
    <3> QED
      BY <2>6, <3>2, <3>3, <3>4
  <2>7. \A k \in 1..n : ~Wide(k)
    <3> HIDE DEF S
    <3>1. Nat \subseteq S
      BY <2>5, <2>6, NaturalsInSet
    <3> QED
      BY <3>1 DEF S
  <2> QED
    BY <1>5, <1>6, <2>7 DEF Odd
<1>7. ASSUME NEW l \in 1..n, params[l] = "L", \A k \in 1..n : params[k] # "[J"
      PROVE  FALSE
  <2>1. shift > 0
    <3>1. 0 \in 0..Len(params) /\ n \in 0..n /\ l \in (0 + 1)..n
      BY <1>1
    <3>2. (\E q \in (0 + 1)..n : params[q] = "L") => c(n) - c(0) > n - 0
      BY <3>1, CharactersBetween
    <3>3. c(0) = 0
      BY CharactersFacts
    <3> HIDE DEF c, n, count
    <3> QED
      BY <1>1, <1>2, <1>7, <3>1, <3>2, <3>3
  <2>2. \E k \in 1..(n - 1) : params[k] = "J"
    <3>1. SUFFICES ASSUME \A k \in 1..(n - 1) : params[k] # "J" PROVE FALSE
      OBVIOUS
    <3>2. n > 0 /\ n - 1 \in 0..Len(params) /\ n - 1 \in 0..(n - 1)
      BY <1>1
    <3>3. \A k \in 0..(n - 1) : WidthOf(params, k) = k
      BY <3>1, <3>2, WidthWithoutLongs
    <3>4. WidthOf(params, n - 1) = n - 1
      BY <3>2, <3>3
    <3>5. 1 + WidthOf(params, n - 1) = n + shift
      BY <3>2
    <3> QED
      BY <1>1, <2>1, <3>4, <3>5
  <2> DEFINE P == {k \in 1..(n - 1) : params[k] = "J"}
  <2>3. PICK p \in P : \A k \in P : k <= p
    <3>1. P # {} /\ P \subseteq 0..n
      BY <1>1, <2>2
    <3> HIDE DEF P, n
    <3> QED
      BY <1>1, <3>1, GreatestNatural
  <2>4. PICK q \in 1..n : shift + (p + 1) = c(q - 1) + 1 /\ Wide(q)
    <3>1. /\ p + 1 \in 1..n /\ p + 1 > 1 /\ (p + 1) - 1 = p /\ params[p] = "J"
          /\ shift + (p + 1) \in 1..(n + shift)
      BY <1>1
    <3>2. count[shift + (p + 1)] = "J"
      BY <1>3, <3>1
    <3> QED
      BY <1>2, <3>1, <3>2
  <2>5. params[q] = "J"
    BY <1>7, <2>4
  <2>6. p <= q - 1
    <3>1. q - 1 \in 0..Len(params) /\ n \in (q - 1)..n /\ 0 \in 0..Len(params)
      BY <1>1
    <3>2. n - (q - 1) <= c(n) - c(q - 1)
      BY <3>1, CharactersBetween
    <3>3. c(q - 1) \in Nat
      BY <1>4, <3>1
    <3>4. p \in Nat
      OBVIOUS
    <3> HIDE DEF c, n, count
    <3> QED
      BY <1>1, <1>2, <2>4, <3>2, <3>3, <3>4
  <2>7. q = n
    <3>1. q \in 1..(n - 1) => q \in P
      BY <2>5
    <3>2. p \in Nat
      OBVIOUS
    <3>3. q \in P => q <= p
      BY <2>3
    <3> HIDE DEF P, n
    <3>4. ~(q \in 1..(n - 1))
      BY <1>1, <2>6, <3>1, <3>2, <3>3
    <3> QED
      BY <1>1, <3>4
  <2> DEFINE M == {k \in 1..n : params[k] = "L"}
  <2>8. PICK m \in M : \A k \in M : k <= m
    <3>1. M # {} /\ M \subseteq 0..n
      BY <1>1, <1>7
    <3> HIDE DEF M, n
    <3> QED
      BY <1>1, <3>1, GreatestNatural
  <2>9. m \in 1..n /\ params[m] = "L" /\ m < n
    BY <1>1, <2>5, <2>7
  <2>10. \A k \in m..n : c(k) = k + shift
    <3>1. \A k \in (m + 1)..n : params[k] # "L"
      BY <1>1, <2>8, <2>9
    <3>2. ASSUME NEW k \in m..n
          PROVE  c(n) - c(k) = n - k
      <4>1. k \in 0..Len(params) /\ n \in k..n
        BY <1>1, <2>9
      <4>2. \A r \in (k + 1)..n : params[r] # "L"
        BY <1>1, <2>9, <3>1
      <4> QED
        BY <4>1, <4>2, CharactersBetween
    <3>3. \A k \in m..n : k \in 0..n /\ k \in Nat
      BY <1>1, <2>9
    <3> HIDE DEF c, n, count, M
    <3> SUFFICES ASSUME NEW k \in m..n PROVE c(k) = k + shift
      OBVIOUS
    <3>4. c(n) - c(k) = n - k /\ k \in Nat /\ c(k) \in Nat
      BY <1>4, <3>2, <3>3
    <3>5. c(n) = n + shift
      BY <1>2
    <3> QED
      BY <1>1, <3>4, <3>5
  <2> DEFINE S == {d \in Nat : m + d \in m..n => params[m + d] # "J"}
  <2>11. 0 \in S
    BY <1>1, <2>9
  <2>12. ASSUME NEW d \in Nat, d \in S
         PROVE  d + 1 \in S
    <3> SUFFICES ASSUME m + (d + 1) \in m..n PROVE params[m + (d + 1)] # "J"
      OBVIOUS
    <3> DEFINE k == m + (d + 1)
    <3>1. /\ m + d \in m..n /\ k - 1 = m + d /\ k \in 1..n /\ k > 1
      BY <1>1, <2>9
    <3>2. c(k - 1) + 1 = shift + k
      BY <1>1, <2>9, <2>10, <3>1
    <3>3. count[shift + k] = "J" <=> Wide(k)
      BY <1>2, <3>1, <3>2
    <3>4. count[shift + k] = "J" <=> params[k - 1] = "J"
      BY <1>3, <3>1
    <3>5. params[k - 1] # "J"
      BY <2>12, <3>1
    <3> QED
      BY <3>3, <3>4, <3>5
  <2>13. n - m \in Nat /\ m + (n - m) = n /\ n \in m..n
    BY <1>1, <2>9
  <2>14. n - m \in S
    <3> HIDE DEF S, n
    <3> QED
      BY <2>11, <2>12, <2>13, NaturalsInSet
  <2> QED
    BY <2>5, <2>7, <2>13, <2>14
<1>8. CASE \A k \in 1..n : params[k] # "L"
  BY <1>6, <1>8
<1>9. CASE \E k \in 1..n : params[k] = "L"
  <2>1. "L" \in ToSet(params) /\ "[J" \in ToSet(params)
    BY <1>5, <1>7, <1>9
  <2>2. "J" \in ToSet(params)
    <3>1. SUFFICES ASSUME \A k \in 1..n : params[k] # "J" PROVE FALSE
      BY <1>5
    <3>2. n > 0 /\ n - 1 \in 0..Len(params) /\ n - 1 \in 0..(n - 1) /\ \A k \in 1..(n - 1) : k \in 1..n
      BY <1>1, <1>9
    <3>3. WidthOf(params, n - 1) = n - 1
      BY <3>1, <3>2, WidthWithoutLongs
    <3>4. 1 + WidthOf(params, n - 1) = n + shift
      BY <3>2
    <3>5. PICK l \in 1..n : params[l] = "L"
      BY <1>9
    <3>6. 0 \in 0..Len(params) /\ n \in 0..n /\ l \in (0 + 1)..n
      BY <1>1
    <3>7. (\E q \in (0 + 1)..n : params[q] = "L") => c(n) - c(0) > n - 0
      BY <3>6, CharactersBetween
    <3>8. c(0) = 0
      BY CharactersFacts
    <3> HIDE DEF c, n, count
    <3> QED
      BY <1>1, <1>2, <3>3, <3>4, <3>5, <3>6, <3>7, <3>8
  <2> QED
    BY <2>1, <2>2 DEF Odd
<1> QED
  BY <1>8, <1>9

-----------------------------------------------------------------------------
(* Calls: the locals and the operands that are left *)

OperandKind == {"int", "float", "long", "ref"}
Operand == [kind : OperandKind, v : Int]
LocalValue == [kind : OperandKind \cup {"unset"}, v : Int]

Arguments(sig, operands) ==
  SubSeq(operands, Len(operands) - Len(sig.params), Len(operands))
Remaining(sig, operands) == SubSeq(operands, 1, Len(operands) - Len(sig.params) - 1)

LEMMA SignatureFacts ==
  ASSUME NEW sig \in Signature
  PROVE  /\ sig.params \in Seq(ParameterType) /\ sig.extra \in Nat
         /\ sig.static \in BOOLEAN /\ sig.native \in BOOLEAN
         /\ sig.result \in {"void", "int", "float", "ref"}
         /\ MaxLocals(sig) \in Nat
         /\ ~sig.static /\ ~sig.native =>
              MaxLocals(sig) = 1 + sig.extra + WidthOf(sig.params, Len(sig.params))
<1>1. /\ sig.params \in Seq(ParameterType) /\ sig.extra \in Nat
      /\ sig.static \in BOOLEAN /\ sig.native \in BOOLEAN
      /\ sig.result \in {"void", "int", "float", "ref"}
  BY DEF Signature
<1>2. WidthOf(sig.params, Len(sig.params)) \in Nat
  <2>1. Len(sig.params) \in 0..Len(sig.params)
    BY <1>1
  <2> QED
    BY <1>1, <2>1, WidthFacts
<1>3. /\ sig.native => MaxLocals(sig) = 1
      /\ ~sig.native => MaxLocals(sig) = (IF sig.static THEN 0 ELSE 1) + sig.extra
                                           + WidthOf(sig.params, Len(sig.params))
  BY DEF MaxLocals
<1> QED
  BY <1>1, <1>2, <1>3

LEMMA ArgumentFacts ==
  ASSUME NEW sig \in Signature, NEW operands \in Seq(Operand),
         Len(operands) > Len(sig.params)
  PROVE  /\ Arguments(sig, operands) \in Seq(Operand)
         /\ Len(Arguments(sig, operands)) = Len(sig.params) + 1
         /\ DOMAIN Arguments(sig, operands) = 1..(Len(sig.params) + 1)
         /\ \A k \in 1..(Len(sig.params) + 1) :
              Arguments(sig, operands)[k] = operands[Len(operands) - Len(sig.params) - 1 + k]
<1> DEFINE n == Len(sig.params)
           L == Len(operands)
<1>1. n \in Nat /\ L \in Nat
  BY SignatureFacts
<1>2. /\ SubSeq(operands, L - n, L) \in Seq(Operand)
      /\ Len(SubSeq(operands, L - n, L)) = n + 1
      /\ \A k \in 1..(n + 1) : SubSeq(operands, L - n, L)[k] = operands[(L - n) + k - 1]
  <2>1. L - n \in 1..L
    BY <1>1
  <2> HIDE DEF n
  <2> QED
    BY <1>1, <2>1
<1>3. \A k \in 1..(n + 1) : (L - n) + k - 1 = L - n - 1 + k
  <2> HIDE DEF n, L
  <2> QED
    BY <1>1
<1>4. Arguments(sig, operands) = SubSeq(operands, L - n, L)
  BY DEF Arguments
<1>5. \A s \in Seq(Operand) : DOMAIN s = 1..Len(s)
  OBVIOUS
<1> DEFINE s == SubSeq(operands, L - n, L)
<1>6. DOMAIN s = 1..(n + 1)
  BY <1>2, <1>5
<1>7. \A k \in 1..(n + 1) : s[k] = operands[L - n - 1 + k]
  BY <1>2, <1>3
<1> QED
  BY <1>2, <1>4, <1>6, <1>7

\* What both sides make of a local.
LEMMA JvmLocalFacts ==
  ASSUME NEW sig \in Signature, ~sig.static, NEW arguments
  PROVE  /\ JvmLocals(sig, arguments) =
              [i \in DOMAIN EmptyLocals(sig) |->
                 IF \E k \in DOMAIN arguments : ArgumentLocal(sig, k) = i
                 THEN arguments[CHOOSE k \in DOMAIN arguments : ArgumentLocal(sig, k) = i]
                 ELSE Unset]
         /\ ArgumentLocal(sig, 1) = 0
         /\ \A k \in 1..Len(sig.params) :
              ArgumentLocal(sig, k + 1) = 1 + WidthOf(sig.params, k - 1)
<1>1. \A k \in 1..Len(sig.params) : k + 1 # 1 /\ (k + 1) - 2 = k - 1
  OBVIOUS
<1>2. \A k : ArgumentLocal(sig, k) = IF k = 1 THEN 0 ELSE 1 + WidthOf(sig.params, k - 2)
  BY DEF ArgumentLocal
<1> QED
  BY <1>1, <1>2 DEF JvmLocals

LEMMA PlainParameters ==
  ASSUME NEW sig \in Signature, Misplaced(sig) = {}
  PROVE  \A k \in 1..Len(sig.params) : sig.params[k] \notin {"L", "J", "[J"}
<1>1. sig.params \in Seq(ParameterType) /\ DOMAIN sig.params = 1..Len(sig.params)
  BY SignatureFacts
<1> QED
  BY <1>1 DEF Misplaced, ToSet

\* Ints, floats and arrays of ints arrive where the specification puts them.
LEMMA PlainCallsAgree ==
  ASSUME NEW sig \in Signature, ~sig.static, sig.native => sig.params = <<>>,
         Misplaced(sig) = {}, NEW operands \in Seq(Operand),
         Len(operands) > Len(sig.params)
  PROVE  CopyParameters(sig, operands) =
           [outcome |-> "running", locals |-> JvmLocals(sig, Arguments(sig, operands)),
            rest |-> Remaining(sig, operands)]
<1> DEFINE params == sig.params
           n == Len(params)
           count == CountMethodStack(params)
           L == Len(operands)
           arguments == Arguments(sig, operands)
           D == DOMAIN EmptyLocals(sig)
<1>1. n \in Nat /\ L \in Nat /\ params \in Seq(ParameterType) /\ L > n
  BY SignatureFacts
<1>2. \A k \in 1..n : params[k] \notin {"L", "J", "[J"}
  BY PlainParameters
<1>3. count \in Seq(Characters) /\ Len(count) = n /\ \A x \in 1..n : count[x] # "J"
  <2>1. 0 \in 0..Len(params) /\ n \in 0..n
    BY <1>1
  <2>2. \A k \in 0..n : (\A q \in (0 + 1)..k : params[q] # "L") =>
            CharactersOf(params, k) - CharactersOf(params, 0) = k - 0
    BY <1>1, <2>1, CharactersBetween
  <2>3. \A q \in (0 + 1)..n : params[q] # "L"
    BY <1>2
  <2>4. CharactersOf(params, 0) = 0 /\ CharactersOf(params, n) \in Nat
    BY <1>1, <2>1, CharactersFacts
  <2>5. CharactersOf(params, n) = n
    BY <1>1, <2>1, <2>2, <2>3, <2>4
  <2>6. /\ count \in Seq(Characters) /\ Len(count) = CharactersOf(params, n)
        /\ \A x \in 1..Len(count) : count[x] = "J" =>
             \E q \in 1..n : /\ x = CharactersOf(params, q - 1) + 1
                             /\ params[q] \in {"J", "[J"}
    BY <1>1, CountFacts
  <2> HIDE DEF params, n, count
  <2> QED
    BY <1>2, <2>5, <2>6
<1>4. \A j \in 0..n : Slot(count, j) = j
  <2>1. /\ Slot(count, n) = n
        /\ \A j \in 0..n : Slot(count, j) \in Int
        /\ \A j \in 1..n : Slot(count, j) = Slot(count, j - 1) + (IF count[j] = "J" THEN 2 ELSE 1)
    BY <1>3, SlotFacts
  <2>2. \A j \in 1..n : Slot(count, j) = Slot(count, j - 1) + 1
    BY <1>3, <2>1
  <2> DEFINE S == {d \in Nat : d \in 0..n => Slot(count, n - d) = n - d}
  <2>3. 0 \in S
    BY <1>1, <2>1
  <2>4. ASSUME NEW d \in Nat, d \in S
        PROVE  d + 1 \in S
    <3> SUFFICES ASSUME d + 1 \in 0..n PROVE Slot(count, n - (d + 1)) = n - (d + 1)
      OBVIOUS
    <3>1. d \in 0..n /\ n - d \in 1..n /\ (n - d) - 1 = n - (d + 1) /\ n - (d + 1) \in 0..n
      BY <1>1
    <3>2. Slot(count, n - d) = n - d
      BY <2>4, <3>1
    <3>3. Slot(count, n - d) = Slot(count, n - (d + 1)) + 1 /\ Slot(count, n - (d + 1)) \in Int
      BY <2>1, <2>2, <3>1
    <3> HIDE DEF n, count
    <3> QED
      BY <1>1, <3>2, <3>3
  <2>5. Nat \subseteq S
    <3> HIDE DEF S
    <3> QED
      BY <2>3, <2>4, NaturalsInSet
  <2>6. ASSUME NEW j \in 0..n
        PROVE  Slot(count, j) = j
    <3>1. n - j \in Nat /\ n - j \in 0..n /\ n - (n - j) = j
      BY <1>1
    <3>2. n - j \in S
      BY <2>5, <3>1
    <3>3. Slot(count, n - (n - j)) = n - (n - j)
      BY <3>1, <3>2
    <3> QED
      BY <3>1, <3>3
  <2> QED
    BY <2>6
<1>5. (CHOOSE j \in LastTurns(count) : \A k \in LastTurns(count) : k <= j) = 0
      /\ LastTurns(count) # {}
  <2>1. 0 \in 0..Len(count) /\ Slot(count, 0) = 0
    BY <1>1, <1>3, <1>4
  <2> HIDE DEF count
  <2> QED
    BY <1>3, <2>1, OneLastTurn
<1>6. \A j \in 0..n : j < MaxLocals(sig) /\ j \in D
  <2>1. D = 0..(MaxLocals(sig) - 1) /\ MaxLocals(sig) \in Nat
    BY SignatureFacts DEF EmptyLocals
  <2>2. CASE sig.native
    <3>1. n = 0 /\ MaxLocals(sig) = 1
      BY <2>2 DEF MaxLocals
    <3> HIDE DEF n
    <3> QED
      BY <2>1, <3>1
  <2>3. CASE ~sig.native
    <3>1. WidthOf(params, n) = n
      <4>1. n \in 0..Len(params) /\ n \in 0..n /\ \A k \in 1..n : params[k] # "J"
        BY <1>1, <1>2
      <4> QED
        BY <1>1, <4>1, WidthWithoutLongs
    <3>2. MaxLocals(sig) = 1 + sig.extra + n /\ sig.extra \in Nat
      BY <2>3, <3>1, SignatureFacts
    <3> HIDE DEF n
    <3> QED
      BY <1>1, <2>1, <3>2
  <2> QED
    BY <2>2, <2>3
<1>7. \A k \in 1..(n + 1) : ArgumentLocal(sig, k) = k - 1
  <2>1. \A k \in 0..n : WidthOf(params, k) = k
    <3>1. n \in 0..Len(params) /\ \A k \in 1..n : params[k] # "J"
      BY <1>1, <1>2
    <3> QED
      BY <1>1, <3>1, WidthWithoutLongs
  <2>2. ASSUME NEW k \in 1..(n + 1)
        PROVE  ArgumentLocal(sig, k) = k - 1
    <3>1. CASE k = 1
      BY <3>1, JvmLocalFacts
    <3>2. CASE k # 1
      <4>1. k - 1 \in 1..n /\ (k - 1) + 1 = k /\ (k - 1) - 1 \in 0..n
        BY <1>1, <3>2
      <4>2. ArgumentLocal(sig, k) = 1 + WidthOf(params, (k - 1) - 1)
        BY <4>1, JvmLocalFacts
      <4> QED
        BY <2>1, <4>1, <4>2
    <3> QED
      BY <3>1, <3>2
  <2> QED
    BY <2>2
<1>8. /\ DOMAIN arguments = 1..(n + 1)
      /\ \A k \in 1..(n + 1) : arguments[k] = operands[L - n - 1 + k]
  BY ArgumentFacts
<1> DEFINE mine == [i \in D |-> IF \E j \in 0..n : Slot(count, j) = i
                                THEN LET j == CHOOSE j \in 0..n : Slot(count, j) = i
                                     IN  operands[L - (n - j)]
                                ELSE Unset]
<1>9. CopyParameters(sig, operands) =
        [outcome |-> "running", locals |-> mine, rest |-> SubSeq(operands, 1, L - (n + 1))]
  <2> DEFINE last == CHOOSE j \in LastTurns(count) : \A k \in LastTurns(count) : k <= j
  <2>1. last = 0 /\ LastTurns(count) # {} /\ Len(count) = n /\ n - 0 + 1 = n + 1
    BY <1>1, <1>3, <1>5
  <2>2. ~(\E j \in 0..n : Slot(count, j) >= MaxLocals(sig))
    <3>1. \A j \in 0..n : ~(j >= MaxLocals(sig))
      <4>1. MaxLocals(sig) \in Nat
        BY SignatureFacts
      <4> HIDE DEF n
      <4> QED
        BY <1>6, <4>1
    <3> HIDE DEF n, count
    <3> QED
      BY <1>4, <3>1
  <2>3. ~(n + 1 > L)
    BY <1>1
  <2>4. CopyParameters(sig, operands) =
          IF \/ LastTurns(count) = {}
             \/ \E j \in last..Len(count) : Slot(count, j) >= MaxLocals(sig)
             \/ Len(count) - last + 1 > L
          THEN [outcome |-> "undefined", locals |-> EmptyLocals(sig), rest |-> <<>>]
          ELSE [outcome |-> "running",
                locals |-> [i \in D |->
                  IF \E j \in last..Len(count) : Slot(count, j) = i
                  THEN LET j == CHOOSE j \in last..Len(count) : Slot(count, j) = i
                       IN  operands[L - (Len(count) - j)]
                  ELSE Unset],
                rest |-> SubSeq(operands, 1, L - (Len(count) - last + 1))]
    BY DEF CopyParameters
  <2> HIDE DEF last, n, count, L, D
  <2> QED
    BY <2>1, <2>2, <2>3, <2>4
<1>10. mine = JvmLocals(sig, arguments)
  <2>1. JvmLocals(sig, arguments) =
          [i \in D |-> IF \E k \in 1..(n + 1) : ArgumentLocal(sig, k) = i
                       THEN arguments[CHOOSE k \in 1..(n + 1) : ArgumentLocal(sig, k) = i]
                       ELSE Unset]
    <3>1. JvmLocals(sig, arguments) =
            [i \in D |-> IF \E k \in DOMAIN arguments : ArgumentLocal(sig, k) = i
                         THEN arguments[CHOOSE k \in DOMAIN arguments : ArgumentLocal(sig, k) = i]
                         ELSE Unset]
      BY JvmLocalFacts
    <3> HIDE DEF D, arguments, n
    <3> QED
      BY <1>8, <3>1
  <2>2. ASSUME NEW i \in D
        PROVE  mine[i] = JvmLocals(sig, arguments)[i]
    <3>1. CASE i \in 0..n
      <4>1. (CHOOSE j \in 0..n : Slot(count, j) = i) = i /\ Slot(count, i) = i
        BY <1>4, <3>1
      <4>2. i + 1 \in 1..(n + 1) /\ ArgumentLocal(sig, i + 1) = i
        BY <1>1, <1>7, <3>1
      <4>3. \A k \in 1..(n + 1) : ArgumentLocal(sig, k) = i => k = i + 1
        BY <1>1, <1>7, <3>1
      <4>4. (CHOOSE k \in 1..(n + 1) : ArgumentLocal(sig, k) = i) = i + 1
        BY <4>2, <4>3
      <4>5. mine[i] = operands[L - (n - i)]
        BY <3>1, <4>1
      <4>6. JvmLocals(sig, arguments)[i] = arguments[i + 1]
        BY <2>1, <4>2, <4>4
      <4>7. L - (n - i) = L - n - 1 + (i + 1)
        <5>1. i \in Nat
          BY <1>1, <3>1
        <5> HIDE DEF L, n
        <5> QED
          BY <1>1, <5>1
      <4> QED
        BY <1>8, <4>2, <4>5, <4>6, <4>7
    <3>2. CASE i \notin 0..n
      <4>1. ~(\E j \in 0..n : Slot(count, j) = i)
        BY <1>4, <3>2
      <4>2. ~(\E k \in 1..(n + 1) : ArgumentLocal(sig, k) = i)
        <5>1. \A k \in 1..(n + 1) : k - 1 \in 0..n
          BY <1>1
        <5> QED
          BY <1>7, <3>2, <5>1
      <4> QED
        BY <2>1, <4>1, <4>2
    <3> QED
      BY <3>1, <3>2
  <2> HIDE DEF D
  <2> QED
    BY <2>1, <2>2
<1>11. L - (n + 1) = L - n - 1
  BY <1>1
<1> QED
  BY <1>9, <1>10, <1>11 DEF Remaining

\* One of the three kinds without the others leaves the arguments out of place.
LEMMA MisplacedCallsDiffer ==
  ASSUME NEW sig \in Signature, ~sig.static, ~sig.native,
         Misplaced(sig) \notin {{}, {"L", "J", "[J"}}, NEW operands \in Seq(Operand),
         Len(operands) > Len(sig.params)
  PROVE  ~ /\ CopyParameters(sig, operands).outcome = "running"
           /\ CopyParameters(sig, operands).locals = JvmLocals(sig, Arguments(sig, operands))
           /\ CopyParameters(sig, operands).rest = Remaining(sig, operands)
<1> DEFINE params == sig.params
           n == Len(params)
           count == CountMethodStack(params)
           N == Len(count)
           L == Len(operands)
           arguments == Arguments(sig, operands)
           D == DOMAIN EmptyLocals(sig)
           copied == CopyParameters(sig, operands)
           last == CHOOSE j \in LastTurns(count) : \A k \in LastTurns(count) : k <= j
           mine == [i \in D |->
                      IF \E j \in last..N : Slot(count, j) = i
                      THEN LET j == CHOOSE j \in last..N : Slot(count, j) = i
                           IN  operands[L - (N - j)]
                      ELSE Unset]
           theirs == [i \in D |->
                        IF \E k \in 1..(n + 1) : ArgumentLocal(sig, k) = i
                        THEN arguments[CHOOSE k \in 1..(n + 1) : ArgumentLocal(sig, k) = i]
                        ELSE Unset]
           taken == N - last + 1
<1> SUFFICES ASSUME copied.outcome = "running", copied.locals = JvmLocals(sig, arguments),
                    copied.rest = Remaining(sig, operands)
             PROVE  FALSE
  OBVIOUS
<1>1. /\ n \in Nat /\ L \in Nat /\ params \in Seq(ParameterType) /\ L > n
      /\ count \in Seq(Characters) /\ N \in Nat
  BY SignatureFacts, CountFacts
<1>2. /\ LastTurns(count) # {}
      /\ \A j \in last..N : ~(Slot(count, j) >= MaxLocals(sig))
      /\ ~(taken > L)
      /\ copied.locals = mine /\ copied.rest = SubSeq(operands, 1, L - taken)
  <2>1. copied =
          IF \/ LastTurns(count) = {}
             \/ \E j \in last..N : Slot(count, j) >= MaxLocals(sig)
             \/ taken > L
          THEN [outcome |-> "undefined", locals |-> EmptyLocals(sig), rest |-> <<>>]
          ELSE [outcome |-> "running", locals |-> mine, rest |-> SubSeq(operands, 1, L - taken)]
    BY DEF CopyParameters
  <2> HIDE DEF last, n, count, L, D, mine, N, taken, copied
  <2> QED
    BY <2>1
<1>3. last \in 0..N /\ Slot(count, last) = 0
  <2>1. PICK j \in LastTurns(count) : TRUE
    BY <1>2
  <2>2. j \in 0..N /\ Slot(count, j) = 0
    BY DEF LastTurns
  <2>3. last = j
    <3> HIDE DEF count
    <3> QED
      BY <1>1, <2>2, OneLastTurn
  <2> QED
    BY <2>2, <2>3
<1>4. N = n + last
  <2>1. taken \in 1..L /\ L - taken \in 0..L /\ L - n - 1 \in 0..L
    BY <1>1, <1>2, <1>3
  <2>2. \A x \in 0..L : Len(SubSeq(operands, 1, x)) = x
    OBVIOUS
  <2>3. SubSeq(operands, 1, L - taken) = SubSeq(operands, 1, L - n - 1)
    BY <1>2 DEF Remaining
  <2>4. L - taken = L - n - 1
    BY <2>1, <2>2, <2>3
  <2> HIDE DEF N, last, n, L
  <2> QED
    BY <1>1, <1>3, <2>4
<1>5. /\ DOMAIN arguments = 1..(n + 1)
      /\ \A k \in 1..(n + 1) : arguments[k] = operands[L - n - 1 + k]
  BY ArgumentFacts
<1>6. JvmLocals(sig, arguments) = theirs
  <2>1. JvmLocals(sig, arguments) =
          [i \in D |-> IF \E k \in DOMAIN arguments : ArgumentLocal(sig, k) = i
                       THEN arguments[CHOOSE k \in DOMAIN arguments : ArgumentLocal(sig, k) = i]
                       ELSE Unset]
    BY DEF JvmLocals
  <2> HIDE DEF D, arguments, n
  <2> QED
    BY <1>5, <2>1
<1>7. \A x \in 1..L : operands[x] # Unset
  <2>1. \A o \in Operand : o # Unset
    BY DEF Operand, OperandKind, Unset, Value
  <2> QED
    BY <2>1
<1>8. \A i \in D : (\E j \in last..N : Slot(count, j) = i)
                     <=> (\E k \in 1..(n + 1) : ArgumentLocal(sig, k) = i)
  <2>1. \A j \in last..N : L - (N - j) \in 1..L
    <3> HIDE DEF N, last, n, L
    <3> QED
      BY <1>1, <1>3, <1>4
  <2>2. \A k \in 1..(n + 1) : L - n - 1 + k \in 1..L
    <3> HIDE DEF N, last, n, L
    <3> QED
      BY <1>1
  <2>3. SUFFICES ASSUME NEW i \in D
                 PROVE  (\E j \in last..N : Slot(count, j) = i)
                          <=> (\E k \in 1..(n + 1) : ArgumentLocal(sig, k) = i)
    OBVIOUS
  <2>4. mine[i] = theirs[i]
    BY <1>2, <1>6
  <2>5. (\E j \in last..N : Slot(count, j) = i) <=> mine[i] # Unset
    <3>1. ASSUME NEW j \in last..N, Slot(count, j) = i
          PROVE  mine[i] # Unset
      <4> DEFINE m == CHOOSE m \in last..N : Slot(count, m) = i
      <4>1. m \in last..N
        BY <3>1
      <4>2. mine[i] = operands[L - (N - m)]
        BY <3>1
      <4> HIDE DEF m, mine, last, N, L
      <4> QED
        BY <1>7, <2>1, <4>1, <4>2
    <3> QED
      BY <3>1
  <2>6. (\E k \in 1..(n + 1) : ArgumentLocal(sig, k) = i) <=> theirs[i] # Unset
    <3>1. ASSUME NEW k \in 1..(n + 1), ArgumentLocal(sig, k) = i
          PROVE  theirs[i] # Unset
      <4> DEFINE m == CHOOSE m \in 1..(n + 1) : ArgumentLocal(sig, m) = i
      <4>1. m \in 1..(n + 1)
        BY <3>1
      <4>2. theirs[i] = arguments[m]
        BY <3>1
      <4> HIDE DEF m, theirs, n, L, arguments
      <4> QED
        BY <1>5, <1>7, <2>2, <4>1, <4>2
    <3> QED
      BY <3>1
  <2> QED
    BY <2>4, <2>5, <2>6
<1> DEFINE e == [k \in 0..n |-> Slot(count, last + k)]
           a == [k \in 0..n |-> ArgumentLocal(sig, k + 1)]
<1>9. /\ \A k \in 0..n : e[k] \in Nat /\ e[k] \in D
      /\ \A j, k \in 0..n : j < k => e[j] < e[k]
      /\ \A k \in 1..n : e[k] = e[k - 1] + (IF count[last + k] = "J" THEN 2 ELSE 1)
      /\ e[n] = n + last
  <2>1. /\ Slot(count, N) = N
        /\ \A j \in 0..N : Slot(count, j) \in Int
        /\ \A j \in 1..N : Slot(count, j) = Slot(count, j - 1) + (IF count[j] = "J" THEN 2 ELSE 1)
    <3> HIDE DEF count
    <3> QED
      BY <1>1, SlotFacts
  <2>2. ASSUME NEW j \in 0..n, NEW k \in 0..n, j <= k
        PROVE  e[k] - e[j] >= k - j
    <3>1. last + j \in 0..N /\ last + k \in (last + j)..N /\ (last + k) - (last + j) = k - j
      <4> HIDE DEF N, last, n
      <4> QED
        BY <1>1, <1>3, <1>4, <2>2
    <3>2. Slot(count, last + k) - Slot(count, last + j) >= (last + k) - (last + j)
      <4> HIDE DEF count, last
      <4> QED
        BY <1>1, <3>1, SlotGrows
    <3> QED
      BY <3>1, <3>2
  <2>3. ASSUME NEW k \in 0..n
        PROVE  e[k] \in Nat /\ e[k] \in D
    <3>1. 0 \in 0..n /\ 0 <= k /\ k \in Nat /\ last + 0 = last
      <4> HIDE DEF n, last, N
      <4> QED
        BY <1>1, <1>3
    <3>2. e[k] - e[0] >= k - 0
      BY <2>2, <3>1
    <3>3. e[0] = 0
      BY <1>3, <3>1
    <3>4. last + k \in last..N /\ last + k \in 0..N
      <4> HIDE DEF N, last, n
      <4> QED
        BY <1>1, <1>3, <1>4
    <3>5. e[k] \in Int /\ ~(e[k] >= MaxLocals(sig))
      BY <1>2, <2>1, <3>4
    <3>6. D = 0..(MaxLocals(sig) - 1) /\ MaxLocals(sig) \in Nat
      BY SignatureFacts DEF EmptyLocals
    <3> HIDE DEF e, D
    <3> QED
      BY <3>1, <3>2, <3>3, <3>5, <3>6
  <2>4. ASSUME NEW j \in 0..n, NEW k \in 0..n, j < k
        PROVE  e[j] < e[k]
    <3>1. e[k] - e[j] >= k - j
      <4> HIDE DEF e
      <4>1. j <= k
        <5> HIDE DEF n
        <5> QED
          BY <1>1, <2>4
      <4> QED
        BY <2>2, <4>1
    <3>2. e[k] \in Nat /\ e[j] \in Nat
      BY <2>3
    <3> HIDE DEF e, n
    <3> QED
      BY <1>1, <2>4, <3>1, <3>2
  <2>5. ASSUME NEW k \in 1..n
        PROVE  e[k] = e[k - 1] + (IF count[last + k] = "J" THEN 2 ELSE 1)
    <3>1. /\ last + k \in 1..N /\ (last + k) - 1 = last + (k - 1) /\ k \in 0..n
          /\ k - 1 \in 0..n
      <4> HIDE DEF N, last, n
      <4> QED
        BY <1>1, <1>3, <1>4
    <3> HIDE DEF N, last, count
    <3> QED
      BY <2>1, <3>1
  <2>6. e[n] = n + last
    <3>1. last + n = N /\ n \in 0..n /\ n + last = N
      <4> HIDE DEF N, last, n
      <4> QED
        BY <1>1, <1>3, <1>4
    <3> HIDE DEF N, last
    <3> QED
      BY <2>1, <3>1
  <2> HIDE DEF e
  <2> QED
    BY <2>3, <2>4, <2>5, <2>6
<1>10. /\ \A k \in 0..n : a[k] \in Nat /\ a[k] \in D
       /\ \A j, k \in 0..n : j < k => a[j] < a[k]
       /\ a[0] = 0
       /\ \A k \in 1..n : a[k] = 1 + WidthOf(params, k - 1)
       /\ \A k \in 1..n : a[k] = a[k - 1] + (IF k > 1 /\ params[k - 1] = "J" THEN 2 ELSE 1)
  <2>1. /\ WidthOf(params, 0) = 0
        /\ \A k \in 0..n : WidthOf(params, k) \in Nat
        /\ \A k \in 1..n : WidthOf(params, k) =
             WidthOf(params, k - 1) + (IF params[k] = "J" THEN 2 ELSE 1)
        /\ \A j, k \in 0..n : j <= k => WidthOf(params, j) <= WidthOf(params, k)
    BY <1>1, WidthFacts, WidthGrows
  <2>2. a[0] = 0
    BY <1>1, JvmLocalFacts
  <2>3. \A k \in 1..n : a[k] = 1 + WidthOf(params, k - 1)
    BY <1>1, JvmLocalFacts
  <2>4. D = 0..(MaxLocals(sig) - 1) /\ MaxLocals(sig) = 1 + sig.extra + WidthOf(params, n)
        /\ sig.extra \in Nat
    BY SignatureFacts DEF EmptyLocals
  <2> HIDE DEF a, n, params, D
  <2>5. ASSUME NEW k \in 0..n
        PROVE  a[k] \in Nat /\ a[k] \in D
    <3>1. CASE k = 0
      <4>1. n \in 0..n
        BY <1>1
      <4> QED
        BY <2>1, <2>2, <2>4, <3>1, <4>1
    <3>2. CASE k # 0
      <4>1. k \in 1..n /\ k - 1 \in 0..n /\ n \in 0..n /\ k - 1 <= n
        BY <1>1, <3>2
      <4>2. WidthOf(params, k - 1) < WidthOf(params, n)
            /\ WidthOf(params, k - 1) \in Nat /\ WidthOf(params, n) \in Nat
        <5>1. /\ WidthOf(params, k) = WidthOf(params, k - 1) + (IF params[k] = "J" THEN 2 ELSE 1)
              /\ WidthOf(params, k) <= WidthOf(params, n)
              /\ WidthOf(params, k - 1) \in Nat /\ WidthOf(params, n) \in Nat
              /\ WidthOf(params, k) \in Nat
          <6>1. k <= n
            BY <1>1
          <6> QED
            BY <2>1, <4>1, <6>1
        <5> QED
          BY <5>1
      <4>3. a[k] = 1 + WidthOf(params, k - 1)
        BY <2>3, <4>1
      <4> QED
        <5> DEFINE u == WidthOf(params, k - 1)
                   v == WidthOf(params, n)
                   x == sig.extra
        <5>1. u \in Nat /\ v \in Nat /\ u < v /\ a[k] = 1 + u /\ x \in Nat /\ D = 0..((1 + x + v) - 1)
          BY <2>4, <4>2, <4>3
        <5> HIDE DEF u, v, x
        <5> QED
          BY <5>1
    <3> QED
      BY <3>1, <3>2
  <2>6. ASSUME NEW k \in 1..n
        PROVE  a[k] = a[k - 1] + (IF k > 1 /\ params[k - 1] = "J" THEN 2 ELSE 1)
    <3>1. CASE k = 1
      <4>1. k - 1 = 0
        BY <3>1
      <4> QED
        BY <2>1, <2>2, <2>3, <3>1, <4>1
    <3>2. CASE k # 1
      <4>1. k - 1 \in 1..n /\ k > 1 /\ k - 1 \in 0..n /\ (k - 1) - 1 \in 0..n
        BY <1>1, <3>2
      <4>2. /\ a[k] = 1 + WidthOf(params, k - 1)
            /\ a[k - 1] = 1 + WidthOf(params, (k - 1) - 1)
            /\ WidthOf(params, k - 1) =
                 WidthOf(params, (k - 1) - 1) + (IF params[k - 1] = "J" THEN 2 ELSE 1)
            /\ WidthOf(params, (k - 1) - 1) \in Nat
        BY <2>1, <2>3, <4>1
      <4> QED
        BY <4>1, <4>2
    <3> QED
      BY <3>1, <3>2
  <2>7. ASSUME NEW j \in 0..n, NEW k \in 0..n, j < k
        PROVE  a[j] < a[k]
    <3>1. k \in 1..n /\ k - 1 \in 0..n /\ a[k] = 1 + WidthOf(params, k - 1)
          /\ WidthOf(params, k - 1) \in Nat
      <4>1. k \in 1..n /\ k - 1 \in 0..n
        BY <1>1, <2>7
      <4> QED
        BY <2>1, <2>3, <4>1
    <3>2. CASE j = 0
      BY <2>2, <3>1, <3>2
    <3>3. CASE j # 0
      <4>1. j \in 1..n /\ j - 1 \in 0..n /\ j \in 0..n /\ j <= k - 1
        BY <1>1, <2>7, <3>3
      <4>2. /\ a[j] = 1 + WidthOf(params, j - 1)
            /\ WidthOf(params, j) = WidthOf(params, j - 1) + (IF params[j] = "J" THEN 2 ELSE 1)
            /\ WidthOf(params, j) <= WidthOf(params, k - 1)
            /\ WidthOf(params, j) \in Nat /\ WidthOf(params, j - 1) \in Nat
        BY <2>1, <2>3, <3>1, <4>1
      <4>3. WidthOf(params, j - 1) < WidthOf(params, j)
        BY <4>2
      <4> QED
        BY <3>1, <4>2, <4>3
    <3> QED
      BY <3>2, <3>3
  <2> QED
    BY <2>2, <2>3, <2>5, <2>6, <2>7
<1>11. \A k \in 0..n : a[k] = e[k]
  <2>1. \A i : (\E j \in last..N : Slot(count, j) = i) <=> (\E k \in 0..n : e[k] = i)
    <3>1. \A j \in last..N : j - last \in 0..n /\ last + (j - last) = j
      <4> HIDE DEF N, last, n
      <4> QED
        BY <1>1, <1>3, <1>4
    <3>2. \A k \in 0..n : last + k \in last..N
      <4> HIDE DEF N, last, n
      <4> QED
        BY <1>1, <1>3, <1>4
    <3> HIDE DEF N, last, n, count
    <3> QED
      BY <3>1, <3>2
  <2>2. \A i : (\E k \in 1..(n + 1) : ArgumentLocal(sig, k) = i) <=> (\E k \in 0..n : a[k] = i)
    <3>1. \A k \in 1..(n + 1) : k - 1 \in 0..n /\ (k - 1) + 1 = k
      BY <1>1
    <3>2. \A k \in 0..n : k + 1 \in 1..(n + 1)
      BY <1>1
    <3> HIDE DEF n
    <3> QED
      BY <3>1, <3>2
  <2>3. /\ DOMAIN a = 0..n /\ DOMAIN e = 0..n
        /\ a = [k \in 0..n |-> a[k]] /\ e = [k \in 0..n |-> e[k]]
    OBVIOUS
  <2> HIDE DEF a, e, D, n, last, count, N
  <2>4. \A k \in 0..n : (\E j \in 0..n : a[k] = e[j]) /\ (\E j \in 0..n : e[k] = a[j])
    <3> SUFFICES ASSUME NEW k \in 0..n
                 PROVE  (\E j \in 0..n : e[j] = a[k]) /\ (\E j \in 0..n : a[j] = e[k])
      BY Zenon
    <3>1. a[k] \in D /\ e[k] \in D
      BY <1>9, <1>10
    <3> QED
      BY <1>8, <2>1, <2>2, <3>1
  <2>5. a \in [0..n -> Nat] /\ e \in [0..n -> Nat]
    BY <1>9, <1>10, <2>3
  <2>6. \A j, k \in 0..n : j < k => a[j] < a[k] /\ e[j] < e[k]
    BY <1>9, <1>10
  <2> QED
    BY <1>1, <2>4, <2>5, <2>6, IncreasingIsUnique
<1> HIDE DEF a, e
<1>12. SameSteps(params, last)
  <2>1. ASSUME NEW k \in 1..n
        PROVE  count[last + k] = "J" <=> k > 1 /\ params[k - 1] = "J"
    <3>1. k \in 0..n /\ k - 1 \in 0..n
      BY <1>1
    <3>2. /\ e[k] = e[k - 1] + (IF count[last + k] = "J" THEN 2 ELSE 1)
          /\ e[k] = e[k - 1] + (IF k > 1 /\ params[k - 1] = "J" THEN 2 ELSE 1)
          /\ e[k - 1] \in Nat
      BY <1>9, <1>10, <1>11, <3>1
    <3> HIDE DEF count, last, n, params
    <3> QED
      BY <3>2
  <2> HIDE DEF last
  <2> QED
    BY <2>1 DEF SameSteps
<1>13. n > 0 => 1 + WidthOf(params, n - 1) = n + last
  <2>1. n > 0 => n \in 1..n /\ n \in 0..n
    BY <1>1
  <2> HIDE DEF n, params, last
  <2> QED
    BY <1>9, <1>10, <1>11, <2>1
<1>14. Odd(params) \in {{}, {"L", "J", "[J"}}
  <2>1. last \in Nat
    BY <1>3
  <2> HIDE DEF last
  <2> QED
    BY <1>1, <1>4, <1>12, <1>13, <2>1, ShiftFits
<1> QED
  BY <1>14 DEF Odd, Misplaced

-----------------------------------------------------------------------------
(* Instructions: what they leave on the frame *)

AnyLocals == UNION {[0..(n - 1) -> LocalValue] : n \in Nat}

FrameType ==
  [sig : Signatures \cup {Entry}, locals : AnyLocals, operands : Seq(Operand),
   jumped : BOOLEAN]

\* The locals a frame has are those its method was compiled for.
SizedFrame == {f \in FrameType : DOMAIN f.locals = DOMAIN EmptyLocals(f.sig)}

\* Every frame is one its method can have, and no operand is unset: pushNewFrame and
\* the opcodes leave no local missing and hand on no value nobody wrote.
FramesOK == frames \in Seq(SizedFrame) \ {<<>>}

LEMMA WrapFacts ==
  /\ TwoTo(IntBits - 1) \in Nat \ {0}
  /\ TwoTo(IntBits) = 2 * TwoTo(IntBits - 1)
  /\ \A x \in Int : Wrap(x) \in Int
  /\ \A x \in -TwoTo(IntBits - 1)..(TwoTo(IntBits - 1) - 1) : Wrap(x) = x
<1> DEFINE H == TwoTo(IntBits - 1)
<1>1. IntBits - 1 \in Nat /\ (IntBits - 1) + 1 = IntBits
  BY FramesAssumption
<1>2. H \in Nat \ {0} /\ TwoTo(IntBits) = 2 * H
  BY <1>1, TwoToFacts
<1>3. \A x : Wrap(x) = ((x + H) % TwoTo(IntBits)) - H
  BY DEF Wrap
<1> HIDE DEF H
<1>4. \A x \in Int : Wrap(x) \in Int
  <2> SUFFICES ASSUME NEW x \in Int PROVE Wrap(x) \in Int
    OBVIOUS
  <2> DEFINE M == 2 * H
  <2>1. M \in Nat \ {0} /\ x + H \in Int
    BY <1>2
  <2> HIDE DEF M
  <2>2. (x + H) % M \in Int
    BY <2>1
  <2> QED
    BY <1>2, <1>3, <2>2 DEF M
<1>5. \A x \in -H..(H - 1) : Wrap(x) = x
  <2> SUFFICES ASSUME NEW x \in -H..(H - 1) PROVE Wrap(x) = x
    OBVIOUS
  <2> DEFINE M == 2 * H
             y == x + H
  <2>1. M \in Nat \ {0} /\ y \in 0..(M - 1) /\ x = y - H
    BY <1>2
  <2> HIDE DEF M, y
  <2>2. y % M = y
    BY <2>1
  <2> QED
    BY <1>2, <1>3, <2>1, <2>2 DEF M, y
<1> QED
  BY <1>2, <1>4, <1>5 DEF H

LEMMA InstructionFacts ==
  ASSUME NEW i \in Instructions
  PROVE  /\ i.op \in {"push", "bipush", "load", "store", "pop", "dup", "iadd", "isub", "imul",
                      "iinc", "if", "if_icmp", "goto", "fadd", "i2f", "f2i", "fcmp",
                      "unsupported"}
         /\ i.op = "push" => i.value \in Operand
         /\ i.op = "bipush" => i.byte \in 0..(TwoTo(ByteBits) - 1)
         /\ i.op \in {"load", "store"} => i.index \in Nat
         /\ i.op = "f2i" => i.cast \in MinInt..MaxInt
         /\ i.op = "iinc" => i.value.v \in Int
         /\ i.op \in {"if", "if_icmp"} => i.cond \in {"eq", "ne", "lt", "ge", "gt", "le"}
         /\ i.op = "fcmp" => i.nan \in {-1, 1}
<1>1. CASE i \in [op : {"push"},
                  value : {IntValue(x) : x \in PushedInts} \cup {Value("ref", r) : r \in Refs}
                            \cup {Value("float", x) : x \in PushedFloats}
                            \cup {Value("long", 0)}]
  <2>1. \A x \in PushedInts : IntValue(x) \in Operand
    BY FramesAssumption, WrapFacts DEF IntValue, Value, Operand, OperandKind
  <2>2. \A r \in Refs : Value("ref", r) \in Operand
    BY FramesAssumption DEF Value, Operand, OperandKind
  <2>3. \A x \in PushedFloats : Value("float", x) \in Operand
    BY FramesAssumption DEF Value, Operand, OperandKind
  <2>4. Value("long", 0) \in Operand
    BY DEF Value, Operand, OperandKind
  <2> QED
    BY <1>1, <2>1, <2>2, <2>3, <2>4
<1>2. CASE i \in [op : {"bipush"}, byte : 0..(TwoTo(ByteBits) - 1)]
  BY <1>2
<1>3. CASE i \in [op : {"load", "store"}, index : 0..MaxLocal]
  BY <1>3 DEF MaxLocal
<1>4. CASE i \in [op : {"f2i"}, cast : MinInt..MaxInt]
  BY <1>4
<1>5. CASE i \in [op : {"iinc"}, index : 0..MaxLocal, value : {IntValue(x) : x \in PushedInts}]
  <2>1. \A x \in PushedInts : IntValue(x).v \in Int
    BY FramesAssumption, WrapFacts DEF IntValue, Value
  <2> QED
    BY <1>5, <2>1
<1>6. CASE i \in [op : {"if", "if_icmp"}, cond : {"eq", "ne", "lt", "ge", "gt", "le"}]
  BY <1>6
<1>7. CASE i \in [op : {"pop", "dup", "iadd", "isub", "imul", "goto", "fadd", "i2f", "unsupported"}]
  BY <1>7
<1>8. CASE i \in [op : {"fcmp"}, nan : {-1, 1}]
  BY <1>8
<1> DEFINE A == [op : {"push"},
                          value : {IntValue(x) : x \in PushedInts} \cup {Value("ref", r) : r \in Refs}
                                   \cup {Value("float", x) : x \in PushedFloats}
                                   \cup {Value("long", 0)}]
           B == [op : {"bipush"}, byte : 0..(TwoTo(ByteBits) - 1)]
           C == [op : {"load", "store"}, index : 0..MaxLocal]
           D == [op : {"f2i"}, cast : MinInt..MaxInt]
           E == [op : {"iinc"}, index : 0..MaxLocal, value : {IntValue(x) : x \in PushedInts}]
           F == [op : {"if", "if_icmp"}, cond : {"eq", "ne", "lt", "ge", "gt", "le"}]
           G == [op : {"pop", "dup", "iadd", "isub", "imul", "goto", "fadd", "i2f", "unsupported"}]
           H == [op : {"fcmp"}, nan : {-1, 1}]
<1>9. Instructions = A \cup B \cup C \cup D \cup E \cup F \cup G \cup H
  BY DEF Instructions
<1>10. \/ i \in A \/ i \in B \/ i \in C \/ i \in D
       \/ i \in E \/ i \in F \/ i \in G \/ i \in H
  <2> HIDE DEF A, B, C, D, E, F, G, H
  <2> QED
    BY <1>9
<1> QED
  BY <1>1, <1>2, <1>3, <1>4, <1>5, <1>6, <1>7, <1>8, <1>10, Zenon

\* What Allowed says of the operands and the locals an instruction reads.
Ready(i, f) ==
  /\ i.op \in {"iadd", "isub", "imul", "if_icmp", "fadd", "fcmp"} => Len(f.operands) >= 2
  /\ i.op \in {"store", "pop", "dup", "if", "i2f", "f2i"} => Len(f.operands) >= 1
  /\ i.op \in {"load", "store", "iinc"} => i.index \in DOMAIN f.locals
  /\ i.op = "load" => f.locals[i.index].kind # "unset"

LEMMA AllowedFacts ==
  ASSUME NEW i \in Instructions, NEW f \in FrameType, Allowed(i, f)
  PROVE  Ready(i, f)
<1>1. f.operands \in Seq(Operand) /\ Len(f.operands) \in Nat
      /\ (f.operands # <<>> => Len(f.operands) >= 1)
  BY DEF FrameType
<1>2. ASSUME NEW kind, NEW n \in {1, 2}, Fits(f, Kinds(n, kind))
      PROVE  Len(f.operands) >= n
  BY <1>2 DEF Fits, Kinds
<1>3. CASE i.op \in {"iadd", "isub", "imul", "if_icmp"}
  <2>1. Fits(f, Kinds(2, "int"))
    BY <1>3 DEF Allowed
  <2> QED
    BY <1>2, <1>3, <2>1 DEF Ready
<1>4. CASE i.op \in {"fadd", "fcmp"}
  <2>1. Fits(f, Kinds(2, "float"))
    BY <1>4 DEF Allowed
  <2> QED
    BY <1>2, <1>4, <2>1 DEF Ready
<1>5. CASE i.op \in {"if", "i2f"}
  <2>1. Fits(f, Kinds(1, "int"))
    BY <1>5 DEF Allowed
  <2> QED
    BY <1>2, <1>5, <2>1 DEF Ready
<1>6. CASE i.op = "f2i"
  <2>1. Fits(f, Kinds(1, "float"))
    BY <1>6 DEF Allowed
  <2> QED
    BY <1>2, <1>6, <2>1 DEF Ready
<1>7. CASE i.op \in {"dup", "pop"}
  <2>1. f.operands # <<>>
    BY <1>7 DEF Allowed
  <2> QED
    BY <1>1, <1>7, <2>1 DEF Ready
<1>8. CASE i.op = "load"
  BY <1>8 DEF Allowed, Ready
<1>9. CASE i.op = "store"
  <2>1. f.operands # <<>> /\ i.index \in DOMAIN f.locals
    BY <1>9 DEF Allowed
  <2> QED
    BY <1>1, <1>9, <2>1 DEF Ready
<1>10. CASE i.op = "iinc"
  BY <1>10 DEF Allowed, Ready
<1>11. CASE i.op \in {"push", "bipush", "goto", "unsupported"}
  BY <1>11 DEF Ready
<1> QED
  BY <1>3, <1>4, <1>5, <1>6, <1>7, <1>8, <1>9, <1>10, <1>11, InstructionFacts

LEMMA OperandFacts ==
  ASSUME NEW f \in FrameType
  PROVE  /\ Len(f.operands) >= 1 => Top(f) \in Operand /\ DropTop(f, 1) \in Seq(Operand)
         /\ Len(f.operands) >= 2 => Below(f) \in Operand /\ DropTop(f, 2) \in Seq(Operand)
<1> DEFINE s == f.operands
<1>1. s \in Seq(Operand) /\ Len(s) \in Nat
  BY DEF FrameType
<1> HIDE DEF s
<1>2. Len(s) >= 1 => s[Len(s)] \in Operand /\ SubSeq(s, 1, Len(s) - 1) \in Seq(Operand)
  BY <1>1
<1>3. Len(s) >= 2 => s[Len(s) - 1] \in Operand /\ SubSeq(s, 1, Len(s) - 2) \in Seq(Operand)
  BY <1>1
<1> QED
  BY <1>2, <1>3 DEF s, Top, Below, DropTop, Last

\* Changing the operands of a frame, one of its locals, its jump.
LEMMA PutFacts ==
  ASSUME NEW f \in FrameType, NEW s \in Seq(Operand)
  PROVE  /\ [f EXCEPT !.operands = s] \in FrameType
         /\ [f EXCEPT !.operands = s].locals = f.locals
         /\ [f EXCEPT !.operands = s].sig = f.sig
         /\ [f EXCEPT !.operands = s].operands = s
         /\ \A b \in BOOLEAN : [f EXCEPT !.operands = s, !.jumped = b] \in FrameType
         /\ \A b \in BOOLEAN : [f EXCEPT !.jumped = b] \in FrameType
         /\ \A b \in BOOLEAN : [f EXCEPT !.operands = s, !.jumped = b].jumped = b
BY DEF FrameType

LEMMA PutLocal ==
  ASSUME NEW f \in FrameType, NEW k \in DOMAIN f.locals, NEW v \in LocalValue
  PROVE  /\ [f EXCEPT !.locals[k] = v] \in FrameType
         /\ DOMAIN [f EXCEPT !.locals[k] = v].locals = DOMAIN f.locals
<1>1. f.locals \in AnyLocals
  BY DEF FrameType
<1>2. PICK n \in Nat : f.locals \in [0..(n - 1) -> LocalValue]
  BY <1>1 DEF AnyLocals
<1>3. [f.locals EXCEPT ![k] = v] \in [0..(n - 1) -> LocalValue]
  BY <1>2
<1>4. [f.locals EXCEPT ![k] = v] \in AnyLocals
  BY <1>3 DEF AnyLocals
<1>5. [f EXCEPT !.locals[k] = v] = [f EXCEPT !.locals = [f.locals EXCEPT ![k] = v]]
  OBVIOUS
<1> QED
  BY <1>4, <1>5 DEF FrameType

LEMMA ValuesAreTyped ==
  /\ \A x \in Int : IntValue(x) \in Operand
  /\ \A kind \in OperandKind, x \in Int : Value(kind, x) \in Operand
  /\ Operand \subseteq LocalValue
  /\ \A o \in LocalValue : o.v \in Int /\ o.kind \in OperandKind \cup {"unset"}
                           /\ (o.kind # "unset" => o \in Operand)
  /\ Unset \in LocalValue
<1>1. /\ \A x \in Int : IntValue(x) \in Operand
      /\ \A kind \in OperandKind, x \in Int : Value(kind, x) \in Operand
  BY WrapFacts DEF IntValue, Value, Operand, OperandKind
<1>2. Operand \subseteq LocalValue /\ Unset \in LocalValue
  BY DEF Operand, LocalValue, Unset, Value
<1>3. \A o \in LocalValue : o.v \in Int /\ o.kind \in OperandKind \cup {"unset"}
                           /\ (o.kind # "unset" => o \in Operand)
  BY DEF Operand, LocalValue
<1> QED
  BY <1>1, <1>2, <1>3

\* The comparison with the operands swapped agrees on = and #, and on equal ints.
LEMMA CompareFacts ==
  ASSUME NEW x \in Int, NEW y \in Int,
         NEW cond \in {"eq", "ne", "lt", "ge", "gt", "le"}
  PROVE  /\ Compare(x, y, cond) \in BOOLEAN /\ JvmCompare(x, y, cond) \in BOOLEAN
         /\ Compare(x, y, cond) = JvmCompare(x, y, cond)
         /\ Compare(x, y, cond) = JvmCompare(y, x, cond) <=> cond \in {"eq", "ne"} \/ x = y
<1>1. JvmCompare(x, y, cond) \in BOOLEAN /\ JvmCompare(y, x, cond) \in BOOLEAN
  BY DEF JvmCompare
<1>2. CASE cond = "eq"
  <2>1. Compare(x, y, cond) = (x = y)
    BY <1>2 DEF Compare
  <2>2. (JvmCompare(x, y, cond) <=> x = y) /\ (JvmCompare(y, x, cond) <=> y = x)
    BY <1>2 DEF JvmCompare
  <2>3. ((x = y) <=> (y = x)) <=> cond \in {"eq", "ne"} \/ x = y
    BY <1>2
  <2> HIDE DEF Compare, JvmCompare
  <2> QED
    BY <1>1, <2>1, <2>2, <2>3
<1>3. CASE cond = "ne"
  <2>1. Compare(x, y, cond) = (x # y)
    BY <1>3 DEF Compare
  <2>2. (JvmCompare(x, y, cond) <=> x # y) /\ (JvmCompare(y, x, cond) <=> y # x)
    BY <1>3 DEF JvmCompare
  <2>3. ((x # y) <=> (y # x)) <=> cond \in {"eq", "ne"} \/ x = y
    BY <1>3
  <2> HIDE DEF Compare, JvmCompare
  <2> QED
    BY <1>1, <2>1, <2>2, <2>3
<1>4. CASE cond = "lt"
  <2>1. Compare(x, y, cond) = (x < y)
    BY <1>4 DEF Compare
  <2>2. (JvmCompare(x, y, cond) <=> x < y) /\ (JvmCompare(y, x, cond) <=> y < x)
    BY <1>4 DEF JvmCompare
  <2>3. ((x < y) <=> (y < x)) <=> cond \in {"eq", "ne"} \/ x = y
    BY <1>4
  <2> HIDE DEF Compare, JvmCompare
  <2> QED
    BY <1>1, <2>1, <2>2, <2>3
<1>5. CASE cond = "ge"
  <2>1. Compare(x, y, cond) = (x >= y)
    BY <1>5 DEF Compare
  <2>2. (JvmCompare(x, y, cond) <=> x >= y) /\ (JvmCompare(y, x, cond) <=> y >= x)
    BY <1>5 DEF JvmCompare
  <2>3. ((x >= y) <=> (y >= x)) <=> cond \in {"eq", "ne"} \/ x = y
    BY <1>5
  <2> HIDE DEF Compare, JvmCompare
  <2> QED
    BY <1>1, <2>1, <2>2, <2>3
<1>6. CASE cond = "gt"
  <2>1. Compare(x, y, cond) = (x > y)
    BY <1>6 DEF Compare
  <2>2. (JvmCompare(x, y, cond) <=> x > y) /\ (JvmCompare(y, x, cond) <=> y > x)
    BY <1>6 DEF JvmCompare
  <2>3. ((x > y) <=> (y > x)) <=> cond \in {"eq", "ne"} \/ x = y
    BY <1>6
  <2> HIDE DEF Compare, JvmCompare
  <2> QED
    BY <1>1, <2>1, <2>2, <2>3
<1>7. CASE cond = "le"
  <2>1. Compare(x, y, cond) = (x <= y)
    BY <1>7 DEF Compare
  <2>2. (JvmCompare(x, y, cond) <=> x <= y) /\ (JvmCompare(y, x, cond) <=> y <= x)
    BY <1>7 DEF JvmCompare
  <2>3. ((x <= y) <=> (y <= x)) <=> cond \in {"eq", "ne"} \/ x = y
    BY <1>7
  <2> HIDE DEF Compare, JvmCompare
  <2> QED
    BY <1>1, <2>1, <2>2, <2>3
<1> QED
  BY <1>2, <1>3, <1>4, <1>5, <1>6, <1>7

LEMMA ExecTyped ==
  ASSUME NEW i \in Instructions, NEW f \in FrameType, Ready(i, f), ~Fails(i, f)
  PROVE  /\ Exec(i, f) \in FrameType
         /\ Exec(i, f).sig = f.sig
         /\ DOMAIN Exec(i, f).locals = DOMAIN f.locals
<1> DEFINE s == f.operands
<1>1. /\ s \in Seq(Operand) /\ f.jumped \in BOOLEAN
      /\ \A k \in DOMAIN f.locals : f.locals[k] \in LocalValue
  <2>1. f.locals \in AnyLocals
    BY DEF FrameType
  <2> QED
    BY <2>1 DEF FrameType, AnyLocals
<1>2. /\ Len(s) >= 1 => Top(f) \in Operand /\ DropTop(f, 1) \in Seq(Operand) /\ Top(f).v \in Int
      /\ Len(s) >= 2 => /\ Below(f) \in Operand /\ DropTop(f, 2) \in Seq(Operand)
                        /\ Below(f).v \in Int /\ Top(f) \in Operand /\ Top(f).v \in Int
  BY OperandFacts, ValuesAreTyped, <1>1 DEF FrameType
<1>3. \A o \in Operand : \A t \in Seq(Operand) : Append(t, o) \in Seq(Operand)
  OBVIOUS
<1>4. \A t \in Seq(Operand) : /\ [f EXCEPT !.operands = t] \in FrameType
                              /\ [f EXCEPT !.operands = t].sig = f.sig
                              /\ [f EXCEPT !.operands = t].locals = f.locals
  BY PutFacts
<1>5. i.op \in {"push", "bipush", "load", "store", "pop", "dup", "iadd", "isub", "imul",
                "iinc", "if", "if_icmp", "goto", "fadd", "i2f", "f2i", "fcmp"}
  BY InstructionFacts DEF Fails
<1>6. ASSUME NEW t \in Seq(Operand), Exec(i, f) = [f EXCEPT !.operands = t]
      PROVE  /\ Exec(i, f) \in FrameType
             /\ Exec(i, f).sig = f.sig
             /\ DOMAIN Exec(i, f).locals = DOMAIN f.locals
  BY <1>4, <1>6
<1>7. ASSUME NEW t \in Seq(Operand), NEW b \in BOOLEAN,
             Exec(i, f) = [f EXCEPT !.operands = t, !.jumped = b]
      PROVE  /\ Exec(i, f) \in FrameType
             /\ Exec(i, f).sig = f.sig
             /\ DOMAIN Exec(i, f).locals = DOMAIN f.locals
  BY <1>7 DEF FrameType
<1>8. CASE i.op = "push"
  <2>1. Exec(i, f) = [f EXCEPT !.operands = Append(s, i.value)] /\ i.value \in Operand
    BY <1>8, InstructionFacts DEF Exec
  <2> QED
    BY <1>1, <1>3, <1>6, <2>1
<1>9. CASE i.op = "bipush"
  <2>1. Exec(i, f) = [f EXCEPT !.operands = Append(s, IntValue(i.byte))]
    BY <1>9 DEF Exec, ByteOperand
  <2>2. IntValue(i.byte) \in Operand
    <3>1. i.byte \in Int
      BY <1>9, InstructionFacts
    <3> QED
      BY <3>1, ValuesAreTyped
  <2> QED
    BY <1>1, <1>3, <1>6, <2>1, <2>2
<1>10. CASE i.op = "load"
  <2>1. Exec(i, f) = [f EXCEPT !.operands = Append(s, f.locals[i.index])]
    BY <1>10 DEF Exec
  <2>2. f.locals[i.index] \in Operand
    BY <1>1, <1>10, ValuesAreTyped DEF Ready
  <2> QED
    BY <1>1, <1>3, <1>6, <2>1, <2>2
<1>11. CASE i.op = "store"
  <2>1. /\ Exec(i, f) = [f EXCEPT !.locals[i.index] = Top(f), !.operands = DropTop(f, 1)]
        /\ i.index \in DOMAIN f.locals /\ Len(s) >= 1
    BY <1>11 DEF Exec, Ready
  <2> DEFINE g == [f EXCEPT !.locals[i.index] = Top(f)]
  <2>2. g \in FrameType /\ DOMAIN g.locals = DOMAIN f.locals /\ g.sig = f.sig
    <3>1. Top(f) \in LocalValue
      BY <1>2, <2>1, ValuesAreTyped
    <3> QED
      BY <2>1, <3>1, PutLocal DEF FrameType
  <2>3. Exec(i, f) = [g EXCEPT !.operands = DropTop(f, 1)]
    BY <2>1
  <2>4. DropTop(f, 1) \in Seq(Operand)
    BY <1>2, <2>1
  <2> HIDE DEF g
  <2>5. /\ [g EXCEPT !.operands = DropTop(f, 1)] \in FrameType
        /\ [g EXCEPT !.operands = DropTop(f, 1)].locals = g.locals
        /\ [g EXCEPT !.operands = DropTop(f, 1)].sig = g.sig
    BY <2>2, <2>4, PutFacts
  <2> QED
    BY <2>2, <2>3, <2>5
<1>12. CASE i.op = "pop"
  <2>1. Exec(i, f) = [f EXCEPT !.operands = DropTop(f, 1)] /\ Len(s) >= 1
    BY <1>12 DEF Exec, Ready
  <2> QED
    BY <1>2, <1>6, <2>1
<1>13. CASE i.op = "dup"
  <2>1. Exec(i, f) = [f EXCEPT !.operands = Append(s, Top(f))] /\ Len(s) >= 1
    BY <1>13 DEF Exec, Ready
  <2> QED
    BY <1>1, <1>2, <1>3, <1>6, <2>1
<1>14. CASE i.op \in {"iadd", "isub", "imul"}
  <2>1. /\ Exec(i, f) = [f EXCEPT !.operands =
               Append(DropTop(f, 2), IntValue(Arithmetic(i.op, Top(f).v, Below(f).v)))]
        /\ Len(s) >= 2
    BY <1>14 DEF Exec, Ready
  <2>2. Arithmetic(i.op, Top(f).v, Below(f).v) \in Int
    BY <1>2, <1>14, <2>1 DEF Arithmetic
  <2>3. IntValue(Arithmetic(i.op, Top(f).v, Below(f).v)) \in Operand
    BY <2>2, ValuesAreTyped
  <2> QED
    BY <1>2, <1>3, <1>6, <2>1, <2>3
<1>15. CASE i.op = "iinc"
  <2>1. /\ Exec(i, f) = [f EXCEPT !.locals[i.index] = IntValue(f.locals[i.index].v + i.value.v)]
        /\ i.index \in DOMAIN f.locals /\ i.value.v \in Int
    BY <1>15, InstructionFacts DEF Exec, Ready
  <2>2. IntValue(f.locals[i.index].v + i.value.v) \in LocalValue
    <3>1. f.locals[i.index].v \in Int
      BY <1>1, <2>1, ValuesAreTyped
    <3>2. f.locals[i.index].v + i.value.v \in Int
      BY <2>1, <3>1
    <3> QED
      BY <3>2, ValuesAreTyped
  <2> DEFINE v == IntValue(f.locals[i.index].v + i.value.v)
             g == [f EXCEPT !.locals[i.index] = v]
  <2> HIDE DEF v
  <2>3. g.sig = f.sig
    BY DEF FrameType
  <2>4. g \in FrameType /\ DOMAIN g.locals = DOMAIN f.locals
    BY <2>1, <2>2, PutLocal DEF v
  <2>5. Exec(i, f) = g
    BY <2>1 DEF v
  <2> HIDE DEF g
  <2> QED
    BY <2>3, <2>4, <2>5
<1>16. CASE i.op = "if"
  <2>1. /\ Exec(i, f) = [f EXCEPT !.operands = DropTop(f, 1),
                                  !.jumped = Compare(Top(f).v, 0, i.cond)]
        /\ Len(s) >= 1
    BY <1>16 DEF Exec, Ready
  <2>2. Compare(Top(f).v, 0, i.cond) \in BOOLEAN
    BY <1>2, <1>16, <2>1, InstructionFacts, CompareFacts
  <2> QED
    BY <1>2, <1>7, <2>1, <2>2
<1>17. CASE i.op = "if_icmp"
  <2>1. /\ Exec(i, f) = [f EXCEPT !.operands = DropTop(f, 2),
                                  !.jumped = Compare(Top(f).v, Below(f).v, i.cond)]
        /\ Len(s) >= 2
    BY <1>17 DEF Exec, Ready
  <2>2. Compare(Top(f).v, Below(f).v, i.cond) \in BOOLEAN
    BY <1>2, <1>17, <2>1, InstructionFacts, CompareFacts
  <2> QED
    BY <1>2, <1>7, <2>1, <2>2
<1>18. CASE i.op = "goto"
  <2>1. Exec(i, f) = [f EXCEPT !.jumped = TRUE]
    BY <1>18 DEF Exec
  <2> QED
    BY <2>1 DEF FrameType
<1>19. CASE i.op = "fadd"
  <2>1. /\ Exec(i, f) = [f EXCEPT !.operands =
               Append(DropTop(f, 2), Value("float", FloatSum(Below(f).v, Top(f).v)))]
        /\ Len(s) >= 2
    BY <1>19 DEF Exec, Ready
  <2>2. FloatSum(Below(f).v, Top(f).v) \in Int
    BY <1>2, <2>1, FramesAssumption, SMTT(20) DEF FloatSum
  <2>3. Value("float", FloatSum(Below(f).v, Top(f).v)) \in Operand
    BY <2>2, ValuesAreTyped DEF OperandKind
  <2> QED
    BY <1>2, <1>3, <1>6, <2>1, <2>3
<1>20. CASE i.op = "i2f"
  <2>1. /\ Exec(i, f) = [f EXCEPT !.operands = Append(DropTop(f, 1), Value("float", Top(f).v))]
        /\ Len(s) >= 1
    BY <1>20 DEF Exec, Ready
  <2>2. Value("float", Top(f).v) \in Operand
    BY <1>2, <2>1, ValuesAreTyped DEF OperandKind
  <2> QED
    BY <1>2, <1>3, <1>6, <2>1, <2>2
<1>21. CASE i.op = "f2i"
  <2>1. /\ Exec(i, f) = [f EXCEPT !.operands =
               Append(DropTop(f, 1), Value("int", FloatToInt(Top(f).v, i.cast)))]
        /\ Len(s) >= 1
    BY <1>21 DEF Exec, Ready
  <2>2. FloatToInt(Top(f).v, i.cast) \in Int
    BY <1>2, <1>21, <2>1, InstructionFacts DEF FloatToInt
  <2>3. Value("int", FloatToInt(Top(f).v, i.cast)) \in Operand
    BY <2>2, ValuesAreTyped DEF OperandKind
  <2> QED
    BY <1>2, <1>3, <1>6, <2>1, <2>3
<1>22. CASE i.op = "fcmp"
  <2>1. /\ Exec(i, f) = [f EXCEPT !.operands =
               Append(DropTop(f, 2), Value("int", FloatOrder(Below(f).v, Top(f).v)))]
        /\ Len(s) >= 2
    BY <1>22 DEF Exec, Ready
  <2>2. FloatOrder(Below(f).v, Top(f).v) \in Int
    BY <1>2, <2>1 DEF FloatOrder
  <2>3. Value("int", FloatOrder(Below(f).v, Top(f).v)) \in Operand
    BY <2>2, ValuesAreTyped DEF OperandKind
  <2> QED
    BY <1>2, <1>3, <1>6, <2>1, <2>3
<1> QED
  BY <1>5, <1>8, <1>9, <1>10, <1>11, <1>12, <1>13, <1>14, <1>15, <1>16, <1>17, <1>18,
     <1>19, <1>20, <1>21, <1>22

\* One instruction: the frames are the same exactly where the list of Deviates says.
LEMMA ExecAgrees ==
  ASSUME NEW i \in Instructions, NEW f \in FrameType, Ready(i, f), ~Fails(i, f)
  PROVE  Exec(i, f) = JvmExec(i, f) <=> ~Deviates(i, f)
<1> DEFINE s == f.operands
<1>1. s \in Seq(Operand)
  BY DEF FrameType
<1>2. /\ Len(s) >= 1 => Top(f) \in Operand /\ DropTop(f, 1) \in Seq(Operand) /\ Top(f).v \in Int
      /\ Len(s) >= 2 => /\ Below(f) \in Operand /\ DropTop(f, 2) \in Seq(Operand)
                        /\ Below(f).v \in Int /\ Top(f) \in Operand /\ Top(f).v \in Int
  BY OperandFacts, ValuesAreTyped, <1>1 DEF FrameType
<1>3. ASSUME NEW t \in Seq(Operand), NEW x \in Operand, NEW y \in Operand
      PROVE  [f EXCEPT !.operands = Append(t, x)] = [f EXCEPT !.operands = Append(t, y)]
               <=> x = y
  <2>1. Append(t, x) = Append(t, y) <=> x = y
    <3>1. Append(t, x)[Len(t) + 1] = x /\ Append(t, y)[Len(t) + 1] = y
      OBVIOUS
    <3> QED
      BY <3>1
  <2>2. Append(t, x) \in Seq(Operand) /\ Append(t, y) \in Seq(Operand)
    OBVIOUS
  <2>3. [f EXCEPT !.operands = Append(t, x)].operands = Append(t, x)
        /\ [f EXCEPT !.operands = Append(t, y)].operands = Append(t, y)
    BY <2>2, PutFacts
  <2> QED
    BY <2>1, <2>3
<1>4. i.op \in {"push", "bipush", "load", "store", "pop", "dup", "iadd", "isub", "imul",
                "iinc", "if", "if_icmp", "goto", "fadd", "i2f", "f2i", "fcmp"}
  BY InstructionFacts DEF Fails
<1>5. \A x, y : Value("int", x) = Value("int", y) <=> x = y
  BY DEF Value
<1>6. CASE i.op \in {"push", "pop", "dup", "iinc", "goto", "fadd", "i2f"}
  <2>1. JvmExec(i, f) = Exec(i, f)
    BY <1>6 DEF JvmExec
  <2>2. ~Deviates(i, f)
    BY <1>6 DEF Deviates
  <2> QED
    BY <2>1, <2>2
<1>7. CASE i.op \in {"load", "store"}
  <2>1. JvmExec(i, f) = Exec(i, f)
    BY <1>7 DEF JvmExec
  <2>2. ~Deviates(i, f)
    <3>1. i.index \in Nat /\ ShortForms \in Nat
      BY <1>7, InstructionFacts, FramesAssumption
    <3>2. i.index >= ShortForms <=> i.index \notin 0..(ShortForms - 1)
      BY <3>1
    <3> QED
      BY <1>7, <3>2 DEF Deviates, Fails
  <2> QED
    BY <2>1, <2>2
<1>8. CASE i.op = "bipush"
  <2> DEFINE b == i.byte
             h == TwoTo(ByteBits - 1)
             B == TwoTo(ByteBits)
             H == TwoTo(IntBits - 1)
  <2>1. Exec(i, f) = [f EXCEPT !.operands = Append(s, IntValue(b))]
    BY <1>8 DEF Exec, ByteOperand
  <2>2. JvmExec(i, f) = [f EXCEPT !.operands = Append(s, IntValue(SignExtended(b)))]
    BY <1>8 DEF JvmExec
  <2>3. Deviates(i, f) <=> b >= h
    BY <1>8 DEF Deviates
  <2>4. b \in 0..(B - 1) /\ h \in Nat \ {0} /\ B = 2 * h /\ H \in Nat \ {0} /\ B <= H
    <3>1. ByteBits - 1 \in Nat /\ (ByteBits - 1) + 1 = ByteBits /\ ByteBits \in Nat
          /\ IntBits - 1 \in Nat /\ ByteBits <= IntBits - 1
      BY FramesAssumption
    <3>2. h \in Nat \ {0} /\ B = 2 * h /\ H \in Nat \ {0}
      BY <3>1, TwoToFacts
    <3>3. B <= H
      BY <3>1, TwoToGrows
    <3> QED
      BY <1>8, <3>2, <3>3, InstructionFacts
  <2>5. SignExtended(b) = IF b >= h THEN b - B ELSE b
    BY DEF SignExtended
  <2>6. \A x \in -H..(H - 1) : Wrap(x) = x
    BY WrapFacts
  <2> HIDE DEF b, h, B, H
  <2>7. b \in Int /\ SignExtended(b) \in Int /\ b \in -H..(H - 1) /\ SignExtended(b) \in -H..(H - 1)
    BY <2>4, <2>5
  <2>8. IntValue(b) = IntValue(SignExtended(b)) <=> b = SignExtended(b)
    BY <1>5, <2>6, <2>7 DEF IntValue
  <2>9. b = SignExtended(b) <=> ~(b >= h)
    BY <2>4, <2>5
  <2>10. IntValue(b) \in Operand /\ IntValue(SignExtended(b)) \in Operand
    BY <2>7, ValuesAreTyped
  <2> DEFINE u == IntValue(b)
             v == IntValue(SignExtended(b))
  <2>11. Exec(i, f) = [f EXCEPT !.operands = Append(s, u)]
         /\ JvmExec(i, f) = [f EXCEPT !.operands = Append(s, v)]
    BY <2>1, <2>2
  <2>12. u \in Operand /\ v \in Operand /\ (u = v <=> ~Deviates(i, f))
    BY <2>3, <2>8, <2>9, <2>10
  <2> HIDE DEF s, u, v
  <2>13. [f EXCEPT !.operands = Append(s, u)] = [f EXCEPT !.operands = Append(s, v)] <=> u = v
    BY <1>1, <1>3, <2>12
  <2> QED
    BY <2>11, <2>12, <2>13, Zenon
<1>9. CASE i.op \in {"iadd", "isub", "imul"}
  <2>1. Exec(i, f) = [f EXCEPT !.operands =
               Append(DropTop(f, 2), IntValue(Arithmetic(i.op, Top(f).v, Below(f).v)))]
    BY <1>9 DEF Exec
  <2>2. CASE i.op = "iadd"
    BY <2>1, <2>2 DEF JvmExec, Arithmetic, Deviates
  <2>3. CASE i.op = "isub"
    BY <2>1, <2>3 DEF JvmExec, Arithmetic, Deviates
  <2>4. CASE i.op = "imul"
    BY <2>1, <2>4 DEF JvmExec, Arithmetic, Deviates
  <2> QED
    BY <1>9, <2>2, <2>3, <2>4
<1>10. CASE i.op = "if"
  <2>1. Exec(i, f) = [f EXCEPT !.operands = DropTop(f, 1),
                               !.jumped = Compare(Top(f).v, 0, i.cond)]
    BY <1>10 DEF Exec
  <2>2. JvmExec(i, f) = [f EXCEPT !.operands = DropTop(f, 1),
                                  !.jumped = JvmCompare(Top(f).v, 0, i.cond)]
    BY <1>10 DEF JvmExec
  <2>3. Compare(Top(f).v, 0, i.cond) = JvmCompare(Top(f).v, 0, i.cond)
    BY <1>2, <1>10, InstructionFacts, CompareFacts DEF Ready
  <2>4. ~Deviates(i, f)
    BY <1>10 DEF Deviates
  <2> QED
    BY <2>1, <2>2, <2>3, <2>4
<1>11. CASE i.op = "if_icmp"
  <2> DEFINE x == Top(f).v
             y == Below(f).v
  <2>1. Exec(i, f) = [f EXCEPT !.operands = DropTop(f, 2), !.jumped = Compare(x, y, i.cond)]
    BY <1>11 DEF Exec
  <2>2. JvmExec(i, f) = [f EXCEPT !.operands = DropTop(f, 2),
                                  !.jumped = JvmCompare(y, x, i.cond)]
    BY <1>11 DEF JvmExec
  <2>3. /\ x \in Int /\ y \in Int /\ DropTop(f, 2) \in Seq(Operand)
        /\ i.cond \in {"eq", "ne", "lt", "ge", "gt", "le"}
    BY <1>2, <1>11, InstructionFacts DEF Ready
  <2>4. Deviates(i, f) <=> i.cond \in {"lt", "ge", "gt", "le"} /\ x # y
    BY <1>11 DEF Deviates
  <2> HIDE DEF x, y
  <2>5. /\ Compare(x, y, i.cond) \in BOOLEAN /\ JvmCompare(y, x, i.cond) \in BOOLEAN
        /\ Compare(x, y, i.cond) = JvmCompare(y, x, i.cond)
             <=> i.cond \in {"eq", "ne"} \/ x = y
    BY <2>3, CompareFacts
  <2>6. ASSUME NEW a \in BOOLEAN, NEW b \in BOOLEAN
        PROVE  [f EXCEPT !.operands = DropTop(f, 2), !.jumped = a]
                 = [f EXCEPT !.operands = DropTop(f, 2), !.jumped = b] <=> a = b
    <3>1. /\ [f EXCEPT !.operands = DropTop(f, 2), !.jumped = a].jumped = a
          /\ [f EXCEPT !.operands = DropTop(f, 2), !.jumped = b].jumped = b
      BY <2>3 DEF FrameType
    <3> QED
      BY <3>1
  <2>7. Exec(i, f) = JvmExec(i, f) <=> Compare(x, y, i.cond) = JvmCompare(y, x, i.cond)
    BY <2>1, <2>2, <2>5, <2>6
  <2> QED
    BY <2>3, <2>4, <2>5, <2>7
<1>12. CASE i.op = "f2i"
  <2> DEFINE x == Top(f).v
  <2>1. Exec(i, f) = [f EXCEPT !.operands =
               Append(DropTop(f, 1), Value("int", FloatToInt(x, i.cast)))]
    BY <1>12 DEF Exec
  <2>2. JvmExec(i, f) = [f EXCEPT !.operands =
               Append(DropTop(f, 1), Value("int", JvmFloatToInt(x)))]
    BY <1>12 DEF JvmExec
  <2>3. x \in Int /\ DropTop(f, 1) \in Seq(Operand) /\ i.cast \in MinInt..MaxInt
    BY <1>2, <1>12, InstructionFacts DEF Ready
  <2>4. Deviates(i, f) <=> x \notin MinInt..MaxInt /\ i.cast # JvmFloatToInt(x)
    BY <1>12 DEF Deviates
  <2>5. MinInt \in Int /\ MaxInt \in Int /\ NaN \in Int /\ NaN > MaxInt
    BY WrapFacts, FramesAssumption DEF MinInt, MaxInt
  <2> HIDE DEF x, MinInt, MaxInt
  <2>6. x \in MinInt..MaxInt => JvmFloatToInt(x) = x
    BY <2>3, <2>5 DEF JvmFloatToInt
  <2>7. JvmFloatToInt(x) \in Int /\ FloatToInt(x, i.cast) \in Int
    BY <2>3, <2>5 DEF JvmFloatToInt, FloatToInt
  <2>8. FloatToInt(x, i.cast) = JvmFloatToInt(x) <=> ~Deviates(i, f)
    BY <2>4, <2>6 DEF FloatToInt
  <2>9. /\ Value("int", FloatToInt(x, i.cast)) \in Operand
        /\ Value("int", JvmFloatToInt(x)) \in Operand
    BY <2>7, ValuesAreTyped DEF OperandKind
  <2> DEFINE u == Value("int", FloatToInt(x, i.cast))
             v == Value("int", JvmFloatToInt(x))
             t == DropTop(f, 1)
  <2>10. Exec(i, f) = [f EXCEPT !.operands = Append(t, u)]
         /\ JvmExec(i, f) = [f EXCEPT !.operands = Append(t, v)]
    BY <2>1, <2>2
  <2>11. t \in Seq(Operand) /\ u \in Operand /\ v \in Operand
         /\ (u = v <=> ~Deviates(i, f))
    BY <1>5, <2>3, <2>8, <2>9
  <2> HIDE DEF t, u, v
  <2>12. [f EXCEPT !.operands = Append(t, u)] = [f EXCEPT !.operands = Append(t, v)] <=> u = v
    BY <1>3, <2>11
  <2> QED
    BY <2>10, <2>11, <2>12, Zenon
<1>13. CASE i.op = "fcmp"
  <2>1. Exec(i, f) = [f EXCEPT !.operands =
               Append(DropTop(f, 2), Value("int", FloatOrder(Below(f).v, Top(f).v)))]
    BY <1>13 DEF Exec
  <2>2. JvmExec(i, f) = [f EXCEPT !.operands =
               Append(DropTop(f, 2), Value("int", JvmFloatOrder(Below(f).v, Top(f).v, i.nan)))]
    BY <1>13 DEF JvmExec
  <2>3. Top(f).v \in Int /\ Below(f).v \in Int /\ NaN \notin {Top(f).v, Below(f).v}
    BY <1>2, <1>13 DEF Ready, Fails
  <2>4. FloatOrder(Below(f).v, Top(f).v) = JvmFloatOrder(Below(f).v, Top(f).v, i.nan)
    BY <2>3 DEF FloatOrder, JvmFloatOrder
  <2>5. ~Deviates(i, f)
    BY <1>13, <2>3 DEF Deviates
  <2> QED
    BY <2>1, <2>2, <2>4, <2>5
<1> QED
  BY <1>4, <1>6, <1>7, <1>8, <1>9, <1>10, <1>11, <1>12, <1>13

-----------------------------------------------------------------------------
(* Whole stacks of frames *)

LEMMA StackFacts ==
  ASSUME NEW S, NEW s \in Seq(S) \ {<<>>}
  PROVE  /\ Len(s) \in Nat \ {0} /\ Last(s) \in S /\ s[Len(s)] = Last(s)
         /\ \A x \in S : /\ [s EXCEPT ![Len(s)] = x] \in Seq(S) \ {<<>>}
                         /\ Append(s, x) \in Seq(S) \ {<<>>}
         /\ Len(s) > 1 => /\ Front(s) \in Seq(S) \ {<<>>}
                          /\ Len(Front(s)) = Len(s) - 1
<1>1. Len(s) \in Nat \ {0} /\ Last(s) \in S /\ s[Len(s)] = Last(s)
  BY DEF Last
<1>2. \A x \in S : /\ [s EXCEPT ![Len(s)] = x] \in Seq(S) \ {<<>>}
                   /\ Append(s, x) \in Seq(S) \ {<<>>}
  OBVIOUS
<1>3. Len(s) > 1 => Front(s) \in Seq(S) \ {<<>>} /\ Len(Front(s)) = Len(s) - 1
  <2> DEFINE k == Len(s) - 1
  <2> SUFFICES ASSUME Len(s) > 1
               PROVE  Front(s) \in Seq(S) \ {<<>>} /\ Len(Front(s)) = k
    OBVIOUS
  <2>1. k \in 1..Len(s)
    BY <1>1
  <2> HIDE DEF k
  <2>2. SubSeq(s, 1, k) \in Seq(S) /\ Len(SubSeq(s, 1, k)) = k
    BY <2>1
  <2>3. Len(<<>>) = 0
    OBVIOUS
  <2>4. Front(s) = SubSeq(s, 1, k)
    BY DEF Front, k
  <2> QED
    BY <2>1, <2>2, <2>3, <2>4
<1> QED
  BY <1>1, <1>2, <1>3

LEMMA EmptyLocalsTyped ==
  ASSUME NEW sig \in Signature
  PROVE  /\ DOMAIN EmptyLocals(sig) = 0..(MaxLocals(sig) - 1)
         /\ EmptyLocals(sig) \in [DOMAIN EmptyLocals(sig) -> LocalValue]
         /\ MaxLocals(sig) \in Nat
<1>1. MaxLocals(sig) \in Nat
  BY SignatureFacts
<1> QED
  BY <1>1, ValuesAreTyped DEF EmptyLocals

LEMMA NewFrame ==
  ASSUME NEW sig \in Signatures \cup {Entry},
         NEW locals \in [DOMAIN EmptyLocals(sig) -> LocalValue]
  PROVE  Frame(sig, locals) \in SizedFrame
<1>1. sig \in Signature
  BY FramesAssumption
<1>2. locals \in AnyLocals
  <2>1. DOMAIN EmptyLocals(sig) = 0..(MaxLocals(sig) - 1) /\ MaxLocals(sig) \in Nat
    BY <1>1, EmptyLocalsTyped
  <2> QED
    BY <2>1 DEF AnyLocals
<1>3. <<>> \in Seq(Operand)
  OBVIOUS
<1>4. Frame(sig, locals) \in FrameType
  BY <1>2, <1>3 DEF Frame, FrameType
<1>5. Frame(sig, locals).sig = sig /\ Frame(sig, locals).locals = locals
  BY DEF Frame
<1> QED
  BY <1>4, <1>5 DEF SizedFrame

\* pushNewFrame reads no operand below the bottom and fills the locals there are.
LEMMA CopyTyped ==
  ASSUME NEW sig \in Signature, NEW operands \in Seq(Operand)
  PROVE  /\ CopyParameters(sig, operands).locals \in [DOMAIN EmptyLocals(sig) -> LocalValue]
         /\ CopyParameters(sig, operands).rest \in Seq(Operand)
<1> DEFINE params == sig.params
           count == CountMethodStack(params)
           N == Len(count)
           L == Len(operands)
           D == DOMAIN EmptyLocals(sig)
           last == CHOOSE j \in LastTurns(count) : \A k \in LastTurns(count) : k <= j
           taken == N - last + 1
           mine == [i \in D |->
                      IF \E j \in last..N : Slot(count, j) = i
                      THEN LET j == CHOOSE j \in last..N : Slot(count, j) = i
                           IN  operands[L - (N - j)]
                      ELSE Unset]
           broken == \/ LastTurns(count) = {}
                     \/ \E j \in last..N : Slot(count, j) >= MaxLocals(sig)
                     \/ taken > L
           copied == CopyParameters(sig, operands)
<1>1. copied = IF broken
               THEN [outcome |-> "undefined", locals |-> EmptyLocals(sig), rest |-> <<>>]
               ELSE [outcome |-> "running", locals |-> mine,
                     rest |-> SubSeq(operands, 1, L - taken)]
  BY DEF CopyParameters
<1>2. count \in Seq(Characters) /\ N \in Nat /\ L \in Nat
  BY SignatureFacts, CountFacts
<1>3. CASE broken
  <2>1. copied.locals = EmptyLocals(sig) /\ copied.rest = <<>>
    <3> HIDE DEF broken, mine, taken
    <3> QED
      BY <1>1, <1>3
  <2> QED
    BY <2>1, EmptyLocalsTyped
<1>4. CASE ~broken
  <2>1. copied.locals = mine /\ copied.rest = SubSeq(operands, 1, L - taken)
    <3> HIDE DEF broken, mine, taken, copied, L
    <3> QED
      BY <1>1, <1>4
  <2>2. LastTurns(count) # {} /\ ~(taken > L)
    BY <1>4
  <2>3. last \in 0..N
    <3>1. PICK j \in LastTurns(count) : TRUE
      BY <2>2
    <3>2. j \in 0..N /\ Slot(count, j) = 0
      BY DEF LastTurns
    <3>3. last = j
      <4> HIDE DEF count
      <4> QED
        BY <1>2, <3>2, OneLastTurn
    <3> QED
      BY <3>2, <3>3
  <2>4. \A j \in last..N : L - (N - j) \in 1..L
    <3> HIDE DEF last, N, L
    <3> QED
      BY <1>2, <2>2, <2>3 DEF taken
  <2>5. L - taken \in 0..L
    <3> HIDE DEF last, N, L
    <3> QED
      BY <1>2, <2>2, <2>3 DEF taken
  <2>6. \A x \in 1..L : operands[x] \in LocalValue
    BY ValuesAreTyped
  <2>7. mine \in [D -> LocalValue]
    <3>1. ASSUME NEW i \in D
          PROVE  mine[i] \in LocalValue
      <4>1. CASE \E j \in last..N : Slot(count, j) = i
        <5> DEFINE m == CHOOSE j \in last..N : Slot(count, j) = i
        <5>1. m \in last..N
          BY <4>1
        <5>2. mine[i] = operands[L - (N - m)]
          BY <4>1
        <5> HIDE DEF m, mine, last, N, L
        <5> QED
          BY <2>4, <2>6, <5>1, <5>2
      <4>2. CASE ~(\E j \in last..N : Slot(count, j) = i)
        <5>1. mine[i] = Unset
          BY <4>2
        <5> QED
          BY <5>1, ValuesAreTyped
      <4> QED
        BY <4>1, <4>2
    <3>2. mine = [i \in D |-> mine[i]]
      OBVIOUS
    <3> HIDE DEF mine, D
    <3> QED
      BY <3>1, <3>2
  <2>8. SubSeq(operands, 1, L - taken) \in Seq(Operand)
    <3> DEFINE x == L - taken
    <3>1. x \in 0..L
      BY <2>5
    <3> HIDE DEF x
    <3>2. SubSeq(operands, 1, x) \in Seq(Operand)
      BY <3>1
    <3> QED
      BY <3>2 DEF x
  <2> QED
    BY <2>1, <2>7, <2>8
<1> QED
  BY <1>3, <1>4

LEMMA InitFramesOK == Init => FramesOK
<1> SUFFICES ASSUME Init PROVE FramesOK
  OBVIOUS
<1>1. Entry \in Signature
  BY FramesAssumption
<1>2. Frame(Entry, EmptyLocals(Entry)) \in SizedFrame
  BY <1>1, EmptyLocalsTyped, NewFrame
<1> QED
  BY <1>2 DEF Init, FramesOK

LEMMA NextFramesOK ==
  ASSUME FramesOK, [Next]_vars
  PROVE  FramesOK'
<1> DEFINE f == Current
           g == [f EXCEPT !.jumped = FALSE]
           m == Len(frames)
<1>1. /\ m \in Nat \ {0} /\ f \in SizedFrame /\ frames[m] = f
      /\ \A x \in SizedFrame : /\ [frames EXCEPT ![m] = x] \in Seq(SizedFrame) \ {<<>>}
                               /\ Append(frames, x) \in Seq(SizedFrame) \ {<<>>}
      /\ m > 1 => Front(frames) \in Seq(SizedFrame) \ {<<>>} /\ Len(Front(frames)) = m - 1
  BY StackFacts DEF FramesOK, Current
<1>2. /\ f \in FrameType /\ f.operands \in Seq(Operand)
      /\ DOMAIN f.locals = DOMAIN EmptyLocals(f.sig)
  BY <1>1 DEF SizedFrame, FrameType
<1>3. /\ g \in FrameType /\ g.operands = f.operands /\ g.locals = f.locals /\ g.sig = f.sig
      /\ g \in SizedFrame
  BY <1>2 DEF FrameType, SizedFrame
<1>4. ASSUME NEW i \in Instructions, Execute(i)
      PROVE  FramesOK'
  <2>1. Ready(i, g) /\ ~Fails(i, g)
    <3>1. Ready(i, f) /\ ~Fails(i, f)
      BY <1>2, <1>4, AllowedFacts DEF Execute
    <3> HIDE DEF f, g
    <3> QED
      BY <1>3, <3>1 DEF Ready, Fails, Top, Below
  <2>2. Exec(i, g) \in SizedFrame
    <3>1. /\ Exec(i, g) \in FrameType /\ Exec(i, g).sig = g.sig
          /\ DOMAIN Exec(i, g).locals = DOMAIN g.locals
      BY <1>3, <2>1, ExecTyped
    <3> QED
      BY <1>2, <1>3, <3>1 DEF SizedFrame
  <2>3. frames' = [frames EXCEPT ![m] = Exec(i, g)]
    BY <1>4 DEF Execute
  <2> QED
    BY <1>1, <2>2, <2>3 DEF FramesOK
<1>5. ASSUME NEW sig \in Signatures, Invoke(sig)
      PROVE  FramesOK'
  <2> DEFINE copied == CopyParameters(sig, f.operands)
             h == [f EXCEPT !.operands = copied.rest, !.jumped = FALSE]
  <2>1. sig \in Signature
    BY FramesAssumption
  <2>2. /\ copied.locals \in [DOMAIN EmptyLocals(sig) -> LocalValue]
        /\ copied.rest \in Seq(Operand)
    BY <1>2, <2>1, CopyTyped
  <2>3. frames' = Append([frames EXCEPT ![m] = h], Frame(sig, copied.locals))
    BY <1>1, <1>5 DEF Invoke
  <2> HIDE DEF copied
  <2>4. h \in SizedFrame
    BY <1>2, <2>2 DEF SizedFrame, FrameType
  <2>5. Frame(sig, copied.locals) \in SizedFrame
    BY <2>2, NewFrame
  <2>6. [frames EXCEPT ![m] = h] \in Seq(SizedFrame) \ {<<>>}
    BY <1>1, <2>4
  <2> HIDE DEF h
  <2> QED
    BY <2>3, <2>5, <2>6, StackFacts DEF FramesOK
<1>6. ASSUME NEW sig \in Signatures, InvokeStatic(sig)
      PROVE  FramesOK'
  <2>1. frames' = [frames EXCEPT ![m] = g]
    BY <1>1, <1>6 DEF InvokeStatic
  <2> QED
    BY <1>1, <1>3, <2>1 DEF FramesOK
<1>7. CASE Return
  <2>1. CASE frames' = Front(frames)
    BY <1>1, <1>7, <2>1 DEF Return, FramesOK
  <2>2. CASE /\ Fits(f, <<f.sig.result>>)
             /\ frames' = [Front(frames) EXCEPT ![m - 1].operands = Append(@, Top(f))]
    <3> DEFINE c == Front(frames)[m - 1]
               d == [c EXCEPT !.operands = Append(c.operands, Top(f))]
    <3>1. m > 1 /\ Front(frames) \in Seq(SizedFrame) \ {<<>>} /\ Len(Front(frames)) = m - 1
      BY <1>1, <1>7 DEF Return
    <3>2. c \in SizedFrame
      BY <3>1, StackFacts
    <3>3. Top(f) \in Operand
      <4>1. Len(f.operands) >= 1
        BY <1>2, <2>2 DEF Fits
      <4> QED
        BY <1>2, <4>1, OperandFacts
    <3>4. d \in SizedFrame
      <4> HIDE DEF c
      <4>1. Append(c.operands, Top(f)) \in Seq(Operand)
        BY <3>2, <3>3 DEF SizedFrame, FrameType
      <4> QED
        BY <3>2, <4>1 DEF SizedFrame, FrameType
    <3>5. frames' = [Front(frames) EXCEPT ![m - 1] = d]
      <4> DEFINE u == Front(frames)
      <4>1. frames' = [u EXCEPT ![m - 1].operands = Append(@, Top(f))]
        BY <2>2
      <4> HIDE DEF u, m, f
      <4>2. frames' = [u EXCEPT ![m - 1] = [u[m - 1] EXCEPT !.operands =
                                              Append(u[m - 1].operands, Top(f))]]
        BY <4>1
      <4> QED
        BY <4>2 DEF u
    <3> HIDE DEF d
    <3> QED
      BY <3>1, <3>4, <3>5, StackFacts DEF FramesOK
  <2> QED
    BY <1>7, <2>1, <2>2 DEF Return
<1>8. CASE UNCHANGED frames
  BY <1>8 DEF FramesOK
<1> QED
  BY <1>4, <1>5, <1>6, <1>7, <1>8 DEF Next, ExecuteFails, Abort, ReturnRefFails, vars

-----------------------------------------------------------------------------
(* Both machines *)

LEMMA PutOnStack ==
  ASSUME NEW S, NEW s \in Seq(S) \ {<<>>}, NEW x, NEW y
  PROVE  /\ Len([s EXCEPT ![Len(s)] = x]) = Len(s)
         /\ Len(Append([s EXCEPT ![Len(s)] = x], y)) = Len(s) + 1
         /\ Append([s EXCEPT ![Len(s)] = x], y)[Len(s)] = x
         /\ Append([s EXCEPT ![Len(s)] = x], y)[Len(s) + 1] = y
<1> DEFINE T == S \cup {x, y}
           m == Len(s)
           t == [s EXCEPT ![m] = x]
<1>1. s \in Seq(T) /\ x \in T /\ y \in T /\ m \in Nat \ {0}
  OBVIOUS
<1> HIDE DEF T, m
<1>2. t \in Seq(T) /\ Len(t) = m /\ t[m] = x
  BY <1>1 DEF m
<1> HIDE DEF t
<1>3. /\ Len(Append(t, y)) = m + 1
      /\ Append(t, y)[m] = x /\ Append(t, y)[m + 1] = y
  BY <1>1, <1>2
<1> QED
  BY <1>2, <1>3 DEF t, m

LEMMA InstructionStepAgrees ==
  ASSUME FramesOK, Agree, NEW i \in Instructions,
         Execute(i) \/ ExecuteFails(i),
         jvm' = [jvm EXCEPT ![Len(jvm)] = JvmExec(i, [@ EXCEPT !.jumped = FALSE])]
  PROVE  Agree' <=> ~Deviates(i, Current)
<1> DEFINE f == Current
           g == [f EXCEPT !.jumped = FALSE]
           m == Len(frames)
<1>1. /\ m \in Nat \ {0} /\ f \in SizedFrame /\ frames[m] = f /\ jvm = frames
      /\ outcome = "running" /\ DOMAIN frames = 1..m
  BY StackFacts DEF FramesOK, Current, Agree
<1>2. f \in FrameType /\ g \in FrameType /\ g.operands = f.operands /\ g.locals = f.locals
  BY <1>1 DEF FrameType, SizedFrame
<1>3. Ready(i, f)
  BY <1>2, AllowedFacts DEF Execute, ExecuteFails
<1>4. CASE Execute(i)
  <2>1. ~Fails(i, f) /\ frames' = [frames EXCEPT ![m] = Exec(i, g)] /\ outcome' = "running"
    BY <1>1, <1>4 DEF Execute
  <2>2. jvm' = [frames EXCEPT ![m] = JvmExec(i, g)]
    BY <1>1
  <2>3. Ready(i, g) /\ ~Fails(i, g) /\ (Deviates(i, g) <=> Deviates(i, f))
    <3> HIDE DEF f, g
    <3> QED
      BY <1>2, <1>3, <2>1 DEF Ready, Fails, Deviates, Top, Below
  <2>4. Exec(i, g) = JvmExec(i, g) <=> ~Deviates(i, f)
    BY <1>2, <2>3, ExecAgrees
  <2>5. frames' = jvm' <=> Exec(i, g) = JvmExec(i, g)
    <3> DEFINE x == Exec(i, g)
               y == JvmExec(i, g)
    <3>1. frames' = [frames EXCEPT ![m] = x] /\ jvm' = [frames EXCEPT ![m] = y]
      BY <2>1, <2>2
    <3>2. m \in DOMAIN frames
      BY <1>1
    <3> HIDE DEF x, y, m
    <3>3. [frames EXCEPT ![m] = x][m] = x /\ [frames EXCEPT ![m] = y][m] = y
      BY <3>2
    <3> QED
      BY <3>1, <3>3 DEF x, y
  <2> QED
    BY <2>1, <2>4, <2>5 DEF Agree
<1>5. CASE ExecuteFails(i)
  <2>1. outcome' = "aborted" /\ Fails(i, f)
    BY <1>5 DEF ExecuteFails, Abort
  <2>2. Deviates(i, f)
    <3>1. i.op \in {"load", "store"} => i.index \in Nat /\ ShortForms \in Nat
      BY InstructionFacts, FramesAssumption
    <3>2. i.op \in {"load", "store"} =>
            (i.index >= ShortForms => i.index \notin 0..(ShortForms - 1))
      BY <3>1
    <3> HIDE DEF f
    <3> QED
      BY <2>1, <3>2 DEF Fails, Deviates
  <2> QED
    BY <2>1, <2>2 DEF Agree
<1> QED
  BY <1>4, <1>5

LEMMA CallStepAgrees ==
  ASSUME FramesOK, Agree, NEW sig \in Signatures, NEW target \in Targets(sig, Current),
         Invoke(sig) \/ InvokeStatic(sig), jvm' \in JvmCalls(sig, target, jvm)
  PROVE  /\ CallOutcome(sig, target, Current) = "agree" => Agree'
         /\ CallOutcome(sig, target, Current) = "differ" => ~Agree'
<1> DEFINE f == Current
           answer == CallOutcome(sig, target, f)
           null == CalledOnNull(sig, f)
           given == SubSeq(f.operands, Len(f.operands) - Len(ArgumentKinds(sig)) + 1,
                           Len(f.operands))
           dropped == [f EXCEPT !.operands = DropTop(f, Len(ArgumentKinds(sig))),
                                !.jumped = FALSE]
           after == [frames EXCEPT ![Len(frames)] = dropped]
           m == Len(frames)
           n == Len(sig.params)
           L == Len(f.operands)
           arguments == Arguments(sig, f.operands)
           rest == Remaining(sig, f.operands)
           copied == CopyParameters(sig, f.operands)
<1>1. /\ m \in Nat \ {0} /\ f \in SizedFrame /\ frames[m] = f /\ Last(frames) = f
      /\ jvm = frames /\ outcome = "running" /\ DOMAIN frames = 1..m
      /\ frames \in Seq(SizedFrame) \ {<<>>}
  BY StackFacts DEF FramesOK, Current, Agree
<1>2. f \in FrameType /\ f.operands \in Seq(Operand) /\ L \in Nat
  BY <1>1 DEF FrameType, SizedFrame
<1>3. /\ sig \in Signature /\ sig.static \in BOOLEAN /\ sig.native \in BOOLEAN
      /\ sig.params \in Seq(ParameterType) /\ n \in Nat
  BY FramesAssumption, SignatureFacts
<1>4. ASSUME NEW u, NEW v
      PROVE  /\ Append([frames EXCEPT ![m] = u], v)[m] = u
             /\ Append([frames EXCEPT ![m] = u], v)[m + 1] = v
  <2>1. frames \in Seq(SizedFrame) \ {<<>>}
    BY <1>1
  <2> HIDE DEF m
  <2>2. /\ Append([frames EXCEPT ![Len(frames)] = u], v)[Len(frames)] = u
        /\ Append([frames EXCEPT ![Len(frames)] = u], v)[Len(frames) + 1] = v
    BY <2>1, PutOnStack
  <2> QED
    BY <2>2, Zenon DEF m
<1>5. /\ null => jvm' = Thrown
      /\ ~null /\ target.native => Len(jvm') \in {0, m}
      /\ ~null /\ ~target.native => jvm' = Append(after, Frame(target, JvmLocals(target, given)))
  <2> DEFINE k == Len(ArgumentKinds(sig))
             s == [frames EXCEPT ![m].operands = DropTop(f, k), ![m].jumped = FALSE]
  <2>1. JvmCalls(sig, target, jvm) =
          IF null THEN {Thrown}
          ELSE IF target.native
          THEN {Thrown} \cup {[s EXCEPT ![m].operands = @ \o result] :
                                result \in NativeResults(target)}
          ELSE {Append(s, Frame(target, JvmLocals(target, given)))}
    <3> DEFINE c == Last(frames)
               args == SubSeq(c.operands, Len(c.operands) - k + 1, Len(c.operands))
               r == [frames EXCEPT ![m].operands = DropTop(c, k), ![m].jumped = FALSE]
    <3>1. JvmCalls(sig, target, frames) =
            IF CalledOnNull(sig, c) THEN {Thrown}
            ELSE IF target.native
            THEN {Thrown} \cup {[r EXCEPT ![m].operands = @ \o result] :
                                  result \in NativeResults(target)}
            ELSE {Append(r, Frame(target, JvmLocals(target, args)))}
      BY Zenon DEF JvmCalls
    <3>2. c = f /\ jvm = frames
      BY <1>1
    <3> HIDE DEF c, f, k, m
    <3>3. r = s /\ args = given /\ CalledOnNull(sig, c) = null
      BY <3>2 DEF k
    <3> HIDE DEF r, s, args, given, null
    <3> QED
      BY <3>1, <3>2, <3>3, Zenon
  <2>2. s = after
    <3> HIDE DEF f, m, k
    <3>1. s = [frames EXCEPT ![m] = [[f EXCEPT !.operands = DropTop(f, k)]
                                        EXCEPT !.jumped = FALSE]]
      BY <1>1
    <3> QED
      BY <3>1 DEF m, k
  <2>3. ASSUME NEW result
        PROVE  Len([s EXCEPT ![m].operands = @ \o result]) = m
    <3>1. DOMAIN [s EXCEPT ![m].operands = @ \o result] = 1..m
      <4> HIDE DEF f, k
      <4> QED
        BY <1>1
    <3> QED
      BY <1>1, <3>1
  <2>4. Len(Thrown) = 0
    BY DEF Thrown
  <2> HIDE DEF s, f, m, null, given, after
  <2> QED
    BY <2>1, <2>2, <2>3, <2>4
<1>6. CASE InvokeStatic(sig)
  <2>1. sig.static /\ ~null /\ target = sig
    BY <1>6 DEF InvokeStatic, CalledOnNull, Targets
  <2>2. CASE sig.native
    BY <2>1, <2>2 DEF CallOutcome
  <2>3. CASE ~sig.native
    <3>1. Len(frames') = m
      <4>1. frames' = [frames EXCEPT ![m].jumped = FALSE]
        BY <1>6 DEF InvokeStatic
      <4> QED
        BY <1>1, <4>1
    <3>2. Len(jvm') = m + 1
      <4> DEFINE x == Frame(target, JvmLocals(target, given))
      <4>1. jvm' = Append(after, x)
        BY <1>5, <2>1, <2>3
      <4> HIDE DEF x, dropped
      <4> QED
        BY <1>1, <4>1, PutOnStack
    <3>3. answer = "differ"
      BY <2>1, <2>3 DEF CallOutcome
    <3> QED
      BY <1>1, <3>1, <3>2, <3>3 DEF Agree
  <2> QED
    BY <1>3, <2>2, <2>3
<1>7. CASE Invoke(sig)
  <2>1. ~sig.static /\ Len(ArgumentKinds(sig)) = n + 1 /\ L > n
    <3>1. ~sig.static
      BY <1>7 DEF Invoke
    <3>2. ArgumentKinds(sig) = <<"ref">> \o [k \in 1..n |-> KindOf(sig.params[k])]
      BY <1>3, <3>1 DEF ArgumentKinds
    <3>3. Len(ArgumentKinds(sig)) = n + 1
      <4> DEFINE t == [k \in 1..n |-> KindOf(sig.params[k])]
      <4>1. t \in Seq({t[k] : k \in 1..n}) /\ Len(t) = n
        BY <1>3
      <4>2. Len(<<"ref">>) = 1
        OBVIOUS
      <4> HIDE DEF t
      <4> QED
        BY <1>3, <3>2, <4>1, <4>2 DEF t
    <3>4. L >= Len(ArgumentKinds(sig))
      BY <1>7 DEF Invoke, Fits
    <3> HIDE DEF n, L
    <3> QED
      BY <1>2, <1>3, <3>1, <3>3, <3>4
  <2> DEFINE h == [f EXCEPT !.operands = copied.rest, !.jumped = FALSE]
             j == [f EXCEPT !.operands = rest, !.jumped = FALSE]
             x == Frame(sig, copied.locals)
             y == Frame(sig, JvmLocals(sig, arguments))
  <2>2. frames' = Append([frames EXCEPT ![m] = h], x) /\ outcome' = copied.outcome
    BY <1>1, <1>7 DEF Invoke
  <2>3. Len(frames') = m + 1
    <3> HIDE DEF h, x
    <3> QED
      BY <1>1, <2>2, PutOnStack
  <2>4. CASE null \/ target.native
    <3>1. answer # "agree"
      BY <2>1, <2>4 DEF CallOutcome
    <3>2. Len(jvm') \in {0, m}
      BY <1>5, <2>4 DEF Thrown
    <3>3. ~Agree'
      BY <1>1, <2>3, <3>2 DEF Agree
    <3> QED
      BY <3>1, <3>3
  <2>5. CASE ~null /\ ~target.native /\ target # sig
    <3>1. answer = "differ"
      BY <2>1, <2>5 DEF CallOutcome
    <3> DEFINE z == Frame(target, JvmLocals(target, given))
    <3>2. jvm' = Append(after, z) /\ z.sig = target /\ x.sig = sig
      BY <1>5, <2>5 DEF Frame
    <3> HIDE DEF z, x, h, dropped
    <3>3. jvm'[m + 1] = z /\ frames'[m + 1] = x
      <4> HIDE DEF m, after
      <4>1. jvm' = Append([frames EXCEPT ![m] = dropped], z)
        BY <3>2, Zenon DEF after, m
      <4>2. frames' = Append([frames EXCEPT ![m] = h], x)
        BY <2>2
      <4> QED
        BY <1>4, <4>1, <4>2
    <3> QED
      BY <2>5, <3>1, <3>2, <3>3 DEF Agree
  <2>6. CASE ~null /\ ~target.native /\ target = sig
    <3>1. jvm' = Append([frames EXCEPT ![m] = j], y)
      <4>1. DropTop(f, n + 1) = rest
        <5>1. L - (n + 1) = L - n - 1
          <6> HIDE DEF L, n
          <6> QED
            BY <1>2, <1>3
        <5> QED
          BY <5>1 DEF DropTop, Remaining
      <4>2. given = arguments
        <5>1. L - (n + 1) + 1 = L - n
          <6> HIDE DEF L, n
          <6> QED
            BY <1>2, <1>3
        <5> QED
          BY <2>1, <5>1 DEF Arguments
      <4>3. dropped = j
        BY <2>1, <4>1
      <4> HIDE DEF dropped, j, given, arguments, f
      <4> QED
        BY <1>5, <2>6, <4>2, <4>3
    <3>2. frames' = jvm' <=> h = j /\ x = y
      <4> DEFINE s == Append([frames EXCEPT ![m] = h], x)
                 t == Append([frames EXCEPT ![m] = j], y)
      <4> HIDE DEF h, j, x, y, f
      <4>1. s[m] = h /\ s[m + 1] = x /\ t[m] = j /\ t[m + 1] = y
        <5> HIDE DEF m
        <5> QED
          BY <1>4
      <4>2. h = j /\ x = y => s = t
        OBVIOUS
      <4> HIDE DEF s, t
      <4> QED
        BY <2>2, <3>1, <4>1, <4>2 DEF s, t
    <3>3. h = j <=> copied.rest = rest
      <4>1. h.operands = copied.rest /\ j.operands = rest
        <5> HIDE DEF f, copied, rest
        <5> QED
          BY <1>2 DEF FrameType
      <4> HIDE DEF copied, rest, f
      <4> QED
        BY <4>1
    <3>4. x = y <=> copied.locals = JvmLocals(sig, arguments)
      <4> HIDE DEF copied, arguments
      <4> QED
        BY DEF Frame
    <3>5. Agree' <=> /\ copied.outcome = "running"
                     /\ copied.locals = JvmLocals(sig, arguments) /\ copied.rest = rest
      <4> HIDE DEF h, j, x, y, copied, rest, arguments
      <4> QED
        BY <2>2, <3>2, <3>3, <3>4 DEF Agree
    <3>6. CASE Misplaced(sig) = {}
      <4>1. copied = [outcome |-> "running", locals |-> JvmLocals(sig, arguments), rest |-> rest]
        BY <1>2, <1>3, <2>1, <2>6, <3>6, PlainCallsAgree
      <4> HIDE DEF copied
      <4>2. /\ copied.outcome = "running" /\ copied.locals = JvmLocals(sig, arguments)
            /\ copied.rest = rest
        BY <4>1
      <4>3. answer = "agree"
        BY <2>1, <2>6, <3>6 DEF CallOutcome
      <4> QED
        BY <3>5, <4>2, <4>3
    <3>7. CASE Misplaced(sig) = {"L", "J", "[J"}
      <4>1. {"L", "J", "[J"} # {}
        OBVIOUS
      <4>2. answer = "either"
        BY <2>1, <2>6, <3>7, <4>1 DEF CallOutcome
      <4> QED
        BY <4>2
    <3>8. CASE Misplaced(sig) \notin {{}, {"L", "J", "[J"}}
      <4>1. ~ /\ copied.outcome = "running"
              /\ copied.locals = JvmLocals(sig, arguments)
              /\ copied.rest = rest
        BY <1>2, <1>3, <2>1, <2>6, <3>8, MisplacedCallsDiffer
      <4>2. answer = "differ"
        BY <2>1, <2>6, <3>8 DEF CallOutcome
      <4> QED
        BY <3>5, <4>1, <4>2
    <3> QED
      BY <3>6, <3>7, <3>8
  <2> QED
    BY <2>4, <2>5, <2>6
<1> QED
  BY <1>6, <1>7

LEMMA ReturnStepAgrees ==
  ASSUME FramesOK, Agree, Return \/ ReturnRefFails, jvm' = JvmReturn(jvm)
  PROVE  Agree' <=> Current.sig.result # "ref"
<1>1. jvm = frames /\ outcome = "running" /\ Current = Last(frames)
  BY DEF Agree, Current
<1>2. CASE Return
  <2>1. outcome' = "running" /\ Current.sig.result # "ref"
    BY <1>1, <1>2 DEF Return
  <2>2. CASE Current.sig.result = "void"
    BY <1>1, <1>2, <2>1, <2>2 DEF Return, JvmReturn, Agree
  <2>3. CASE Current.sig.result # "void"
    <3>1. frames' = [Front(frames) EXCEPT ![Len(frames) - 1].operands = Append(@, Top(Current))]
      BY <1>2, <2>3 DEF Return
    <3>2. jvm' = [Front(frames) EXCEPT ![Len(frames) - 1].operands = Append(@, Top(Current))]
      BY <1>1, <2>3 DEF JvmReturn
    <3> QED
      BY <2>1, <3>1, <3>2 DEF Agree
  <2> QED
    BY <2>2, <2>3
<1>3. CASE ReturnRefFails
  BY <1>3 DEF ReturnRefFails, Abort, Agree
<1> QED
  BY <1>2, <1>3

\* pushNewFrame, the opcodes and methodSDone, in any program: every frame on the stack
\* has its method's locals, and every operand is a value that somebody wrote.
THEOREM FramesStayWellFormed == Spec => []FramesOK
<1>1. FramesOK /\ [Next]_vars => FramesOK'
  BY NextFramesOK
<1> QED
  BY InitFramesOK, <1>1, PTL DEF Spec

LEMMA BothNext ==
  ASSUME FramesOK, RunsLikeTheJvm, [MCNext]_mcvars
  PROVE  FramesOK' /\ RunsLikeTheJvm'
<1>1. CASE UNCHANGED mcvars
  BY <1>1 DEF mcvars, FramesOK, RunsLikeTheJvm, Agree
<1>2. CASE MCNext
  <2>1. Next /\ Agree
    BY <1>2 DEF MCNext, Next
  <2>2. FramesOK'
    BY <2>1, NextFramesOK
  <2>3. ASSUME NEW i \in Instructions,
               Execute(i) \/ ExecuteFails(i),
               jvm' = [jvm EXCEPT ![Len(jvm)] = JvmExec(i, [@ EXCEPT !.jumped = FALSE])],
               expected' = IF Deviates(i, Current) THEN "differ" ELSE "agree"
        PROVE  RunsLikeTheJvm'
    <3>1. Agree' <=> ~Deviates(i, Current)
      BY <2>1, <2>3, InstructionStepAgrees
    <3> QED
      BY <2>3, <3>1 DEF RunsLikeTheJvm
  <2>4. ASSUME NEW sig \in Signatures, NEW target \in Targets(sig, Current),
               Invoke(sig) \/ InvokeStatic(sig), jvm' \in JvmCalls(sig, target, jvm),
               expected' = CallOutcome(sig, target, Current)
        PROVE  RunsLikeTheJvm'
    <3>1. /\ CallOutcome(sig, target, Current) = "agree" => Agree'
          /\ CallOutcome(sig, target, Current) = "differ" => ~Agree'
      BY <2>1, <2>4, CallStepAgrees
    <3> QED
      BY <2>4, <3>1 DEF RunsLikeTheJvm
  <2>5. ASSUME Return \/ ReturnRefFails, jvm' = JvmReturn(jvm),
               expected' = IF Current.sig.result = "ref" THEN "differ" ELSE "agree"
        PROVE  RunsLikeTheJvm'
    <3>1. Agree' <=> Current.sig.result # "ref"
      BY <2>1, <2>5, ReturnStepAgrees
    <3> QED
      BY <2>5, <3>1 DEF RunsLikeTheJvm
  <2>6. RunsLikeTheJvm'
    BY <1>2, <2>3, <2>4, <2>5 DEF MCNext
  <2> QED
    BY <2>2, <2>6
<1> QED
  BY <1>1, <1>2

\* The opcodes, pushNewFrame and methodSDone beside the specification, with its null
\* check and its choice of the method by the receiver's class, for any set of methods,
\* any program and any widths: the frames are the same after every step the list of
\* Deviates and CallOutcome leaves out, and differ after every step it names.
THEOREM FramesRunLikeTheJvm == MCSpec => []RunsLikeTheJvm
<1>1. MCInit => FramesOK /\ RunsLikeTheJvm
  <2>1. MCInit => RunsLikeTheJvm
    BY DEF MCInit, Init, RunsLikeTheJvm, Agree
  <2> QED
    BY <2>1, InitFramesOK DEF MCInit
<1>2. FramesOK /\ RunsLikeTheJvm /\ [MCNext]_mcvars => FramesOK' /\ RunsLikeTheJvm'
  BY BothNext
<1> QED
  BY <1>1, <1>2, PTL DEF MCSpec
=============================================================================

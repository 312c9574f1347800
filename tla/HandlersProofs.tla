--------------------------- MODULE HandlersProofs ---------------------------
(***************************************************************************)
(* The search for a handler, over the class heap and over fixed sets of    *)
(* ancestors, for every exception table and on every disk without a cycle  *)
(* of superclasses.  Both searches are recursive functions over the        *)
(* entries; they are compared turn by turn.                                *)
(***************************************************************************)
EXTENDS Handlers, ClassesProofs

-----------------------------------------------------------------------------
(* The search over a fixed set of ancestors *)

Finding == [pc : Nat, outcome : {"missed", "caught", "escaped", "aborted"}]

LEMMA EntryFacts ==
  ASSUME NEW e \in TableEntry(Names)
  PROVE  /\ e.start_pc \in Nat /\ e.end_pc \in Nat /\ e.handler_pc \in Nat
         /\ e.catch_type \in Names \cup {AnyType}
BY DEF TableEntry

LEMMA FoundFacts ==
  ASSUME NEW f \in Finding
  PROVE  /\ f = [pc |-> f.pc, outcome |-> f.outcome]
         /\ f.pc \in Nat /\ f.outcome \in {"missed", "caught", "escaped", "aborted"}
BY DEF Finding

\* One turn by its cases.
LEMMA TurnFacts ==
  ASSUME NEW f \in Finding, NEW e \in TableEntry(Names), NEW A
  PROVE  /\ TryEntry(f, e, A) \in Finding
         /\ f.outcome \in {"aborted", "escaped"} => TryEntry(f, e, A) = f
         /\ f.outcome \notin {"aborted", "escaped"} =>
              /\ e.start_pc >= e.end_pc => TryEntry(f, e, A).outcome = "aborted"
              /\ e.start_pc < e.end_pc =>
                   /\ ~Covers(e, f.pc) => TryEntry(f, e, A) = f
                   /\ Covers(e, f.pc) =>
                        /\ e.catch_type = AnyType => TryEntry(f, e, A).outcome = "aborted"
                        /\ e.catch_type # AnyType =>
                             TryEntry(f, e, A) =
                               IF e.catch_type \in A THEN [pc |-> e.handler_pc, outcome |-> "caught"]
                               ELSE [pc |-> f.pc, outcome |-> "escaped"]
<1>1. /\ e.start_pc \in Nat /\ e.end_pc \in Nat /\ e.handler_pc \in Nat
      /\ e.start_pc >= e.end_pc <=> ~(e.start_pc < e.end_pc)
  BY EntryFacts
<1>2. /\ f = [pc |-> f.pc, outcome |-> f.outcome]
      /\ f.pc \in Nat /\ f.outcome \in {"missed", "caught", "escaped", "aborted"}
  BY FoundFacts
<1>3. \A p \in Nat, o \in {"missed", "caught", "escaped", "aborted"} :
        [pc |-> p, outcome |-> o] \in Finding
  BY DEF Finding
<1> DEFINE q == TryEntry(f, e, A)
<1>4. CASE f.outcome \in {"aborted", "escaped"}
  <2>1. q = f
    BY <1>4 DEF TryEntry, Breaks
  <2> QED
    BY <1>4, <2>1
<1>5. CASE f.outcome \notin {"aborted", "escaped"} /\ ~(e.start_pc < e.end_pc)
  <2>1. q = [pc |-> f.pc, outcome |-> "aborted"]
    BY <1>1, <1>2, <1>5 DEF TryEntry, Breaks
  <2> HIDE DEF q
  <2>2. q \in Finding /\ q.outcome = "aborted"
    BY <1>2, <1>3, <2>1
  <2> QED
    BY <1>5, <2>2 DEF q
<1>6. CASE f.outcome \notin {"aborted", "escaped"} /\ e.start_pc < e.end_pc /\ ~Covers(e, f.pc)
  <2>1. q = f
    BY <1>1, <1>6 DEF TryEntry, Breaks
  <2> QED
    BY <1>1, <1>6, <2>1
<1>7. CASE /\ f.outcome \notin {"aborted", "escaped"} /\ e.start_pc < e.end_pc
           /\ Covers(e, f.pc) /\ e.catch_type = AnyType
  <2>1. q = [pc |-> f.pc, outcome |-> "aborted"]
    BY <1>1, <1>2, <1>7 DEF TryEntry, Breaks
  <2> HIDE DEF q
  <2>2. q \in Finding /\ q.outcome = "aborted"
    BY <1>2, <1>3, <2>1
  <2> QED
    BY <1>1, <1>7, <2>2 DEF q
<1>8. CASE /\ f.outcome \notin {"aborted", "escaped"} /\ e.start_pc < e.end_pc
           /\ Covers(e, f.pc) /\ e.catch_type # AnyType
  <2>1. q = IF e.catch_type \in A THEN [pc |-> e.handler_pc, outcome |-> "caught"]
            ELSE [pc |-> f.pc, outcome |-> "escaped"]
    BY <1>1, <1>2, <1>8 DEF TryEntry, Breaks
  <2> HIDE DEF q
  <2>2. q \in Finding
    BY <1>1, <1>2, <1>3, <2>1
  <2> QED
    BY <1>1, <1>8, <2>1, <2>2 DEF q
<1> QED
  BY <1>4, <1>5, <1>6, <1>7, <1>8

LEMMA TableFacts ==
  ASSUME NEW table \in Seq(TableEntry(Names))
  PROVE  /\ Len(table) \in Nat /\ DOMAIN table = 1..Len(table)
         /\ \A i \in 1..Len(table) : table[i] \in TableEntry(Names)
OBVIOUS

LEMMA TurnsFacts ==
  ASSUME NEW table \in Seq(TableEntry(Names)), NEW pc \in Nat, NEW A
  PROVE  /\ Turns(table, pc, A)[0] = NothingFound(pc)
         /\ \A i \in 0..Len(table) : Turns(table, pc, A)[i] \in Finding
         /\ \A i \in 1..Len(table) :
              Turns(table, pc, A)[i] = TryEntry(Turns(table, pc, A)[i - 1], table[i], A)
<1> DEFINE N == Len(table)
           s == NothingFound(pc)
           F == [x \in (1..N) \X Finding |-> TryEntry(x[2], table[x[1]], A)]
           found == Turns(table, pc, A)
<1>1. N \in Nat /\ \A i \in 1..N : table[i] \in TableEntry(Names)
  BY TableFacts
<1>2. s \in Finding
  BY DEF NothingFound, Finding
<1>3. \A i \in 1..N, f \in Finding : F[<<i, f>>] = TryEntry(f, table[i], A)
  OBVIOUS
<1>4. Keeps(Finding, F, N)
  BY <1>1, <1>3, TurnFacts DEF Keeps
<1> HIDE DEF F, N, s
<1>5. PICK g : /\ DOMAIN g = 0..N /\ g[0] = s /\ g = [d \in 0..N |-> g[d]]
               /\ \A d \in 0..N : g[d] \in Finding
               /\ \A d \in 1..N : g[d] = F[<<d, g[d - 1]>>]
  BY <1>1, <1>2, <1>4, RecursionInSet
<1>6. \A d \in 1..N : d - 1 \in 0..N
  BY <1>1
<1>7. \A d \in 1..N : g[d] = TryEntry(g[d - 1], table[d], A)
  BY <1>3, <1>5, <1>6
<1> DEFINE Is(h) == h = [i \in 0..N |-> IF i = 0 THEN s ELSE TryEntry(h[i - 1], table[i], A)]
<1>8. Is(g)
  <2> HIDE DEF found
  <2>1. \A i \in 0..N : i # 0 => i \in 1..N
    BY <1>1
  <2>2. g = [i \in 0..N |-> IF i = 0 THEN s ELSE TryEntry(g[i - 1], table[i], A)]
    <3> HIDE DEF Is
    <3> QED
      BY <1>5, <1>7, <2>1
  <2> QED
    BY <2>2
<1>9. found = CHOOSE h : Is(h)
  BY DEF Turns, N, s
<1>10. Is(found)
  <2> HIDE DEF Is, found
  <2> QED
    BY <1>8, <1>9
<1> HIDE DEF found
<1>11. DOMAIN found = 0..N
       /\ \A i \in 0..N : found[i] = IF i = 0 THEN s ELSE TryEntry(found[i - 1], table[i], A)
  BY <1>10
<1>12. found[0] = s
  BY <1>1, <1>11
<1>13. \A i \in 1..N : found[i] = TryEntry(found[i - 1], table[i], A)
  BY <1>1, <1>11
<1> DEFINE S == {i \in Nat : i \in 0..N => found[i] \in Finding}
<1>14. Nat \subseteq S
  <2>1. 0 \in S
    BY <1>2, <1>12
  <2>2. ASSUME NEW k \in Nat, k \in S
        PROVE  k + 1 \in S
    <3>1. SUFFICES ASSUME k + 1 \in 0..N PROVE found[k + 1] \in Finding
      OBVIOUS
    <3>2. k \in 0..N /\ k + 1 \in 1..N /\ (k + 1) - 1 = k
      BY <1>1, <3>1
    <3>3. found[k + 1] = TryEntry(found[k], table[k + 1], A)
      BY <1>13, <3>2
    <3>4. found[k] \in Finding /\ table[k + 1] \in TableEntry(Names)
      BY <1>1, <2>2, <3>2
    <3> QED
      BY <3>3, <3>4, TurnFacts
  <2> HIDE DEF S
  <2> QED
    BY <2>1, <2>2, NaturalsInSet
<1> QED
  BY <1>12, <1>13, <1>14 DEF found, s, N

\* Behind a match the search goes on, so a caught exception is at a handler that no
\* later entry covers.
LEMMA CaughtFacts ==
  ASSUME NEW table \in Seq(TableEntry(Names)), NEW pc \in Nat, NEW A
  PROVE  /\ CatchException(table, pc, A).outcome = "caught" =>
              \E k \in 1..Len(table) :
                /\ table[k].catch_type \in A
                /\ CatchException(table, pc, A).pc = table[k].handler_pc
                /\ \A j \in (k + 1)..Len(table) :
                     ~Covers(table[j], CatchException(table, pc, A).pc)
         /\ CatchException(table, pc, A).outcome = "missed" => CatchException(table, pc, A).pc = pc
<1> DEFINE N == Len(table)
           found == Turns(table, pc, A)
           Caught(i) == \E k \in 1..i : /\ table[k].catch_type \in A
                                        /\ found[i].pc = table[k].handler_pc
                                        /\ \A j \in (k + 1)..i : ~Covers(table[j], found[i].pc)
           S == {i \in Nat : i \in 0..N =>
                   /\ found[i].outcome = "caught" => Caught(i)
                   /\ found[i].outcome = "missed" => found[i].pc = pc}
<1>1. /\ N \in Nat /\ \A i \in 1..N : table[i] \in TableEntry(Names)
  BY TableFacts
<1>2. /\ found[0] = NothingFound(pc)
      /\ \A i \in 0..N : found[i] \in Finding
      /\ \A i \in 1..N : found[i] = TryEntry(found[i - 1], table[i], A)
  BY TurnsFacts
<1> HIDE DEF found, N
<1>3. 0 \in S
  <2>1. found[0].outcome = "missed" /\ found[0].pc = pc
    BY <1>2 DEF NothingFound
  <2> QED
    BY <2>1
<1>4. ASSUME NEW i \in Nat, i \in S
      PROVE  i + 1 \in S
  <2>1. SUFFICES ASSUME i + 1 \in 0..N
                 PROVE  /\ found[i + 1].outcome = "caught" => Caught(i + 1)
                        /\ found[i + 1].outcome = "missed" => found[i + 1].pc = pc
    OBVIOUS
  <2>2. i \in 0..N /\ i + 1 \in 1..N /\ (i + 1) - 1 = i
    BY <1>1, <2>1
  <2> DEFINE f == found[i]
             e == table[i + 1]
             q == found[i + 1]
  <2>3. q = TryEntry(f, e, A) /\ f \in Finding /\ e \in TableEntry(Names)
    BY <1>1, <1>2, <2>2
  <2>4. /\ f.outcome = "caught" => Caught(i)
        /\ f.outcome = "missed" => f.pc = pc
    BY <1>4, <2>2
  <2>5. e.start_pc \in Nat /\ e.end_pc \in Nat
    BY <2>3, EntryFacts
  <2>6. CASE q = f /\ ~Covers(e, f.pc)
    <3>1. ASSUME q.outcome = "caught"
          PROVE  Caught(i + 1)
      <4>1. PICK k \in 1..i : /\ table[k].catch_type \in A
                              /\ f.pc = table[k].handler_pc
                              /\ \A j \in (k + 1)..i : ~Covers(table[j], f.pc)
        BY <2>4, <2>6, <3>1
      <4>2. k \in 1..(i + 1) /\ \A j \in (k + 1)..(i + 1) : j \in (k + 1)..i \/ j = i + 1
        OBVIOUS
      <4>3. \A j \in (k + 1)..(i + 1) : ~Covers(table[j], q.pc)
        BY <2>6, <4>1, <4>2
      <4> QED
        BY <2>6, <4>1, <4>2, <4>3
    <3> QED
      BY <2>4, <2>6, <3>1
  <2>7. CASE q.outcome \notin {"caught", "missed"}
    BY <2>7
  <2>8. CASE q = [pc |-> e.handler_pc, outcome |-> "caught"] /\ e.catch_type \in A
    <3>1. i + 1 \in 1..(i + 1) /\ \A j \in ((i + 1) + 1)..(i + 1) : FALSE
      OBVIOUS
    <3>2. q.pc = e.handler_pc /\ q.outcome = "caught"
      BY <2>8
    <3> QED
      BY <2>8, <3>1, <3>2
  <2>9. \/ q = f /\ ~Covers(e, f.pc)
        \/ q.outcome \notin {"caught", "missed"}
        \/ q = [pc |-> e.handler_pc, outcome |-> "caught"] /\ e.catch_type \in A
    <3> HIDE DEF f, e, q
    <3>1. CASE f.outcome \in {"aborted", "escaped"}
      BY <2>3, <3>1, TurnFacts
    <3>2. CASE f.outcome \notin {"aborted", "escaped"} /\ ~(e.start_pc < e.end_pc)
      <4>1. e.start_pc >= e.end_pc
        BY <2>5, <3>2
      <4>2. q.outcome = "aborted"
        BY <2>3, <3>2, <4>1, TurnFacts
      <4> QED
        BY <4>2
    <3>3. CASE f.outcome \notin {"aborted", "escaped"} /\ e.start_pc < e.end_pc
      <4>1. CASE ~Covers(e, f.pc)
        BY <2>3, <3>3, <4>1, TurnFacts
      <4>2. CASE Covers(e, f.pc) /\ e.catch_type = AnyType
        <5>1. q.outcome = "aborted"
          BY <2>3, <3>3, <4>2, TurnFacts
        <5> QED
          BY <5>1
      <4>3. CASE Covers(e, f.pc) /\ e.catch_type # AnyType
        <5>1. q = IF e.catch_type \in A THEN [pc |-> e.handler_pc, outcome |-> "caught"]
                  ELSE [pc |-> f.pc, outcome |-> "escaped"]
          BY <2>3, <3>3, <4>3, TurnFacts
        <5>2. [pc |-> f.pc, outcome |-> "escaped"].outcome \notin {"caught", "missed"}
          OBVIOUS
        <5> QED
          BY <5>1, <5>2
      <4> QED
        BY <4>1, <4>2, <4>3
    <3> QED
      BY <3>1, <3>2, <3>3
  <2> QED
    BY <2>6, <2>7, <2>8, <2>9
<1>5. N \in S
  <2> HIDE DEF S
  <2> QED
    BY <1>1, <1>3, <1>4, NaturalsInSet
<1>6. N \in 0..N
  BY <1>1
<1>7. /\ found[N].outcome = "caught" => Caught(N)
      /\ found[N].outcome = "missed" => found[N].pc = pc
  BY <1>5, <1>6
<1>8. CatchException(table, pc, A) = found[N]
  BY DEF CatchException, found, N
<1> QED
  BY <1>7, <1>8 DEF N

\* What is decided stays: an end of the search, or a pc that no further entry covers.
LEMMA Passed ==
  ASSUME NEW table \in Seq(TableEntry(Names)), NEW pc \in Nat, NEW A, Named(table),
         NEW m \in 0..Len(table), NEW n \in m..Len(table), NEW q, q = Turns(table, pc, A)[m],
         \/ q.outcome = "escaped"
         \/ q.outcome # "aborted" /\ \A i \in (m + 1)..n : ~Covers(table[i], q.pc)
  PROVE  Turns(table, pc, A)[n] = q
<1> DEFINE N == Len(table)
           found == Turns(table, pc, A)
           S == {i \in Nat : m + i \in m..n => found[m + i] = q}
<1>1. /\ N \in Nat /\ \A i \in 1..N : table[i] \in TableEntry(Names)
  BY TableFacts
<1>2. /\ \A i \in 0..N : found[i] \in Finding
      /\ \A i \in 1..N : found[i] = TryEntry(found[i - 1], table[i], A)
  BY TurnsFacts
<1>3. \A i \in 1..N : table[i].start_pc < table[i].end_pc
  BY <1>1, TableFacts DEF Named
<1>4. q = found[m] /\ q \in Finding
  BY <1>2
<1> HIDE DEF found, N
<1>5. 0 \in S
  BY <1>1, <1>4
<1>6. ASSUME NEW i \in Nat, i \in S
      PROVE  i + 1 \in S
  <2>1. SUFFICES ASSUME m + (i + 1) \in m..n PROVE found[m + (i + 1)] = q
    OBVIOUS
  <2> DEFINE k == m + (i + 1)
  <2>2. m + i \in m..n /\ k \in (m + 1)..n /\ k \in 1..N /\ k - 1 = m + i
    BY <1>1, <2>1 DEF N
  <2>3. found[k] = TryEntry(q, table[k], A)
    BY <1>2, <1>6, <2>2
  <2>4. table[k] \in TableEntry(Names) /\ table[k].start_pc < table[k].end_pc
    BY <1>1, <1>3, <2>2
  <2>5. q.outcome = "escaped" \/ (q.outcome # "aborted" /\ ~Covers(table[k], q.pc))
    BY <2>2
  <2> HIDE DEF k
  <2>6. TryEntry(q, table[k], A) = q
    BY <1>4, <2>4, <2>5, TurnFacts
  <2> QED
    BY <2>3, <2>6 DEF k
<1>7. n - m \in Nat /\ m + (n - m) = n /\ n \in m..n
  BY <1>1 DEF N
<1>8. n - m \in S
  <2> HIDE DEF S
  <2> QED
    BY <1>5, <1>6, <1>7, NaturalsInSet
<1> QED
  BY <1>7, <1>8 DEF found

\* One turn for an entry that covers the pc reached so far.
LEMMA CoveredTurn ==
  ASSUME NEW table \in Seq(TableEntry(Names)), NEW pc \in Nat, NEW A, Named(table),
         NEW k \in 1..Len(table), NEW q, q = Turns(table, pc, A)[k - 1],
         q.outcome \in {"missed", "caught"}, Covers(table[k], q.pc)
  PROVE  Turns(table, pc, A)[k] =
           IF table[k].catch_type \in A THEN [pc |-> table[k].handler_pc, outcome |-> "caught"]
           ELSE [pc |-> q.pc, outcome |-> "escaped"]
<1>1. /\ Len(table) \in Nat /\ table[k] \in TableEntry(Names)
      /\ table[k].start_pc < table[k].end_pc /\ table[k].catch_type # AnyType
  BY TableFacts DEF Named
<1>2. q \in Finding /\ Turns(table, pc, A)[k] = TryEntry(q, table[k], A)
  BY <1>1, TurnsFacts
<1>3. q.outcome \notin {"aborted", "escaped"}
  OBVIOUS
<1> QED
  BY <1>1, <1>2, <1>3, TurnFacts

\* The first entry that covers the pc decides, and if it catches, so does the first of
\* those behind it that covers the handler.
LEMMA OneEntryDecides ==
  ASSUME NEW table \in Seq(TableEntry(Names)), NEW pc \in Nat, NEW A, Named(table)
  PROVE  /\ (\A i \in 1..Len(table) : ~Covers(table[i], pc)) =>
              CatchException(table, pc, A) = NothingFound(pc)
         /\ \A k \in 1..Len(table) :
              Covers(table[k], pc) /\ (\A i \in 1..(k - 1) : ~Covers(table[i], pc)) =>
                /\ table[k].catch_type \notin A =>
                     CatchException(table, pc, A) = [pc |-> pc, outcome |-> "escaped"]
                /\ /\ table[k].catch_type \in A
                   /\ \A i \in (k + 1)..Len(table) : ~Covers(table[i], table[k].handler_pc)
                   => CatchException(table, pc, A) =
                        [pc |-> table[k].handler_pc, outcome |-> "caught"]
                /\ \A j \in (k + 1)..Len(table) :
                     /\ table[k].catch_type \in A
                     /\ Covers(table[j], table[k].handler_pc)
                     /\ \A i \in (k + 1)..(j - 1) : ~Covers(table[i], table[k].handler_pc)
                     /\ table[j].catch_type \notin A
                     => CatchException(table, pc, A) =
                          [pc |-> table[k].handler_pc, outcome |-> "escaped"]
<1> DEFINE N == Len(table)
           found == Turns(table, pc, A)
           start == NothingFound(pc)
<1>1. /\ N \in Nat /\ found[0] = start /\ CatchException(table, pc, A) = found[N]
      /\ 0 \in 0..N /\ N \in 0..N
  BY TableFacts, TurnsFacts DEF CatchException
<1>2. start.outcome = "missed" /\ start.pc = pc
  BY DEF NothingFound
<1> HIDE DEF start
<1>3. ASSUME \A i \in 1..N : ~Covers(table[i], pc)
      PROVE  found[N] = start
  <2>1. \A i \in (0 + 1)..N : ~Covers(table[i], start.pc)
    BY <1>2, <1>3
  <2> QED
    BY <1>1, <1>2, <2>1, Passed
<1>4. ASSUME NEW k \in 1..N, Covers(table[k], pc), \A i \in 1..(k - 1) : ~Covers(table[i], pc)
      PROVE  found[k] = IF table[k].catch_type \in A
                        THEN [pc |-> table[k].handler_pc, outcome |-> "caught"]
                        ELSE [pc |-> pc, outcome |-> "escaped"]
  <2>1. k - 1 \in 0..N /\ \A i \in (0 + 1)..(k - 1) : ~Covers(table[i], start.pc)
    BY <1>1, <1>2, <1>4
  <2>2. found[k - 1] = start
    <3> DEFINE n == k - 1
    <3>1. n \in 0..Len(table) /\ 0 \in 0..Len(table) /\ start = found[0]
      BY <1>1, <2>1
    <3>2. start.outcome # "aborted" /\ \A i \in (0 + 1)..n : ~Covers(table[i], start.pc)
      BY <1>2, <2>1
    <3> HIDE DEF n
    <3>3. found[n] = start
      BY <3>1, <3>2, Passed
    <3> QED
      BY <3>3 DEF n
  <2> QED
    BY <1>2, <1>4, <2>2, CoveredTurn
<1>5. ASSUME NEW k \in 1..N, NEW q, found[k] = q, q.outcome = "escaped"
      PROVE  found[N] = q
  <2>1. k \in 0..N /\ N \in k..N
    BY <1>1
  <2> QED
    BY <1>5, <2>1, Passed
<1>6. ASSUME NEW k \in 1..N, Covers(table[k], pc), \A i \in 1..(k - 1) : ~Covers(table[i], pc),
             table[k].catch_type \notin A
      PROVE  found[N] = [pc |-> pc, outcome |-> "escaped"]
  <2>1. found[k] = [pc |-> pc, outcome |-> "escaped"]
    BY <1>4, <1>6
  <2> QED
    BY <1>5, <2>1
<1>7. ASSUME NEW k \in 1..N, Covers(table[k], pc), \A i \in 1..(k - 1) : ~Covers(table[i], pc),
             table[k].catch_type \in A
      PROVE  LET h == table[k].handler_pc
                 q == [pc |-> h, outcome |-> "caught"]
             IN  /\ (\A i \in (k + 1)..N : ~Covers(table[i], h)) => found[N] = q
                 /\ \A j \in (k + 1)..N :
                      /\ Covers(table[j], h)
                      /\ \A i \in (k + 1)..(j - 1) : ~Covers(table[i], h)
                      /\ table[j].catch_type \notin A
                      => found[N] = [pc |-> h, outcome |-> "escaped"]
  <2> DEFINE h == table[k].handler_pc
             q == [pc |-> h, outcome |-> "caught"]
  <2>1. found[k] = q
    BY <1>4, <1>7
  <2>2. q.pc = h /\ q.outcome = "caught"
    OBVIOUS
  <2>3. k \in 0..N /\ N \in k..N
    BY <1>1
  <2> HIDE DEF q, h
  <2>4. (\A i \in (k + 1)..N : ~Covers(table[i], h)) => found[N] = q
    BY <2>1, <2>2, <2>3, Passed
  <2>5. ASSUME NEW j \in (k + 1)..N, Covers(table[j], h),
               \A i \in (k + 1)..(j - 1) : ~Covers(table[i], h),
               table[j].catch_type \notin A
        PROVE  found[N] = [pc |-> h, outcome |-> "escaped"]
    <3>1. j \in 1..N /\ j - 1 \in k..N
      BY <1>1
    <3>2. found[j - 1] = q
      BY <2>1, <2>2, <2>3, <2>5, <3>1, Passed
    <3>3. found[j] = [pc |-> h, outcome |-> "escaped"]
      <4>1. q = found[j - 1] /\ q.outcome \in {"missed", "caught"} /\ Covers(table[j], q.pc)
        BY <2>2, <2>5, <3>2
      <4>2. found[j] = IF table[j].catch_type \in A
                       THEN [pc |-> table[j].handler_pc, outcome |-> "caught"]
                       ELSE [pc |-> q.pc, outcome |-> "escaped"]
        BY <3>1, <4>1, CoveredTurn
      <4> QED
        BY <2>2, <2>5, <4>2
    <3> QED
      BY <1>5, <3>1, <3>3
  <2> QED
    BY <2>4, <2>5 DEF q, h
<1> QED
  BY <1>1, <1>3, <1>6, <1>7 DEF start

-----------------------------------------------------------------------------
(* On a heap that has all the ancestors *)

\* The heap has the class of this name and all that are above it.
Closed(h, n) ==
  \A k \in DOMAIN Upward(n) : Upward(n)[k] # None => Upward(n)[k] \in DOMAIN h

Unmoved(q, r) == q.heap = r.heap /\ q.parses = r.parses /\ q.failed = None

\* getSuperClass of a class whose superclass, if any, is on the heap.
LEMMA UpOnHeap ==
  ASSUME WellNamed, NEW q, Sound(q), q.failed = None,
         q.value # None /\ FileOf(q.value).super # None =>
           FileOf(q.value).super \in DOMAIN q.heap
  PROVE  Unmoved(Up(q), q)
<1>1. q = [heap |-> q.heap, parses |-> q.parses, value |-> q.value, failed |-> q.failed]
  BY ResultFacts DEF Sound
<1>2. \A v : LET p == [q EXCEPT !.value = v]
             IN  p.heap = q.heap /\ p.parses = q.parses /\ p.failed = q.failed
  BY <1>1
<1>3. CASE q.value = None
  BY <1>3 DEF Up, Unmoved
<1>4. CASE q.value # None /\ FileOf(q.value).super = None
  <2>1. Up(q) = [q EXCEPT !.value = None]
    BY <1>4 DEF Up
  <2> QED
    BY <1>2, <2>1 DEF Unmoved
<1>5. CASE q.value # None /\ FileOf(q.value).super # None
  <2> DEFINE n == FileOf(q.value).super
  <2>1. Up(q) = [q EXCEPT !.value = q.heap[n]]
    BY <1>5 DEF Up, LoadClass
  <2> QED
    BY <1>2, <2>1 DEF Unmoved
<1> QED
  BY <1>3, <1>4, <1>5

LEMMA ClimbOnClosed ==
  ASSUME DiskOK, WellNamed, NEW r, Sound(r), r.failed = None, NEW c, FromFile(c),
         Closed(r.heap, c.file)
  PROVE  \A d \in 0..Cardinality(Names) : Unmoved(Climbed(r, c)[d], r)
<1> DEFINE N == Cardinality(Names)
           up == Climbed(r, c)
           line == Upward(c.file)
           S == {d \in Nat : d \in 0..N => Unmoved(up[d], r)}
<1>1. /\ N \in Nat
      /\ up[0] = [r EXCEPT !.value = c]
      /\ \A k \in Nat : k + 1 \in 0..N => up[k + 1] = Up(up[k])
  BY ClimbedFacts
<1>2. /\ DOMAIN line = 0..N
      /\ \A k \in Nat : k + 1 \in 0..N => line[k + 1] = SuperOf(line[k])
  BY UpwardFacts
<1>3. \A d \in 0..N : Sound(up[d])
  BY ClimbSound
<1>4. \A d \in 0..N : up[d].failed = None =>
        IF up[d].value = None THEN line[d] = None ELSE up[d].value.file = line[d]
  BY ClimbFollowsLine
<1>5. \A d \in 0..N : line[d] # None => line[d] \in DOMAIN r.heap
  BY <1>2 DEF Closed
<1> HIDE DEF N, up, line
<1>6. 0 \in S
  <2>1. Unmoved(up[0], r)
    BY <1>1, ResultFacts DEF Sound, Unmoved
  <2> QED
    BY <2>1
<1>7. ASSUME NEW d \in Nat, d \in S
      PROVE  d + 1 \in S
  <2>1. SUFFICES ASSUME d + 1 \in 0..N PROVE Unmoved(up[d + 1], r)
    OBVIOUS
  <2>2. d \in 0..N
    BY <1>1, <2>1
  <2>3. Unmoved(up[d], r) /\ Sound(up[d]) /\ up[d + 1] = Up(up[d])
    BY <1>1, <1>3, <1>7, <2>1, <2>2
  <2>4. ASSUME up[d].value # None, FileOf(up[d].value).super # None
        PROVE  FileOf(up[d].value).super \in DOMAIN up[d].heap
    <3>1. FromFile(up[d].value) /\ up[d].value.file = line[d]
      BY <1>4, <2>2, <2>3, <2>4 DEF Sound, Unmoved
    <3>2. line[d] # None /\ disk[line[d]] # None
      BY <3>1, NamedByFile, ClassesNamesAssumption
    <3>3. line[d + 1] = FileOf(up[d].value).super
      BY <1>2, <2>1, <3>1, <3>2 DEF SuperOf, FileOf
    <3> QED
      BY <1>5, <2>1, <2>3, <2>4, <3>3 DEF Unmoved
  <2> HIDE DEF S
  <2>5. Unmoved(Up(up[d]), up[d])
    BY <2>3, <2>4, UpOnHeap DEF Unmoved
  <2> QED
    BY <2>3, <2>5 DEF Unmoved
<1>8. Nat \subseteq S
  <2> HIDE DEF S
  <2> QED
    BY <1>6, <1>7, NaturalsInSet
<1> QED
  BY <1>1, <1>8 DEF N, up

\* isInheritFrom is the search for one name.
LEMMA InheritIsSearch ==
  ASSUME DiskOK, WellNamed, NEW r, Sound(r), NEW c, FromFile(c), NEW name \in Names
  PROVE  InheritFrom(r, c, name) = FoundIn(r, c, {name})
<1> DEFINE up == Climbed(r, c)
           OfName(class) == FileOf(class).this = name
           named == {d \in DOMAIN up : up[d].failed # None \/ up[d].value = None
                                       \/ OfName(up[d].value)}
           q == InheritFrom(r, c, name)
<1>1. q = up[Least(named)]
  BY DEF InheritFrom, FirstOf, Least
<1>2. \A d \in DOMAIN up : up[d].value # None => FromFile(up[d].value)
  BY SoundOnTheWay DEF Sound
<1>3. Ends(r, c, {name}) = {d \in DOMAIN up : up[d].failed # None \/ up[d].value = None
                                             \/ up[d].value.file \in {name}}
  BY DEF Ends
<1> HIDE DEF up, q
<1>4. \A d \in DOMAIN up : up[d].value # None =>
        (OfName(up[d].value) <=> up[d].value.file \in {name})
  BY <1>2, NamedByFile DEF FileOf
<1>5. named = Ends(r, c, {name})
  BY <1>3, <1>4
<1> HIDE DEF named
<1> QED
  BY <1>1, <1>5 DEF FoundIn, up, q

\* isInheritFrom then loads nothing and answers what the files say.
LEMMA AskedOnClosed ==
  ASSUME DiskOK, WellNamed, NEW r, Sound(r), r.failed = None, NEW c, FromFile(c),
         Closed(r.heap, c.file), NEW name \in Names
  PROVE  /\ Unmoved(InheritFrom(r, c, name), r)
         /\ InheritFrom(r, c, name).value # None <=> name \in Ancestors(c.file)
<1> DEFINE N == Cardinality(Names)
           up == Climbed(r, c)
           line == Upward(c.file)
           E == Ends(r, c, {name})
           fits == Fits(c.file, {name})
           q == InheritFrom(r, c, name)
<1>1. q = FoundIn(r, c, {name})
  BY InheritIsSearch
<1>2. N \in Nat /\ DOMAIN up = 0..N /\ DOMAIN line = 0..N /\ Ended(up[N])
  BY ClimbedFacts, UpwardFacts, ClimbSound
<1>3. q = up[Least(E)]
  BY <1>1 DEF FoundIn
<1>4. E \subseteq 0..N /\ N \in E
  BY <1>2 DEF Ends, Ended
<1>5. \A d \in 0..N : Unmoved(up[d], r)
  BY ClimbOnClosed
<1>6. fits = {} <=> name \notin Ancestors(c.file)
  BY ClassesNamesAssumption DEF Fits, Ancestors
<1>7. q.failed = None =>
        IF fits = {} THEN q.value = None ELSE q.value # None
  <2>1. {name} \in SUBSET Names
    OBVIOUS
  <2>2. LET f == FoundIn(r, c, {name})
        IN  f.failed = None =>
              IF Fits(c.file, {name}) = {} THEN f.value = None ELSE f.value # None
    BY <2>1, SearchFinds
  <2> QED
    BY <1>1, <2>2
<1> HIDE DEF N, up, line, E, fits, q
<1>8. Least(E) \in 0..N
  BY <1>2, <1>4, LeastEnd DEF Least
<1>9. Unmoved(q, r)
  BY <1>3, <1>5, <1>8
<1> QED
  BY <1>6, <1>7, <1>9 DEF Unmoved, q

-----------------------------------------------------------------------------
(* Creating an object leaves such a heap *)

LEMMA LoadGrows ==
  ASSUME WellNamed, NEW r, Sound(r), r.failed = None, NEW n \in Names,
         LoadClass(r, n).failed = None
  PROVE  DOMAIN r.heap \cup {n} \subseteq DOMAIN LoadClass(r, n).heap
<1>1. r = [heap |-> r.heap, parses |-> r.parses, value |-> r.value, failed |-> r.failed]
  BY ResultFacts DEF Sound
<1>2. CASE n \in DOMAIN r.heap
  <2>1. LoadClass(r, n) = [r EXCEPT !.value = r.heap[n]]
    BY <1>2 DEF LoadClass
  <2>2. [r EXCEPT !.value = r.heap[n]].heap = r.heap
    BY <1>1
  <2> QED
    BY <1>2, <2>1, <2>2
<1>3. CASE n \notin DOMAIN r.heap /\ disk[n] = None
  <2>1. LoadClass(r, n) = [r EXCEPT !.failed = "no file"]
    BY <1>3 DEF LoadClass, Fail
  <2>2. [r EXCEPT !.failed = "no file"].failed = "no file"
    BY <1>1
  <2>3. "no file" # None
    BY ClassesNamesAssumption DEF Failures
  <2> QED
    BY <2>1, <2>2, <2>3
<1>4. CASE n \notin DOMAIN r.heap /\ disk[n] # None
  <2> DEFINE v == Parsed(n, r)
             add == [k \in DOMAIN r.heap \cup {n} |-> IF k = n THEN v ELSE r.heap[k]]
  <2>1. disk[n].this = n
    BY <1>4 DEF WellNamed
  <2>2. LoadClass(r, n) = [r EXCEPT !.parses = @ + 1, !.value = v, !.heap = add]
    BY <1>4, <2>1 DEF LoadClass, AddClass
  <2>3. DOMAIN add = DOMAIN r.heap \cup {n}
    OBVIOUS
  <2> HIDE DEF add, v
  <2>4. [r EXCEPT !.parses = @ + 1, !.value = v, !.heap = add].heap = add
    BY <1>1
  <2> QED
    BY <2>2, <2>3, <2>4
<1> QED
  BY <1>2, <1>3, <1>4

LEMMA UpGrows ==
  ASSUME DiskOK, WellNamed, NEW q, Sound(q), Up(q).failed = None
  PROVE  /\ q.failed = None
         /\ DOMAIN q.heap \subseteq DOMAIN Up(q).heap
         /\ q.value # None /\ FileOf(q.value).super # None =>
              FileOf(q.value).super \in DOMAIN Up(q).heap
<1>1. q = [heap |-> q.heap, parses |-> q.parses, value |-> q.value, failed |-> q.failed]
  BY ResultFacts DEF Sound
<1>2. q.failed = None
  BY DEF Up
<1>3. CASE q.value = None
  BY <1>2, <1>3 DEF Up
<1>4. CASE q.value # None /\ FileOf(q.value).super = None
  <2>1. Up(q) = [q EXCEPT !.value = None]
    BY <1>4 DEF Up
  <2>2. [q EXCEPT !.value = None].heap = q.heap
    BY <1>1
  <2> QED
    BY <1>2, <1>4, <2>1, <2>2
<1>5. CASE q.value # None /\ FileOf(q.value).super # None
  <2> DEFINE n == FileOf(q.value).super
  <2>1. Up(q) = LoadClass(q, n)
    BY <1>2, <1>5 DEF Up
  <2>2. n \in Names
    BY <1>5 DEF Sound, FromFile, JavaClass, FileOf, DiskOK, ClassFile
  <2> HIDE DEF n
  <2>3. DOMAIN q.heap \cup {n} \subseteq DOMAIN LoadClass(q, n).heap
    BY <1>2, <2>1, <2>2, LoadGrows
  <2> QED
    BY <1>2, <2>1, <2>3 DEF n
<1> QED
  BY <1>3, <1>4, <1>5

LEMMA TopLoadsAll ==
  ASSUME DiskOK, WellNamed, NEW r, Sound(r), NEW c, FromFile(c), c.file \in DOMAIN r.heap,
         ToTheTop(r, c).failed = None
  PROVE  Closed(ToTheTop(r, c).heap, c.file)
<1> DEFINE N == Cardinality(Names)
           up == Climbed(r, c)
           line == Upward(c.file)
           Has(d) == up[d].failed = None =>
                       \A j \in 0..d : line[j] # None => line[j] \in DOMAIN up[d].heap
           S == {d \in Nat : d \in 0..N => Has(d)}
           top == {d \in DOMAIN up : up[d].failed # None \/ up[d].value = None}
           q == ToTheTop(r, c)
<1>1. /\ N \in Nat /\ DOMAIN up = 0..N
      /\ up[0] = [r EXCEPT !.value = c]
      /\ \A k \in Nat : k + 1 \in 0..N => up[k + 1] = Up(up[k])
  BY ClimbedFacts
<1>2. /\ DOMAIN line = 0..N /\ line[0] = c.file
      /\ \A k \in Nat : k + 1 \in 0..N => line[k + 1] = SuperOf(line[k])
  BY UpwardFacts
<1>3. (\A d \in 0..N : Sound(up[d])) /\ Ended(up[N])
  BY ClimbSound
<1>4. \A d \in 0..N : up[d].failed = None =>
        IF up[d].value = None THEN line[d] = None ELSE up[d].value.file = line[d]
  BY ClimbFollowsLine
<1>5. \A i, j \in 0..N : line[i] = None /\ i <= j => line[j] = None
  BY LineStops
<1>6. q = up[Least(top)]
  <2> DEFINE Never(class) == FALSE
             ends == {d \in DOMAIN up : up[d].failed # None \/ up[d].value = None
                                        \/ Never(up[d].value)}
  <2>1. q = up[Least(ends)]
    BY DEF ToTheTop, FirstOf, Least
  <2>2. ends = top
    OBVIOUS
  <2> QED
    BY <2>1, <2>2
<1>7. q.failed = None
  OBVIOUS
<1> HIDE DEF N, up, line, q
<1>8. 0 \in S
  <2>1. up[0].heap = r.heap
    BY <1>1, ResultFacts DEF Sound
  <2>2. \A j \in 0..0 : j = 0
    OBVIOUS
  <2> QED
    BY <1>2, <2>1, <2>2
<1>9. ASSUME NEW d \in Nat, d \in S
      PROVE  d + 1 \in S
  <2>1. SUFFICES ASSUME d + 1 \in 0..N, up[d + 1].failed = None,
                        NEW j \in 0..(d + 1), line[j] # None
                 PROVE  line[j] \in DOMAIN up[d + 1].heap
    OBVIOUS
  <2> DEFINE p == up[d]
  <2>2. d \in 0..N /\ (j \in 0..d \/ j = d + 1)
    BY <1>1, <2>1
  <2>3. Sound(p) /\ up[d + 1] = Up(p)
    BY <1>1, <1>3, <2>1, <2>2
  <2> HIDE DEF S
  <2>4. /\ p.failed = None
        /\ DOMAIN p.heap \subseteq DOMAIN up[d + 1].heap
        /\ p.value # None /\ FileOf(p.value).super # None =>
             FileOf(p.value).super \in DOMAIN up[d + 1].heap
    BY <2>1, <2>3, UpGrows
  <2>5. CASE j \in 0..d
    BY <1>9, <2>1, <2>2, <2>4, <2>5 DEF S
  <2>6. CASE j = d + 1
    <3>1. p.value # None
      <4>1. line[d + 1] # None /\ d + 1 \in 0..N /\ d <= d + 1
        BY <2>1, <2>6
      <4>2. line[d] # None
        BY <1>5, <2>2, <4>1
      <4> QED
        BY <1>4, <2>2, <2>4, <4>2
    <3>2. FromFile(p.value) /\ p.value.file = line[d]
      BY <1>4, <2>2, <2>3, <2>4, <3>1 DEF Sound
    <3>3. line[d] # None /\ disk[line[d]] # None
      BY <3>2, NamedByFile, ClassesNamesAssumption
    <3>4. line[d + 1] = FileOf(p.value).super
      BY <1>2, <2>1, <3>2, <3>3 DEF SuperOf, FileOf
    <3> QED
      BY <2>1, <2>4, <2>6, <3>1, <3>4
  <2> QED
    BY <2>2, <2>5, <2>6
<1>10. Nat \subseteq S
  <2> HIDE DEF S
  <2> QED
    BY <1>8, <1>9, NaturalsInSet
<1> DEFINE k == Least(top)
<1>11. k \in top /\ k \in 0..N
  <2>1. top \subseteq 0..N /\ N \in top
    BY <1>1, <1>3 DEF Ended
  <2> HIDE DEF top
  <2> QED
    BY <1>1, <2>1, LeastEnd DEF Least
<1> HIDE DEF k
<1>12. q = up[k] /\ line[k] = None
  BY <1>4, <1>6, <1>7, <1>11 DEF k
<1>13. k \in Nat /\ k \in S
  BY <1>1, <1>10, <1>11
<1>14. \A j \in 0..k : line[j] # None => line[j] \in DOMAIN q.heap
  BY <1>7, <1>11, <1>12, <1>13
<1>15. ASSUME NEW j \in 0..N, line[j] # None
       PROVE  line[j] \in DOMAIN q.heap
  <2>1. ~(k <= j)
    BY <1>5, <1>11, <1>12, <1>15
  <2>2. j \in 0..k
    BY <1>1, <1>11, <2>1
  <2> QED
    BY <1>14, <1>15, <2>2
<1> QED
  BY <1>2, <1>15 DEF Closed, line, q

-----------------------------------------------------------------------------
(* The search over the class heap *)

TurnsOf(c) == {s \in [class : {c}, r : Result, found : Finding] : Sound(s.r)}

\* Only the entries that ask depend on the ancestors.
LEMMA SameAnswers ==
  ASSUME NEW f, NEW e \in TableEntry(Names), NEW A, NEW B,
         Asks(f, e) => (e.catch_type \in A <=> e.catch_type \in B)
  PROVE  TryEntry(f, e, A) = TryEntry(f, e, B)
<1>1. e.start_pc >= e.end_pc <=> ~(e.start_pc < e.end_pc)
  BY EntryFacts
<1>2. CASE Asks(f, e)
  <2>1. e.catch_type \in A <=> e.catch_type \in B
    BY <1>2
  <2> QED
    BY <2>1 DEF TryEntry
<1>3. CASE f.outcome \in {"aborted", "escaped"} \/ Breaks(f, e) \/ ~Covers(e, f.pc)
  BY <1>3 DEF TryEntry
<1> QED
  BY <1>1, <1>2, <1>3 DEF Asks, Breaks

LEMMA TryOnHeapFacts ==
  ASSUME DiskOK, NEW c, FromFile(c), NEW s \in TurnsOf(c), NEW e \in TableEntry(Names)
  PROVE  /\ TryOnHeap(s, e) \in TurnsOf(c)
         /\ WellNamed /\ s.r.failed = None /\ Closed(s.r.heap, c.file) =>
              /\ Unmoved(TryOnHeap(s, e).r, s.r)
              /\ TryOnHeap(s, e).found = TryEntry(s.found, e, Ancestors(c.file))
<1> DEFINE f == s.found
           r == IF Asks(f, e) THEN InheritFrom(s.r, s.class, e.catch_type) ELSE s.r
           inherits == IF r.value = None THEN {} ELSE {e.catch_type}
           g == IF r.failed # None THEN [f EXCEPT !.outcome = "aborted"]
                ELSE TryEntry(f, e, inherits)
           t == TryOnHeap(s, e)
<1>1. /\ s = [class |-> c, r |-> s.r, found |-> f] /\ s.class = c
      /\ Sound(s.r) /\ f \in Finding
  BY DEF TurnsOf
<1>2. t = [s EXCEPT !.r = r,
                    !.found = IF r.failed # None THEN [@ EXCEPT !.outcome = "aborted"]
                              ELSE TryEntry(@, e, inherits)]
  BY DEF TryOnHeap
<1>3. t = [class |-> c, r |-> r, found |-> g]
  <2> HIDE DEF t, r, inherits
  <2> QED
    BY <1>1, <1>2
<1>4. ASSUME Asks(f, e)
      PROVE  e.catch_type \in Names
  BY <1>4, EntryFacts DEF Asks
<1> HIDE DEF t, f, inherits
<1>5. Sound(r)
  BY <1>1, <1>4, InheritFromSound
<1>6. g \in Finding
  <2> HIDE DEF r
  <2>1. TryEntry(f, e, inherits) \in Finding
    BY <1>1, TurnFacts
  <2>2. f = [pc |-> f.pc, outcome |-> f.outcome] /\ f.pc \in Nat
    BY <1>1, FoundFacts
  <2>3. [f EXCEPT !.outcome = "aborted"] = [pc |-> f.pc, outcome |-> "aborted"]
    BY <2>2
  <2>4. [pc |-> f.pc, outcome |-> "aborted"] \in Finding
    BY <2>2 DEF Finding
  <2> QED
    BY <2>1, <2>3, <2>4
<1>7. t \in TurnsOf(c)
  <2> HIDE DEF r, g
  <2>1. r \in Result
    BY <1>5 DEF Sound
  <2>2. t \in [class : {c}, r : Result, found : Finding] /\ t.r = r
    BY <1>3, <1>6, <2>1
  <2> QED
    BY <1>5, <2>2 DEF TurnsOf
<1>8. ASSUME WellNamed, s.r.failed = None, Closed(s.r.heap, c.file)
      PROVE  Unmoved(r, s.r) /\ g = TryEntry(f, e, Ancestors(c.file))
  <2>1. CASE Asks(f, e)
    <3>1. r = InheritFrom(s.r, c, e.catch_type)
      BY <1>1, <2>1
    <3>2. Unmoved(r, s.r) /\ (r.value # None <=> e.catch_type \in Ancestors(c.file))
      BY <1>1, <1>4, <1>8, <2>1, <3>1, AskedOnClosed
    <3> HIDE DEF r
    <3>3. e.catch_type \in inherits <=> e.catch_type \in Ancestors(c.file)
      BY <3>2 DEF inherits
    <3>4. TryEntry(f, e, inherits) = TryEntry(f, e, Ancestors(c.file))
      BY <3>3, SameAnswers
    <3> QED
      BY <3>2, <3>4 DEF Unmoved
  <2>2. CASE ~Asks(f, e)
    <3>1. r = s.r
      BY <2>2
    <3> HIDE DEF r
    <3>2. TryEntry(f, e, inherits) = TryEntry(f, e, Ancestors(c.file))
      BY <2>2, SameAnswers
    <3> QED
      BY <1>8, <3>1, <3>2 DEF Unmoved
  <2> QED
    BY <2>1, <2>2
<1>9. t.r = r /\ t.found = g
  BY <1>3
<1> HIDE DEF r, g
<1> QED
  BY <1>7, <1>8, <1>9 DEF t, f

\* Turn by turn.
LEMMA TurnsOnHeapFacts ==
  ASSUME DiskOK, HeapOK, NEW c, FromFile(c), NEW table \in Seq(TableEntry(Names)), NEW pc \in Nat
  PROVE  /\ TurnsOnHeap(table, pc, c)[0] = [class |-> c, r |-> Start, found |-> NothingFound(pc)]
         /\ \A i \in 0..Len(table) : TurnsOnHeap(table, pc, c)[i] \in TurnsOf(c)
         /\ \A i \in 1..Len(table) :
              TurnsOnHeap(table, pc, c)[i] =
                TryOnHeap(TurnsOnHeap(table, pc, c)[i - 1], table[i])
<1> DEFINE N == Len(table)
           s == [class |-> c, r |-> Start, found |-> NothingFound(pc)]
           V == TurnsOf(c)
           F == [x \in (1..N) \X V |-> TryOnHeap(x[2], table[x[1]])]
           turns == TurnsOnHeap(table, pc, c)
<1>1. N \in Nat /\ \A i \in 1..N : table[i] \in TableEntry(Names)
  BY TableFacts
<1>2. s \in V
  <2>1. NothingFound(pc) \in Finding
    BY DEF NothingFound, Finding
  <2>2. Sound(Start)
    BY StartSound
  <2> QED
    BY <2>1, <2>2 DEF TurnsOf, Sound
<1>3. \A i \in 1..N, t \in V : F[<<i, t>>] = TryOnHeap(t, table[i])
  OBVIOUS
<1>4. \A i \in 1..N, t \in V : TryOnHeap(t, table[i]) \in V
  BY <1>1, TryOnHeapFacts
<1>5. Keeps(V, F, N)
  <2> HIDE DEF F, V, N
  <2> QED
    BY <1>3, <1>4 DEF Keeps
<1> HIDE DEF F, N, s, V
<1>6. PICK g : /\ DOMAIN g = 0..N /\ g[0] = s /\ g = [d \in 0..N |-> g[d]]
               /\ \A d \in 0..N : g[d] \in V
               /\ \A d \in 1..N : g[d] = F[<<d, g[d - 1]>>]
  BY <1>1, <1>2, <1>5, RecursionInSet
<1>7. \A d \in 1..N : d - 1 \in 0..N
  BY <1>1
<1>8. \A d \in 1..N : g[d] = TryOnHeap(g[d - 1], table[d])
  BY <1>3, <1>6, <1>7
<1> DEFINE Is(h) == h = [i \in 0..N |-> IF i = 0 THEN s ELSE TryOnHeap(h[i - 1], table[i])]
<1>9. Is(g)
  <2> HIDE DEF turns
  <2>1. \A i \in 0..N : i # 0 => i \in 1..N
    BY <1>1
  <2>2. g = [i \in 0..N |-> IF i = 0 THEN s ELSE TryOnHeap(g[i - 1], table[i])]
    <3> HIDE DEF Is
    <3> QED
      BY <1>6, <1>8, <2>1
  <2> QED
    BY <2>2
<1>10. turns = CHOOSE h : Is(h)
  BY DEF TurnsOnHeap, N, s
<1>11. Is(turns)
  <2> HIDE DEF Is, turns
  <2> QED
    BY <1>9, <1>10
<1> HIDE DEF turns
<1>12. DOMAIN turns = 0..N
       /\ \A i \in 0..N : turns[i] = IF i = 0 THEN s ELSE TryOnHeap(turns[i - 1], table[i])
  BY <1>11
<1>13. turns[0] = s
  BY <1>1, <1>12
<1>14. \A i \in 1..N : turns[i] = TryOnHeap(turns[i - 1], table[i])
  BY <1>1, <1>12
<1> DEFINE S == {i \in Nat : i \in 0..N => turns[i] \in V}
<1>15. Nat \subseteq S
  <2>1. 0 \in S
    BY <1>2, <1>13
  <2>2. ASSUME NEW k \in Nat, k \in S
        PROVE  k + 1 \in S
    <3>1. SUFFICES ASSUME k + 1 \in 0..N PROVE turns[k + 1] \in V
      OBVIOUS
    <3>2. k \in 0..N /\ k + 1 \in 1..N /\ (k + 1) - 1 = k
      BY <1>1, <3>1
    <3>3. turns[k + 1] = TryOnHeap(turns[k], table[k + 1])
      BY <1>14, <3>2
    <3> QED
      BY <1>4, <2>2, <3>2, <3>3
  <2> HIDE DEF S
  <2> QED
    BY <2>1, <2>2, NaturalsInSet
<1> QED
  BY <1>13, <1>14, <1>15 DEF turns, s, N, V

\* catchException over the class heap, whatever the disk, and over a heap that has
\* all that it may ask for.
LEMMA CatchFacts ==
  ASSUME DiskOK, HeapOK, NEW c, FromFile(c), NEW table \in Seq(TableEntry(Names)), NEW pc \in Nat
  PROVE  /\ Sound(CatchOnHeap(table, pc, c).r)
         /\ WellNamed /\ Closed(heap, c.file) =>
              /\ Unmoved(CatchOnHeap(table, pc, c).r, Start)
              /\ CatchOnHeap(table, pc, c).found = CatchException(table, pc, Ancestors(c.file))
<1> DEFINE N == Len(table)
           A == Ancestors(c.file)
           turns == TurnsOnHeap(table, pc, c)
           found == Turns(table, pc, A)
           S == {i \in Nat : i \in 0..N => Unmoved(turns[i].r, Start) /\ turns[i].found = found[i]}
<1>1. /\ N \in Nat /\ \A i \in 1..N : table[i] \in TableEntry(Names)
  BY TableFacts
<1>2. /\ turns[0] = [class |-> c, r |-> Start, found |-> NothingFound(pc)]
      /\ \A i \in 0..N : turns[i] \in TurnsOf(c)
      /\ \A i \in 1..N : turns[i] = TryOnHeap(turns[i - 1], table[i])
  BY TurnsOnHeapFacts
<1>3. /\ found[0] = NothingFound(pc)
      /\ \A i \in 1..N : found[i] = TryEntry(found[i - 1], table[i], A)
  BY TurnsFacts
<1>4. CatchOnHeap(table, pc, c) = turns[N] /\ CatchException(table, pc, A) = found[N]
  BY DEF CatchOnHeap, CatchException
<1>5. Start.failed = None /\ Start.heap = heap
  BY StartSound
<1> HIDE DEF N, A, turns, found
<1>6. Sound(turns[N].r)
  BY <1>1, <1>2 DEF TurnsOf
<1>7. ASSUME WellNamed, Closed(heap, c.file)
      PROVE  Unmoved(turns[N].r, Start) /\ turns[N].found = found[N]
  <2>1. 0 \in S
    BY <1>2, <1>3, <1>5 DEF Unmoved
  <2>2. ASSUME NEW i \in Nat, i \in S
        PROVE  i + 1 \in S
    <3>1. SUFFICES ASSUME i + 1 \in 0..N
                   PROVE  Unmoved(turns[i + 1].r, Start) /\ turns[i + 1].found = found[i + 1]
      OBVIOUS
    <3>2. i \in 0..N /\ i + 1 \in 1..N /\ (i + 1) - 1 = i
      BY <1>1, <3>1
    <3> DEFINE s == turns[i]
               e == table[i + 1]
    <3>3. Unmoved(s.r, Start) /\ s.found = found[i]
      BY <2>2, <3>2
    <3>4. s \in TurnsOf(c) /\ e \in TableEntry(Names)
      BY <1>1, <1>2, <3>2
    <3>5. turns[i + 1] = TryOnHeap(s, e) /\ found[i + 1] = TryEntry(found[i], e, A)
      BY <1>2, <1>3, <3>2
    <3> HIDE DEF S, s, e
    <3>6. s.r.failed = None /\ Closed(s.r.heap, c.file)
      BY <1>5, <1>7, <3>3 DEF Unmoved
    <3>7. Unmoved(TryOnHeap(s, e).r, s.r) /\ TryOnHeap(s, e).found = TryEntry(s.found, e, A)
      BY <1>7, <3>4, <3>6, TryOnHeapFacts DEF A
    <3> QED
      BY <3>3, <3>5, <3>7 DEF Unmoved
  <2>3. Nat \subseteq S
    <3> HIDE DEF S
    <3> QED
      BY <2>1, <2>2, NaturalsInSet
  <2> QED
    BY <1>1, <2>3
<1> QED
  BY <1>4, <1>6, <1>7 DEF A

-----------------------------------------------------------------------------
(* Objects and throws *)

ObjectsFine == \A c \in objects : FromFile(c) /\ (WellNamed => Closed(heap, c.file))

ThrownFine ==
  Threw =>
    /\ thrown.table \in Tables /\ thrown.pc \in 0..MaxPc
    /\ WellNamed =>
         Outcome = CatchException(thrown.table, thrown.pc, Ancestors(thrown.class.file))

HandlersInv ==
  /\ DiskOK
  /\ vm = "running" => HeapOK /\ ObjectsFine
  /\ ThrownFine

\* The disk is read only.
LEMMA DiskStays ==
  ASSUME disk' = disk
  PROVE  /\ DiskOK' = DiskOK /\ WellNamed' = WellNamed
         /\ \A c : FromFile(c)' = FromFile(c)
         /\ \A n : Closed(heap, n)' = Closed(heap', n)
         /\ Ancestors(thrown.class.file)' = Ancestors(thrown'.class.file)
<1>1. \A n : Upward(n)' = Upward(n)
  BY DEF Upward, SuperOf
<1>2. Ancestors(thrown.class.file)' = Ancestors(thrown'.class.file)
  <2>1. Upward(thrown.class.file)' = Upward(thrown'.class.file)
    BY DEF Upward, SuperOf
  <2> QED
    BY <2>1 DEF Ancestors
<1>3. \A n : Closed(heap, n)' = Closed(heap', n)
  BY <1>1 DEF Closed
<1> QED
  BY <1>2, <1>3 DEF DiskOK, Acyclic, WellNamed, FromFile

LEMMA ThrownStays ==
  ASSUME HandlersInv, disk' = disk, thrown' = thrown
  PROVE  ThrownFine'
<1>1. thrown'.class.file = thrown.class.file
  OBVIOUS
<1>2. Ancestors(thrown.class.file)' = Ancestors(thrown.class.file)
  BY <1>1, DiskStays
<1> QED
  BY <1>2, DiskStays DEF HandlersInv, ThrownFine, Threw, Outcome

\* The heap only grows, so objects keep what they need.
LEMMA ObjectsStay ==
  ASSUME ObjectsFine, disk' = disk, DOMAIN heap \subseteq DOMAIN heap',
         NEW c \in objects
  PROVE  FromFile(c)' /\ (WellNamed' => Closed(heap, c.file)')
<1>1. FromFile(c) /\ (WellNamed => Closed(heap, c.file))
  BY DEF ObjectsFine
<1>2. Closed(heap, c.file) => Closed(heap', c.file)
  BY DEF Closed
<1> QED
  BY <1>1, <1>2, DiskStays

LEMMA LoadsKeep ==
  ASSUME HandlersInv, vm = "running", NEW r, Sound(r), NEW call, Finish(r, call)
  PROVE  /\ disk' = disk /\ DiskOK' /\ DOMAIN heap \subseteq DOMAIN heap'
         /\ vm' = "running" => HeapOK' /\ r.failed = None /\ heap' = r.heap
<1>1. LoadInv
  BY DEF HandlersInv, LoadInv
<1>2. LoadInv' /\ \A n \in DOMAIN heap : n \in DOMAIN heap' /\ heap'[n] = heap[n]
  BY <1>1, FinishKeeps
<1>3. /\ disk' = disk /\ heap' = r.heap
      /\ vm' = IF r.failed = None THEN "running" ELSE r.failed
  BY DEF Finish
<1>4. r.failed \in Failures \cup {None}
  BY ResultFacts DEF Sound
<1>5. vm' = "running" => r.failed = None
  BY <1>3, <1>4 DEF Failures
<1> QED
  BY <1>2, <1>3, <1>5 DEF LoadInv

LEMMA LoadOnlyKeeps ==
  ASSUME HandlersInv, NEW n \in Names, LoadOnly(n)
  PROVE  HandlersInv'
<1> DEFINE r == LoadClass(Start, n)
<1>1. /\ vm = "running" /\ Finish(r, Call("load", n, None))
      /\ objects' = objects /\ thrown' = thrown
  BY DEF LoadOnly, Load
<1>2. Sound(r)
  BY <1>1, StartSound, LoadClassSound DEF HandlersInv
<1> HIDE DEF r
<1>3. /\ disk' = disk /\ DiskOK' /\ DOMAIN heap \subseteq DOMAIN heap'
      /\ vm' = "running" => HeapOK'
  BY <1>1, <1>2, LoadsKeep
<1>4. ThrownFine'
  BY <1>1, <1>3, ThrownStays
<1>5. ObjectsFine'
  BY <1>1, <1>3, ObjectsStay DEF HandlersInv, ObjectsFine
<1> QED
  BY <1>3, <1>4, <1>5 DEF HandlersInv

LEMMA NewObjectKeeps ==
  ASSUME HandlersInv, NEW n \in Names, NewObject(n)
  PROVE  HandlersInv'
<1> DEFINE r == LoadClass(Start, n)
           q == IF r.failed # None THEN r ELSE ToTheTop(r, r.value)
<1>1. /\ vm = "running" /\ Finish(q, Call("new", n, None))
      /\ objects' = objects \cup {class \in {r.value} : vm' = "running"}
      /\ thrown' = thrown
  BY DEF NewObject, New
<1>2. DiskOK /\ HeapOK /\ ObjectsFine
  BY <1>1 DEF HandlersInv
<1>3. Sound(Start) /\ Start.failed = None
  BY <1>2, StartSound
<1>4. /\ Sound(r)
      /\ r.failed = None => r.value # None
  BY <1>2, <1>3, LoadClassSound
<1>5. WellNamed /\ r.failed = None => r.value.file = n /\ n \in DOMAIN r.heap
  BY <1>2, <1>3, LoadByName, LoadGrows
<1> HIDE DEF r
<1>6. r.failed = None => FromFile(r.value)
  BY <1>4 DEF Sound
<1>7. Sound(q)
  BY <1>2, <1>4, <1>6, ToTheTopSound
<1>8. ASSUME q.failed = None
      PROVE  FromFile(r.value) /\ (WellNamed => Closed(q.heap, r.value.file))
  <2>1. r.failed = None /\ q = ToTheTop(r, r.value)
    BY <1>8
  <2>2. WellNamed => r.value.file \in DOMAIN r.heap
    BY <1>5, <2>1
  <2>3. WellNamed => Closed(q.heap, r.value.file)
    BY <1>2, <1>4, <1>6, <1>8, <2>1, <2>2, TopLoadsAll
  <2> QED
    BY <1>6, <2>1, <2>3
<1> HIDE DEF q
<1>9. /\ disk' = disk /\ DiskOK' /\ DOMAIN heap \subseteq DOMAIN heap'
      /\ vm' = "running" => HeapOK' /\ q.failed = None /\ heap' = q.heap
  BY <1>1, <1>7, LoadsKeep
<1>10. ThrownFine'
  BY <1>1, <1>9, ThrownStays
<1>11. ASSUME vm' = "running"
       PROVE  ObjectsFine'
  <2>1. SUFFICES ASSUME NEW c \in objects'
                 PROVE  FromFile(c)' /\ (WellNamed' => Closed(heap, c.file)')
    BY DEF ObjectsFine
  <2>2. CASE c \in objects
    BY <1>2, <1>9, <2>2, ObjectsStay
  <2>3. CASE c = r.value
    <3>1. FromFile(c) /\ (WellNamed => Closed(heap', c.file))
      BY <1>8, <1>9, <1>11, <2>3
    <3> QED
      BY <1>9, <3>1, DiskStays
  <2> QED
    BY <1>1, <2>1, <2>2, <2>3
<1> QED
  BY <1>9, <1>10, <1>11 DEF HandlersInv

LEMMA AthrowKeeps ==
  ASSUME HandlersInv, NEW class \in objects, NEW table \in Tables, NEW pc \in 0..MaxPc,
         Athrow(table, pc, class)
  PROVE  HandlersInv' /\ (WellNamed => UNCHANGED <<heap, parses>>)
<1> DEFINE s == CatchOnHeap(table, pc, class)
           t == [class |-> class, table |-> table, pc |-> pc, found |-> s.found]
<1>1. /\ vm = "running" /\ disk' = disk /\ objects' = objects
      /\ heap' = s.r.heap /\ parses' = s.r.parses
      /\ vm' = IF s.r.failed # None THEN s.r.failed
               ELSE IF s.found.outcome = "aborted" THEN "aborted" ELSE "running"
      /\ thrown' = t
  BY DEF Athrow
<1>2. DiskOK /\ HeapOK /\ ObjectsFine
  BY <1>1 DEF HandlersInv
<1>3. FromFile(class) /\ (WellNamed => Closed(heap, class.file))
  BY <1>2 DEF ObjectsFine
<1>4. table \in Seq(TableEntry(Names)) /\ pc \in Nat
  BY HandlersAssumption
<1>5. /\ Sound(s.r)
      /\ WellNamed =>
           /\ Unmoved(s.r, Start)
           /\ s.found = CatchException(table, pc, Ancestors(class.file))
  BY <1>2, <1>3, <1>4, CatchFacts
<1> HIDE DEF s
<1>6. DOMAIN heap \subseteq DOMAIN heap'
  BY <1>1, <1>5 DEF Sound
<1>7. ASSUME vm' = "running"
      PROVE  HeapOK'
  <2>1. s.r.failed \in Failures \cup {None} /\ s.r.heap \in ClassMaps /\ s.r.parses \in Nat
    BY <1>5, ResultFacts DEF Sound
  <2>2. s.r.failed = None
    BY <1>1, <1>7, <2>1 DEF Failures
  <2>3. s.r.parses = Cardinality(DOMAIN s.r.heap)
    BY <1>5, <2>2 DEF Sound
  <2>4. \A n \in DOMAIN s.r.heap :
          /\ s.r.heap[n] \in JavaClass /\ disk[s.r.heap[n].file] # None
          /\ disk[s.r.heap[n].file].this = n
    BY <1>5 DEF Sound, FromFile, FileOf
  <2> QED
    BY <1>1, <2>1, <2>3, <2>4 DEF HeapOK, FromFile, FileOf
<1>8. ObjectsFine'
  BY <1>1, <1>2, <1>6, ObjectsStay DEF ObjectsFine
<1>9. ThrownFine'
  <2>1. thrown'.class = class /\ thrown'.table = table /\ thrown'.pc = pc /\ thrown'.found = s.found
    BY <1>1
  <2>2. WellNamed => thrown'.found = CatchException(table, pc, Ancestors(thrown'.class.file))
    BY <1>5, <2>1
  <2> HIDE DEF t
  <2> QED
    BY <1>1, <2>1, <2>2, DiskStays DEF ThrownFine, Outcome
<1>10. DiskOK'
  BY <1>1, <1>2, DiskStays
<1>11. WellNamed => UNCHANGED <<heap, parses>>
  BY <1>1, <1>5 DEF Unmoved, Start
<1> QED
  BY <1>7, <1>8, <1>9, <1>10, <1>11 DEF HandlersInv

LEMMA HandlersStart ==
  ASSUME NEW D, D \subseteq {d \in [Names -> ClassFile \cup {None}] : Acyclic(d)},
         HandlerInitOn(D)
  PROVE  HandlersInv
<1>1. InitOn(D) /\ objects = {} /\ thrown = NoThrow
  BY DEF HandlerInitOn
<1>2. LoadInv
  BY <1>1, EmptyHeap
<1> QED
  BY <1>1, <1>2 DEF HandlersInv, LoadInv, ObjectsFine, ThrownFine, Threw

LEMMA HandlersStep ==
  ASSUME HandlersInv, [HandlerNext]_handlerVars
  PROVE  HandlersInv' /\ (WellNamed /\ thrown' # thrown => UNCHANGED <<heap, parses>>)
<1>1. CASE UNCHANGED handlerVars
  <2>1. /\ disk' = disk /\ heap' = heap /\ parses' = parses /\ vm' = vm
        /\ objects' = objects /\ thrown' = thrown
    BY <1>1 DEF handlerVars, vars
  <2>2. ThrownFine' /\ DiskOK'
    BY <2>1, ThrownStays, DiskStays DEF HandlersInv
  <2>3. vm = "running" => ObjectsFine'
    BY <2>1, ObjectsStay DEF HandlersInv, ObjectsFine
  <2>4. vm = "running" => HeapOK'
    BY <2>1 DEF HandlersInv, HeapOK, FromFile, FileOf
  <2> QED
    BY <2>1, <2>2, <2>3, <2>4 DEF HandlersInv
<1>2. ASSUME NEW n \in Names, LoadOnly(n) \/ NewObject(n)
      PROVE  HandlersInv' /\ thrown' = thrown
  BY <1>2, LoadOnlyKeeps, NewObjectKeeps DEF LoadOnly, NewObject
<1>3. ASSUME NEW class \in objects, NEW table \in Tables, NEW pc \in 0..MaxPc,
             Athrow(table, pc, class)
      PROVE  HandlersInv' /\ (WellNamed => UNCHANGED <<heap, parses>>)
  BY <1>3, AthrowKeeps
<1> QED
  BY <1>1, <1>2, <1>3 DEF HandlerNext

-----------------------------------------------------------------------------
(* What the last throw found *)

\* The first entry of those with the pc inside, as a set and as a first index.
LEMMA FirstInsideFacts ==
  ASSUME NEW table \in Seq(TableEntry(Names)), NEW n \in Nat, NEW pc \in Nat
  PROVE  /\ \A k \in FirstInside(table, n, pc) :
              /\ k \in n..Len(table) /\ Covers(table[k], pc)
              /\ \A i \in n..(k - 1) : ~Covers(table[i], pc)
         /\ FirstInside(table, n, pc) = {} =>
              \A i \in n..Len(table) : ~Covers(table[i], pc)
<1>1. \A e : Inside(e, pc) <=> Covers(e, pc)
  BY DEF Inside, Covers
<1>2. \A k \in FirstInside(table, n, pc) :
        /\ k \in n..Len(table) /\ Covers(table[k], pc)
        /\ \A i \in n..(k - 1) : ~Covers(table[i], pc)
  BY <1>1 DEF FirstInside
<1>3. ASSUME FirstInside(table, n, pc) = {}
      PROVE  \A i \in n..Len(table) : ~Covers(table[i], pc)
  <2> DEFINE S == {m \in Nat : \A i \in n..m : i \in n..Len(table) => ~Covers(table[i], pc)}
  <2>1. Len(table) \in Nat
    BY TableFacts
  <2>2. ASSUME NEW m \in Nat, \A i \in n..(m - 1) : i \in n..Len(table) => ~Covers(table[i], pc)
        PROVE  m \in S
    <3>1. SUFFICES ASSUME m \in n..Len(table), Covers(table[m], pc) PROVE FALSE
      BY <2>2
    <3>2. \A i \in n..(m - 1) : ~Inside(table[i], pc)
      BY <1>1, <2>1, <2>2, <3>1
    <3> QED
      BY <1>1, <1>3, <3>1, <3>2 DEF FirstInside
  <2>3. 0 \in S
    BY <2>2
  <2>4. \A m \in Nat : m \in S => m + 1 \in S
    BY <2>2
  <2>5. Len(table) \in S
    <3> HIDE DEF S
    <3> QED
      BY <2>1, <2>3, <2>4, NaturalsInSet
  <2> QED
    BY <2>1, <2>5
<1> QED
  BY <1>2, <1>3

LEMMA FirstEntryIsRight ==
  ASSUME ThrownFine
  PROVE  FirstEntryDecides
<1> DEFINE table == thrown.table
           pc == thrown.pc
           A == Ancestors(thrown.class.file)
           N == Len(table)
           match == {i \in DOMAIN table :
                       /\ table[i].start_pc <= pc /\ pc < table[i].end_pc
                       /\ table[i].catch_type = AnyType \/ Catches(table[i])}
           first == CHOOSE i \in match : \A j \in match : i <= j
           Right(k) ==
             LET handler == table[k].handler_pc
                 again == FirstInside(table, k + 1, handler)
             IN  /\ ~Catches(table[k]) => Outcome = [pc |-> pc, outcome |-> "escaped"]
                 /\ Catches(table[k]) /\ again = {} =>
                      /\ Outcome = [pc |-> handler, outcome |-> "caught"]
                      /\ pc # table[k].end_pc => Outcome = JvmHandler(table, pc)
                 /\ Catches(table[k]) /\ (\E j \in again : ~Catches(table[j])) =>
                      Outcome = [pc |-> handler, outcome |-> "escaped"]
<1>1. SUFFICES ASSUME Threw, WellNamed, Named(table)
               PROVE  /\ FirstInside(table, 1, pc) = {} => Outcome = JvmHandler(table, pc)
                      /\ \A k \in FirstInside(table, 1, pc) : Right(k)
  BY DEF FirstEntryDecides
<1>2. /\ table \in Seq(TableEntry(Names)) /\ pc \in Nat
      /\ Outcome = CatchException(table, pc, A)
  BY <1>1, HandlersAssumption DEF ThrownFine
<1>3. JvmHandler(table, pc) =
        IF match = {} THEN [pc |-> pc, outcome |-> "missed"]
        ELSE [pc |-> table[first].handler_pc, outcome |-> "caught"]
  BY DEF JvmHandler
<1>4. \A e : Catches(e) <=> e.catch_type \in A
  BY DEF Catches
<1> HIDE DEF table, pc, A
<1>5. /\ N \in Nat /\ DOMAIN table = 1..N
      /\ \A i \in 1..N : /\ table[i] \in TableEntry(Names)
                         /\ table[i].start_pc \in Nat /\ table[i].end_pc \in Nat
                         /\ table[i].handler_pc \in Nat
  BY <1>2, TableFacts, EntryFacts
<1>6. match \subseteq {i \in 1..N : Covers(table[i], pc)}
  BY <1>2, <1>5 DEF Covers
<1>7. ASSUME FirstInside(table, 1, pc) = {}
      PROVE  Outcome = JvmHandler(table, pc)
  <2>1. \A i \in 1..N : ~Covers(table[i], pc)
    BY <1>2, <1>7, FirstInsideFacts
  <2>2. match = {}
    BY <1>6, <2>1
  <2>3. Outcome = NothingFound(pc)
    BY <1>1, <1>2, <2>1, OneEntryDecides
  <2> QED
    BY <1>3, <2>2, <2>3 DEF NothingFound
<1>8. ASSUME NEW k \in FirstInside(table, 1, pc)
      PROVE  Right(k)
  <2> DEFINE h == table[k].handler_pc
             again == FirstInside(table, k + 1, h)
  <2>1. k \in 1..N /\ Covers(table[k], pc) /\ \A i \in 1..(k - 1) : ~Covers(table[i], pc)
    BY <1>2, FirstInsideFacts
  <2>2. h \in Nat /\ k + 1 \in Nat
    BY <1>5, <2>1
  <2>3. ASSUME ~Catches(table[k])
        PROVE  Outcome = [pc |-> pc, outcome |-> "escaped"]
    BY <1>1, <1>2, <1>4, <2>1, <2>3, OneEntryDecides
  <2>4. ASSUME Catches(table[k]), again = {}
        PROVE  Outcome = [pc |-> h, outcome |-> "caught"]
    <3>1. \A i \in (k + 1)..N : ~Covers(table[i], h)
      BY <1>2, <2>2, <2>4, FirstInsideFacts
    <3> QED
      BY <1>1, <1>2, <1>4, <2>1, <2>4, <3>1, OneEntryDecides
  <2>5. ASSUME Catches(table[k]), pc # table[k].end_pc
        PROVE  JvmHandler(table, pc) = [pc |-> h, outcome |-> "caught"]
    <3>1. k \in match
      BY <1>2, <1>5, <2>1, <2>5 DEF Covers
    <3>2. \A i \in match : k <= i
      BY <1>5, <1>6, <2>1
    <3>3. first = k
      <4>1. \A i \in match : i \in Nat
        BY <1>6
      <4>2. \E i \in match : \A j \in match : i <= j
        BY <3>1, <3>2
      <4>3. first \in match /\ \A j \in match : first <= j
        <5> HIDE DEF match
        <5> QED
          BY <4>2
      <4> HIDE DEF match, first
      <4> QED
        BY <3>1, <3>2, <4>1, <4>3
    <3>4. match # {}
      BY <3>1
    <3> HIDE DEF match, first
    <3> QED
      BY <1>3, <3>3, <3>4
  <2>6. ASSUME Catches(table[k]), NEW j \in again, ~Catches(table[j])
        PROVE  Outcome = [pc |-> h, outcome |-> "escaped"]
    <3>1. j \in (k + 1)..N /\ Covers(table[j], h) /\ \A i \in (k + 1)..(j - 1) : ~Covers(table[i], h)
      BY <1>2, <2>2, FirstInsideFacts
    <3> QED
      BY <1>1, <1>2, <1>4, <2>1, <2>6, <3>1, OneEntryDecides
  <2> HIDE DEF h, again
  <2> QED
    BY <2>3, <2>4, <2>5, <2>6 DEF h, again
<1> QED
  BY <1>7, <1>8

LEMMA LaterAreSeen ==
  ASSUME ThrownFine
  PROVE  LaterEntriesSeeTheHandler
<1> DEFINE table == thrown.table
           pc == thrown.pc
           A == Ancestors(thrown.class.file)
           N == Len(table)
           q == Outcome
<1>1. SUFFICES ASSUME Threw, WellNamed
               PROVE  /\ q.outcome = "caught" =>
                           \E i \in DOMAIN table :
                             /\ Catches(table[i])
                             /\ q.pc = table[i].handler_pc
                             /\ \A j \in (i + 1)..N : ~Inside(table[j], q.pc)
                      /\ q.outcome = "missed" => q.pc = pc
  BY DEF LaterEntriesSeeTheHandler
<1>2. /\ table \in Seq(TableEntry(Names)) /\ pc \in 0..MaxPc /\ pc \in Nat
      /\ q = CatchException(table, pc, A)
  BY <1>1, HandlersAssumption DEF ThrownFine
<1>3. \A e : (Catches(e) <=> e.catch_type \in A) /\ \A p : Inside(e, p) <=> Covers(e, p)
  BY DEF Catches, Inside, Covers
<1> HIDE DEF table, pc, A, q
<1>4. DOMAIN table = 1..N
  BY <1>2, TableFacts
<1>5. /\ q.outcome = "caught" =>
           \E k \in 1..N : /\ table[k].catch_type \in A
                           /\ q.pc = table[k].handler_pc
                           /\ \A j \in (k + 1)..N : ~Covers(table[j], q.pc)
      /\ q.outcome = "missed" => q.pc = pc
  BY <1>2, CaughtFacts
<1> HIDE DEF N
<1> QED
  BY <1>3, <1>4, <1>5

-----------------------------------------------------------------------------
(* For every table, on every disk without a cycle of superclasses *)

\* The search that catchException makes through the class heap, with the loading of
\* isInheritFrom, ends as the search over the fixed set of ancestors: what an object's
\* creation has loaded is all that an athrow needs.
THEOREM HeapSearchIsLineageSearch ==
  ASSUME NEW D, D \subseteq {d \in [Names -> ClassFile \cup {None}] : Acyclic(d)}
  PROVE  HandlerInitOn(D) /\ [][HandlerNext]_handlerVars => []HeapAnswersLikeLineage
<1>1. HandlerInitOn(D) => HandlersInv
  BY HandlersStart
<1>2. HandlersInv /\ [HandlerNext]_handlerVars => HandlersInv'
  BY HandlersStep
<1>3. HandlersInv => HeapAnswersLikeLineage
  BY DEF HandlersInv, ThrownFine, HeapAnswersLikeLineage
<1> QED
  BY <1>1, <1>2, <1>3, PTL

\* An athrow parses no file and leaves no class behind, whatever its exception table
\* asks for and whatever was thrown before.
THEOREM ThrowsLoadNothing ==
  ASSUME NEW D, D \subseteq {d \in [Names -> ClassFile \cup {None}] : Acyclic(d)}
  PROVE  HandlerInitOn(D) /\ [][HandlerNext]_handlerVars => SearchLoadsNothing
<1> DEFINE Quiet == WellNamed /\ thrown' # thrown => UNCHANGED <<heap, parses>>
<1>1. HandlerInitOn(D) => HandlersInv
  BY HandlersStart
<1>2. HandlersInv /\ [HandlerNext]_handlerVars => HandlersInv' /\ [Quiet]_handlerVars
  BY HandlersStep
<1> QED
  BY <1>1, <1>2, PTL DEF SearchLoadsNothing

\* On every table without finally, of any length and with any number of catch clauses
\* for a range, the first entry with the pc inside decides: the search is that of the
\* JVM specification when that entry catches, does not end at the pc, and no later range
\* has its handler inside; the exception escapes when it is for another class.
THEOREM FirstEntryDecidesEveryThrow ==
  ASSUME NEW D, D \subseteq {d \in [Names -> ClassFile \cup {None}] : Acyclic(d)}
  PROVE  HandlerInitOn(D) /\ [][HandlerNext]_handlerVars => []FirstEntryDecides
<1>1. HandlerInitOn(D) => HandlersInv
  BY HandlersStart
<1>2. HandlersInv /\ [HandlerNext]_handlerVars => HandlersInv'
  BY HandlersStep
<1>3. HandlersInv => FirstEntryDecides
  BY FirstEntryIsRight DEF HandlersInv
<1> QED
  BY <1>1, <1>2, <1>3, PTL

\* On any table, a caught exception is at the handler of a matching entry behind which
\* no entry covers that handler, because the loop goes on after a match.
THEOREM CaughtAtTheLastHandler ==
  ASSUME NEW D, D \subseteq {d \in [Names -> ClassFile \cup {None}] : Acyclic(d)}
  PROVE  HandlerInitOn(D) /\ [][HandlerNext]_handlerVars => []LaterEntriesSeeTheHandler
<1>1. HandlerInitOn(D) => HandlersInv
  BY HandlersStart
<1>2. HandlersInv /\ [HandlerNext]_handlerVars => HandlersInv'
  BY HandlersStep
<1>3. HandlersInv => LaterEntriesSeeTheHandler
  BY LaterAreSeen DEF HandlersInv
<1> QED
  BY <1>1, <1>2, <1>3, PTL
=============================================================================

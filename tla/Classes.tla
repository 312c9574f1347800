------------------------------ MODULE Classes -------------------------------
(***************************************************************************)
(* The class heap and the searches that go up the superclasses: loadClass, *)
(* getClass and addClass of src/ClassHeap.cpp, getMethodID, getFieldCount, *)
(* isInheritFrom and getSuperClass of src/JavaClass.cpp.  Superclasses are *)
(* loaded when a search reaches them.  One action is one call from outside *)
(* with all the loading it causes.                                         *)
(***************************************************************************)
EXTENDS Integers, FiniteSets

CONSTANTS
  Names,    \* class names, which are also paths under lib/ without ".class"
  None,     \* no file, no superclass, no class
  Members   \* method names with their descriptors

\* What a class file says: the name of this_class, super_class, and the methods it
\* declares.
ClassFile == [this : Names, super : Names \cup {None}, methods : SUBSET Members]

\* A class on the heap, told apart by its file and by when it was parsed.
JavaClass == [file : Names, parse : Nat]

\* The assertions that end the process, and getClass without a file.
Failures == {"duplicate", "no file", "no method"}

ASSUME ClassesNamesAssumption ==
  /\ IsFiniteSet(Names)
  /\ None \notin Names
  /\ None \notin JavaClass
  /\ None \notin Failures

VARIABLES
  disk,    \* disk[n]: the class file lib/n.class, or None
  heap,    \* _classMap: name -> JavaClass
  parses,  \* how many files were parsed
  vm,      \* "running", or "aborted" with the assertion that failed
  answer   \* what the last call returned or threw

vars == <<disk, heap, parses, vm, answer>>

-----------------------------------------------------------------------------
(* Loading *)

\* A result: the heap and the parses behind a call, what it answered, and the
\* assertion that failed, if any.
Start == [heap |-> heap, parses |-> parses, value |-> None, failed |-> None]
Fail(r, assertion) == [r EXCEPT !.failed = assertion]

\* The object parseClass fills from file n.
Parsed(n, r) == [file |-> n, parse |-> r.parses + 1]

\* Mutant: a second class of the same name replaces the first.
AddClassReplacing(r, n) ==
  [r EXCEPT !.parses = @ + 1, !.value = Parsed(n, r),
            !.heap = [k \in DOMAIN @ \cup {disk[n].this} |->
                        IF k = disk[n].this THEN Parsed(n, r) ELSE @[k]]]

\* addClass keys the class by the name inside the file; the insertion of a key
\* that is there is an assertion failure.
AddClass(r, n) ==
  LET this == disk[n].this IN
  IF this \in DOMAIN r.heap
  THEN Fail([r EXCEPT !.parses = @ + 1], "duplicate")
  ELSE [r EXCEPT !.parses = @ + 1, !.value = Parsed(n, r),
                 !.heap = [k \in DOMAIN @ \cup {this} |->
                             IF k = this THEN Parsed(n, r) ELSE @[k]]]

\* Mutant: the class heap is not asked first.
LoadClassAgain(r, n) ==
  IF r.failed # None THEN r
  ELSE IF disk[n] = None THEN Fail(r, "no file")
  ELSE AddClass(r, n)

\* loadClass, and getClass, which looks twice: found under the name that was asked
\* for, or parsed from the file of that name.
LoadClass(r, n) ==
  IF r.failed # None THEN r
  ELSE IF n \in DOMAIN r.heap THEN [r EXCEPT !.value = r.heap[n]]
  ELSE IF disk[n] = None THEN Fail(r, "no file")
  ELSE AddClass(r, n)

\* The contents of a loaded class.
FileOf(class) == disk[class.file]

-----------------------------------------------------------------------------
(* Searches up the superclasses *)

\* getSuperClass of the class found so far.  value None: getSuperClassName threw,
\* because there is no superclass.
Up(r) ==
  IF r.failed # None \/ r.value = None THEN r
  ELSE IF FileOf(r.value).super = None THEN [r EXCEPT !.value = None]
  ELSE LoadClass(r, FileOf(r.value).super)

\* Climbed(r, c)[d]: the result d superclasses above c, loading them from r on.
Climbed(r, c) ==
  LET up[d \in 0..Cardinality(Names)] ==
        IF d = 0 THEN [r EXCEPT !.value = c] ELSE Up(up[d - 1])
  IN  up

\* The first result that ends the climb: found, failed, or no class left.
FirstOf(up, Found(_)) ==
  LET ends == {d \in DOMAIN up :
                 up[d].failed # None \/ up[d].value = None \/ Found(up[d].value)}
  IN  up[CHOOSE d \in ends : \A e \in ends : d <= e]

\* Mutant: the search begins at the superclass.
MethodIdAbove(r, c, m) ==
  LET Declares(class) == class # c /\ m \in FileOf(class).methods
      found == FirstOf(Climbed(r, c), Declares)
  IN  IF FileOf(c).methods = {} THEN [r EXCEPT !.value = None]
      ELSE IF found.failed = None /\ found.value = None THEN Fail(found, "no method")
      ELSE found

\* Mutant: all superclasses are loaded before the search.
MethodIdEager(r, c, m) ==
  LET Declares(class) == m \in FileOf(class).methods
      Never(class) == FALSE
      found == FirstOf(Climbed(FirstOf(Climbed(r, c), Never), c), Declares)
  IN  IF FileOf(c).methods = {} THEN [r EXCEPT !.value = None]
      ELSE IF found.failed = None /\ found.value = None THEN Fail(found, "no method")
      ELSE found

\* getMethodID from class c.  A class without methods throws at once, even if it
\* inherits some; a search that ends behind Object is an assertion failure.
MethodId(r, c, m) ==
  LET Declares(class) == m \in FileOf(class).methods
      found == FirstOf(Climbed(r, c), Declares)
  IN  IF FileOf(c).methods = {} THEN [r EXCEPT !.value = None]
      ELSE IF found.failed = None /\ found.value = None THEN Fail(found, "no method")
      ELSE found

\* Mutant: the class itself is not compared.
InheritFromAbove(r, c, name) ==
  LET Named(class) == class # c /\ FileOf(class).this = name
  IN  FirstOf(Climbed(r, c), Named)

\* isInheritFrom: value is the class of that name, or None for the runtime_error
\* thrown behind Object.
InheritFrom(r, c, name) ==
  LET Named(class) == FileOf(class).this = name
  IN  FirstOf(Climbed(r, c), Named)

\* getFieldCount climbs to the top.
ToTheTop(r, c) ==
  LET Never(class) == FALSE
  IN  FirstOf(Climbed(r, c), Never)

-----------------------------------------------------------------------------
(* Calls from outside *)

\* The call is over: its loading is kept, also when it threw.
Finish(r, call) ==
  /\ heap' = r.heap
  /\ parses' = r.parses
  /\ vm' = IF r.failed = None THEN "running" ELSE r.failed
  /\ answer' = [call EXCEPT !.value = r.value]
  /\ UNCHANGED disk

Call(op, of, arg) == [op |-> op, of |-> of, arg |-> arg, value |-> None]

\* JavaVM::loadClass, and resolveClassName.
Load(n) == vm = "running" /\ Finish(LoadClass(Start, n), Call("load", n, None))

\* The class of a Methodref is loaded, then its method is looked up, whatever the
\* class of the receiver is.
ResolveMethod(n, m) ==
  /\ vm = "running"
  /\ LET r == LoadClass(Start, n) IN
     Finish(IF r.failed # None THEN r ELSE MethodId(r, r.value, m), Call("method", n, m))

\* createObject first counts the fields of the class and of all above it.
New(n) ==
  /\ vm = "running"
  /\ LET r == LoadClass(Start, n) IN
     Finish(IF r.failed # None THEN r ELSE ToTheTop(r, r.value), Call("new", n, None))

\* catchException asks the class of the thrown object.
AskInheritance(n, name) ==
  /\ vm = "running"
  /\ n \in DOMAIN heap
  /\ Finish(InheritFrom(Start, heap[n], name), Call("inherits", n, name))

InitOn(disks) ==
  /\ disk \in disks
  /\ heap = <<>>
  /\ parses = 0
  /\ vm = "running"
  /\ answer = Call("none", None, None)

Next ==
  \E n \in Names :
    \/ Load(n) \/ New(n)
    \/ \E m \in Members : ResolveMethod(n, m)
    \/ \E name \in Names : AskInheritance(n, name)

-----------------------------------------------------------------------------
(* Loading, whatever is asked *)

\* No class is its own ancestor, neither by the name it is asked for nor by the name
\* in its file: on other disks the climb of the code does not end.
Acyclic(d) ==
  \E rank \in [Names -> 1..Cardinality(Names)] :
    \A n \in Names : d[n] # None /\ d[n].super # None =>
      /\ rank[d[n].super] < rank[n]
      /\ rank[d[n].super] < rank[d[n].this]

\* A loaded class stays the class of its name: the JavaClass that objects, frames
\* and method tables point to is never replaced or dropped by later loading.
ClassIdentity ==
  [][\A n \in DOMAIN heap : n \in DOMAIN heap' /\ heap'[n] = heap[n]]_vars

WellNamed == \A n \in Names : disk[n] # None => disk[n].this = n

\* Every file is parsed at most once, on whatever path a search reaches it, and the
\* assertion of addClass fails only for a file that holds a class of another name.
ParsedOnce ==
  /\ vm = "running" => parses = Cardinality(DOMAIN heap)
  /\ vm = "duplicate" => ~WellNamed

\* Reference: the names from n upward, as the files say, and None behind the last one.
SuperOf(n) == IF n = None \/ disk[n] = None THEN None ELSE disk[n].super
Upward(n) ==
  LET line[d \in 0..Cardinality(Names)] == IF d = 0 THEN n ELSE SuperOf(line[d - 1])
  IN  line

\* The files that declare a method, and the file of a class.
Wanted(call) ==
  {n \in Names : disk[n] # None /\ IF call.op = "method" THEN call.arg \in disk[n].methods
                                   ELSE call.arg = n}

\* A method reference resolves to the nearest declaration above its class (unless
\* that class declares nothing), and "inherits" to an ancestor of that name.
NearestIsFound ==
  WellNamed /\ vm = "running" /\ answer.op \in {"method", "inherits"} =>
    LET line == Upward(answer.of)
        fits == {k \in DOMAIN line : line[k] \in Wanted(answer)}
        mute == answer.op = "method" /\ disk[answer.of].methods = {}
    IN  IF fits = {} \/ mute THEN answer.value = None
        ELSE /\ answer.value # None
             /\ answer.value.file = line[CHOOSE k \in fits : \A j \in fits : k <= j]

\* A search loads the classes it passes and none above the one it finds.
LoadsOnlyItsPath ==
  [][WellNamed /\ vm' = "running" =>
       LET line == Upward(answer'.of)
           stop == {k \in DOMAIN line :
                      answer'.value # None /\ line[k] = answer'.value.file}
           path == {line[k] : k \in {k \in DOMAIN line : \A j \in stop : k <= j}}
       IN  DOMAIN heap' \subseteq DOMAIN heap \cup path]_vars
=============================================================================

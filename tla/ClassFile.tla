------------------------------ MODULE ClassFile ------------------------------
(***************************************************************************)
(* What a class file is, and the parser on class files.  A class is a      *)
(* record of its tables; constants name each other by their place among    *)
(* the constants.  IsClassFile says at which offset each part of a class   *)
(* stands, as the class file format lays it out.                           *)
(***************************************************************************)
EXTENDS ClassParser, Numbers

CONSTANTS
  Classes,     \* the classes whose files are parsed
  FileOf(_)    \* the file of a class

-----------------------------------------------------------------------------
(* Classes *)

\* refs are places among the constants.
ConstantEntry == [tag : STRING, length : Nat, refs : Seq(Nat)]

PlainAttribute == [name : STRING \ {"Code"}, length : Nat]
CodeAttribute == [name : {"Code"}, length : Nat, entries : Nat, inner : Seq(PlainAttribute)]
AttributeList == Seq(PlainAttribute \cup CodeAttribute)

\* A field or method is the list of its attributes.
ClassTree ==
  [constants : Seq(ConstantEntry), interfaces : Nat, fields : Seq(AttributeList),
   methods : Seq(AttributeList), attributes : AttributeList]

RefsInRange(constants) ==
  \A k \in DOMAIN constants : \A j \in DOMAIN constants[k].refs :
    constants[k].refs[j] \in DOMAIN constants

-----------------------------------------------------------------------------
(* Offsets *)

\* Where the k-th of parts of these sizes begins that follow each other from an offset.
Begins(sizes, at, k) == at + SumTo(sizes, k - 1)
Ends(sizes, at) == at + SumTo(sizes, Len(sizes))

Wide(c) == c.tag \in {"Long", "Double"}

\* A long or double takes two slots.
SlotsOf(constants) == [k \in DOMAIN constants |-> IF Wide(constants[k]) THEN 2 ELSE 1]
SlotNumber(constants, k) == Begins(SlotsOf(constants), 1, k)

ConstantSize(c) ==
  CASE c.tag = "Utf8" -> 3 + c.length
    [] c.tag \in {"Class", "String", "MethodType"} -> 3
    [] c.tag = "MethodHandle" -> 4
    [] Wide(c) -> 9
    [] OTHER -> 5
ConstantSizes(constants) == [k \in DOMAIN constants |-> ConstantSize(constants[k])]

PlainSizes(as) == [k \in DOMAIN as |-> 6 + as[k].length]

\* Code: max_stack, max_locals, code, exception table and attribute count.
CodeSize(a) == 12 + a.length + 8 * a.entries
BodySize(a) ==
  IF a.name = "Code" THEN Ends(PlainSizes(a.inner), CodeSize(a)) ELSE a.length
AttributeSizes(as) == [k \in DOMAIN as |-> 6 + BodySize(as[k])]

MemberSizes(members) ==
  [k \in DOMAIN members |-> Ends(AttributeSizes(members[k]), 8)]

ConstantAt(cls, k) == Begins(ConstantSizes(cls.constants), 10, k)
ClassAt(cls) == Ends(ConstantSizes(cls.constants), 10)
InterfacesAt(cls) == ClassAt(cls) + 6
FieldsAt(cls) == InterfacesAt(cls) + 2 + 2 * cls.interfaces
MethodsAt(cls) == Ends(MemberSizes(cls.fields), FieldsAt(cls) + 2)
AttributesAt(cls) == Ends(MemberSizes(cls.methods), MethodsAt(cls) + 2)
EndAt(cls) == Ends(AttributeSizes(cls.attributes), AttributesAt(cls) + 2)

-----------------------------------------------------------------------------
(* Files *)

Has(f, at, kind) == at \in DOMAIN f /\ f[at].is = kind
HasCount(f, at, n) == Has(f, at, "count") /\ f[at].n = n

\* "meant" and "id" are the writer's: places, where refs are slots.
HasConstant(f, at, constants, k) ==
  LET c == constants[k] IN
  /\ Has(f, at, "constant")
  /\ f[at].tag = c.tag /\ f[at].length = c.length /\ f[at].id = k /\ f[at].meant = c.refs
  /\ f[at].refs = [j \in DOMAIN c.refs |-> SlotNumber(constants, c.refs[j])]

HasAttribute(f, at, name, length) ==
  Has(f, at, "attribute") /\ f[at].name = name /\ f[at].length = length

HasCode(f, at, a) ==
  /\ Has(f, at, "code")
  /\ f[at].length = a.length /\ f[at].entries = a.entries /\ f[at].n = Len(a.inner)
  /\ \A k \in DOMAIN a.inner :
       HasAttribute(f, Begins(PlainSizes(a.inner), at + CodeSize(a), k),
                    a.inner[k].name, a.inner[k].length)

HasAttributes(f, at, as) ==
  \A k \in DOMAIN as :
    LET here == Begins(AttributeSizes(as), at, k) IN
    /\ HasAttribute(f, here, as[k].name, BodySize(as[k]))
    /\ as[k].name = "Code" => HasCode(f, here + 6, as[k])

MemberAt(members, at, k) == Begins(MemberSizes(members), at + 2, k)
HasMembers(f, at, members) ==
  /\ HasCount(f, at, Len(members))
  /\ \A k \in DOMAIN members :
       LET here == MemberAt(members, at, k) IN
       /\ Has(f, here, "member") /\ f[here].n = Len(members[k])
       /\ HasAttributes(f, here + 8, members[k])

\* Every attribute in the file is one of these lists', or of a Code attribute there.
AttributeOf(f, here, as, at) ==
  \E k \in DOMAIN as :
    \/ here = Begins(AttributeSizes(as), at, k)
    \/ /\ as[k].name = "Code"
       /\ \E j \in DOMAIN as[k].inner :
            here = Begins(PlainSizes(as[k].inner),
                          Begins(AttributeSizes(as), at, k) + 6 + CodeSize(as[k]), j)

NothingElse(f, cls) ==
  \A here \in DOMAIN f :
    /\ f[here] # Null
    /\ f[here].is = "constant" => \E k \in DOMAIN cls.constants : here = ConstantAt(cls, k)
    /\ f[here].is = "attribute" =>
         \/ \E k \in DOMAIN cls.fields :
              AttributeOf(f, here, cls.fields[k], MemberAt(cls.fields, FieldsAt(cls), k) + 8)
         \/ \E k \in DOMAIN cls.methods :
              AttributeOf(f, here, cls.methods[k], MemberAt(cls.methods, MethodsAt(cls), k) + 8)
         \/ AttributeOf(f, here, cls.attributes, AttributesAt(cls) + 2)

IsClassFile(f, cls) ==
  /\ Has(f, 0, "header")
  /\ f[0].n = SlotNumber(cls.constants, Len(cls.constants) + 1)
  /\ \A k \in DOMAIN cls.constants : HasConstant(f, ConstantAt(cls, k), cls.constants, k)
  /\ Has(f, ClassAt(cls), "class")
  /\ HasCount(f, InterfacesAt(cls), cls.interfaces)
  /\ HasMembers(f, FieldsAt(cls), cls.fields)
  /\ HasMembers(f, MethodsAt(cls), cls.methods)
  /\ HasCount(f, AttributesAt(cls), Len(cls.attributes))
  /\ HasAttributes(f, AttributesAt(cls) + 2, cls.attributes)
  /\ Has(f, EndAt(cls), "end")
  /\ NothingElse(f, cls)

\* The files are class files: of any classes, at any length.
ASSUME ClassFileAssumption ==
  /\ Classes \subseteq ClassTree
  /\ \A cls \in Classes : RefsInRange(cls.constants) /\ IsClassFile(FileOf(cls), cls)
  /\ Files \subseteq {FileOf(cls) : cls \in Classes}

-----------------------------------------------------------------------------

\* Every link resolveConstPool stores leads to the constant the file's writer meant,
\* wherever longs and doubles moved the numbering, and whichever comes first.
LinksReachWhatWasMeant ==
  \A slot \in DOMAIN links : \A k \in DOMAIN links[slot] :
    /\ links[slot][k] # Null
    /\ links[slot][k].id = pool[slot].meant[k]

\* What a class file may not have: a constant of Java 7 or later, a long or double
\* (resolveConstPool reads its phantom slot), or an attribute parseAttributes does not
\* know, at any depth.
Unloadable ==
  \E at \in DOMAIN file :
    \/ file[at].is = "constant" /\ (Wide(file[at]) \/ file[at].tag \notin Tags)
    \/ file[at].is = "attribute" /\ file[at].name \notin Known

\* parseClass gives up on exactly those files.
RefusesExactlyTheUnloadable ==
  /\ vm = "parsed" => ~Unloadable
  /\ vm = "aborted" => Unloadable

\* Wherever parseClass and parseAttributes read next, by cursors that two routines
\* advance by sizes of their own, there stands an item of the kind they take it for.
CursorsOnItems ==
  /\ section = "header" => Reads(offset, "header")
  /\ section = "constants" => Reads(offset, IF PoolRead THEN "class" ELSE "constant")
  /\ section \in {"class", "interfaces"} => Reads(offset, "count")
  /\ section \in {"fields", "methods"} /\ calls = <<>> =>
       Reads(offset, IF left > 0 THEN "member" ELSE "count")
  /\ calls # <<>> /\ Innermost.left > 0 =>
       /\ Reads(Innermost.at, "attribute")
       /\ Attribute.name = "Code" => Reads(Innermost.at + 6, "code")
  /\ section = "resolve" => Reads(offset, "end")
=============================================================================

--------------------------- MODULE MCClassParser ----------------------------
(***************************************************************************)
(* A class file writer, and the parser on what it writes.  Constants name  *)
(* each other by their place among the constants; the writer numbers them  *)
(* as the class file format does.                                          *)
(***************************************************************************)
EXTENDS ClassFile, FiniteSetsExt

\* The slot of the k-th constant.
Slot(constants, k) == k + Cardinality({j \in 1..(k - 1) : Wide(constants[j])})

Written(constants, k) ==
  LET c == constants[k]
      size == CASE c.tag = "Utf8" -> 3 + c.length
                [] c.tag = "Class" -> 3
                [] Wide(c) -> 9
                [] OTHER -> 5
  IN  [is |-> "constant", size |-> size, tag |-> c.tag, length |-> c.length, id |-> k,
       meant |-> c.refs, refs |-> [j \in DOMAIN c.refs |-> Slot(constants, c.refs[j])]]

Count(n) == [is |-> "count", size |-> 2, n |-> n]

\* An attribute, and what is in it if that is code.
Simple(a) == [is |-> "attribute", size |-> 6 + a.length, name |-> a.name, length |-> a.length]
SizeOfAll(items) == FoldLeft(LAMBDA n, item : n + item.size, 0, items)
Flat(a) ==
  IF a.name # "Code" THEN <<Simple(a)>>
  ELSE LET inner == [k \in DOMAIN a.inner |-> Simple(a.inner[k])]
           fixed == 12 + a.length + 8 * a.entries
       IN  <<[is |-> "attribute", size |-> 6, name |-> "Code",
              length |-> fixed + SizeOfAll(inner)],
             [is |-> "code", size |-> fixed, length |-> a.length, entries |-> a.entries,
              n |-> Len(a.inner)]>> \o inner

Attributes(as) == FlattenSeq([k \in DOMAIN as |-> Flat(as[k])])
Members(members) ==
  <<Count(Len(members))>> \o
  FlattenSeq([k \in DOMAIN members |->
    <<[is |-> "member", size |-> 8, n |-> Len(members[k])]>> \o Attributes(members[k])])

Items(cls) ==
  <<[is |-> "header", size |-> 10, n |-> Slot(cls.constants, Len(cls.constants) + 1)]>> \o
  [k \in DOMAIN cls.constants |-> Written(cls.constants, k)] \o
  <<[is |-> "class", size |-> 6],
    [is |-> "count", size |-> 2 + 2 * cls.interfaces, n |-> cls.interfaces]>> \o
  Members(cls.fields) \o Members(cls.methods) \o
  <<Count(Len(cls.attributes))>> \o Attributes(cls.attributes) \o
  <<[is |-> "end", size |-> 0]>>

\* Only the end has no bytes.
File(cls) ==
  LET items == Items(cls)
      ends == FoldLeft(LAMBDA so, item : Append(so, Last(so) + item.size), <<0>>, items)
  IN  [at \in {ends[k] : k \in DOMAIN items} |->
         items[CHOOSE k \in DOMAIN items : ends[k] = at]]

-----------------------------------------------------------------------------

Constant(tag, length, refs) == [tag |-> tag, length |-> length, refs |-> refs]
ConstantsAmong(n) ==
  {Constant("Utf8", length, <<>>) : length \in 0..1} \cup
  {Constant(tag, 0, <<>>) : tag \in {"Integer", "Long", "Double", "InvokeDynamic"}} \cup
  {Constant("Class", 0, <<k>>) : k \in 1..n} \cup
  {Constant(tag, 0, <<j, k>>) : tag \in {"NameAndType", "Methodref"}, j, k \in 1..n}

LegalRef(constants, k) ==
  LET Tag(j) == constants[constants[k].refs[j]].tag IN
  CASE constants[k].tag = "Class" -> Tag(1) = "Utf8"
    [] constants[k].tag = "NameAndType" -> Tag(1) = "Utf8" /\ Tag(2) = "Utf8"
    [] constants[k].tag = "Methodref" -> Tag(1) = "Class" /\ Tag(2) = "NameAndType"
    [] OTHER -> TRUE

\* Every pool of up to three constants, and a Methodref with all it names around another.
ConstantPools ==
  UNION {{constants \in [1..n -> ConstantsAmong(n)] :
            \A k \in 1..n : LegalRef(constants, k)} : n \in 0..3}
  \cup {<<Constant("Methodref", 0, <<4, 5>>), Constant("Utf8", 1, <<>>),
          Constant(wide, 0, <<>>), Constant("Class", 0, <<2>>),
          Constant("NameAndType", 0, <<2, 2>>)>> : wide \in {"Long", "Integer"}}

Plain(name, length) == [name |-> name, length |-> length]
Inner == {<<>>, <<Plain("LineNumberTable", 2)>>, <<Plain("LocalVariableTable", 2)>>,
          <<Plain("StackMapTable", 1), Plain("LineNumberTable", 2)>>}
Codes == {[name |-> "Code", length |-> 3, entries |-> e, inner |-> inner] :
            e \in 0..1, inner \in Inner}
MethodShapes ==
  {<<>>} \cup {<<code>> : code \in Codes} \cup {<<code, Plain("Exceptions", 4)>> : code \in Codes}
FieldShapes == {<<>>, <<Plain("ConstantValue", 2)>>}

Class(constants, interfaces, fields, methods, attributes) ==
  [constants |-> constants, interfaces |-> interfaces, fields |-> fields,
   methods |-> methods, attributes |-> attributes]

\* All pools on one shape of class, all shapes on one pool.
ClassesToParse ==
  {Class(constants, 1, <<>>, <<<<>>>>, <<>>) : constants \in ConstantPools} \cup
  {Class(<<Constant("Utf8", 1, <<>>)>>, interfaces, fields, methods, attributes) :
     interfaces \in 0..1,
     fields \in {<<>>} \cup {<<f, <<>>>> : f \in FieldShapes},
     methods \in {<<>>} \cup {<<m, n>> : m, n \in MethodShapes},
     attributes \in {<<>>, <<Plain("SourceFile", 2)>>}}
ClassFiles == {File(cls) : cls \in ClassesToParse}

-----------------------------------------------------------------------------

\* The parser's two cursors agree: it reads every class file to its last byte, or to
\* where it aborts.
ReadsTheWholeFile == <>(vm = "aborted" \/ (vm = "parsed" /\ Reads(offset, "end")))
=============================================================================

----------------------------- MODULE ClassParser ----------------------------
(***************************************************************************)
(* JavaClassParser::parseClass: one pass of a cursor over a class file.    *)
(* A file is a function from the offsets where its items begin to the      *)
(* items; the parser moves by the sizes it knows, and a cursor that is not *)
(* on an item of the kind it expects reads garbage: no action is enabled.  *)
(***************************************************************************)
EXTENDS Integers, Sequences, SequencesExt

CONSTANTS
  Files,   \* the class files to be parsed
  Null     \* the second slot of a long or double, and slot 0

VARIABLES
  file,    \* the items of the file
  offset,  \* _byteCodeOffset
  section, \* the table that is being read
  left,    \* fields or methods of it still to be read
  calls,   \* the parseAttributes calls under way, innermost last
  pool,    \* _constantPool
  next,    \* the slot of the loop over it
  links,   \* what resolveConstPool has stored in the constants
  vm       \* "running", "parsed" or "aborted"

vars == <<file, offset, section, left, calls, pool, next, links, vm>>

Reads(at, kind) == at \in DOMAIN file /\ file[at].is = kind

\* getConstantPoolObj: the bytes each constant takes.
SizeOf(c) ==
  CASE c.tag = "Utf8" -> 3 + c.length
    [] c.tag \in {"Class", "String"} -> 3
    [] c.tag \in {"Long", "Double"} -> 9
    [] OTHER -> 5

\* The tags getConstantPoolObj knows.
Tags == {"Class", "Fieldref", "Methodref", "InterfaceMethodref", "String", "Integer",
         "Float", "Long", "Double", "NameAndType", "Utf8"}

\* Mutant: no phantom slots.
NextSlotPlain(c) == next + 1

\* A phantom slot follows a long and a double.
NextSlot(c) == IF c.tag \in {"Long", "Double"} THEN next + 2 ELSE next + 1

-----------------------------------------------------------------------------

Start ==
  /\ section = "header"
  /\ Reads(offset, "header")
  /\ pool' = [slot \in 0..(file[offset].n - 1) |-> Null]
  /\ links' = [slot \in DOMAIN pool' |-> <<>>]
  /\ offset' = offset + 10
  /\ section' = "constants"
  /\ next' = 1
  /\ UNCHANGED <<file, left, calls, vm>>

PoolRead == next \notin DOMAIN pool

\* A step of parseConstantPool.
ReadConstant ==
  /\ section = "constants"
  /\ ~PoolRead
  /\ Reads(offset, "constant")
  /\ file[offset].tag \in Tags
  /\ pool' = [pool EXCEPT ![next] = file[offset]]
  /\ offset' = offset + SizeOf(file[offset])
  /\ next' = NextSlot(file[offset])
  /\ UNCHANGED <<file, section, left, calls, links, vm>>

UnknownConstant ==
  /\ section = "constants"
  /\ ~PoolRead
  /\ Reads(offset, "constant")
  /\ file[offset].tag \notin Tags
  /\ vm' = "aborted"
  /\ UNCHANGED <<file, offset, section, left, calls, pool, next, links>>

\* access_flags, this_class, super_class.
ReadClass ==
  /\ section = "constants"
  /\ PoolRead
  /\ Reads(offset, "class")
  /\ offset' = offset + 6
  /\ section' = "class"
  /\ UNCHANGED <<file, left, calls, pool, next, links, vm>>

\* parseInterfaces: two bytes each.
ReadInterfaces ==
  /\ section = "class"
  /\ Reads(offset, "count")
  /\ offset' = offset + 2 + 2 * file[offset].n
  /\ section' = "interfaces"
  /\ UNCHANGED <<file, left, calls, pool, next, links, vm>>

\* Begin of parseFields, for fields and then for methods.
BeginMembers ==
  /\ section \in {"interfaces", "fields"}
  /\ left = 0
  /\ calls = <<>>
  /\ Reads(offset, "count")
  /\ left' = file[offset].n
  /\ offset' = offset + 2
  /\ section' = IF section = "interfaces" THEN "fields" ELSE "methods"
  /\ UNCHANGED <<file, calls, pool, next, links, vm>>

\* A call of parseAttributes: attributes to read, its cursor, and the length of the
\* attribute whose parse() is under way.
Call(n, at) == [left |-> n, at |-> at, skip |-> 0]

\* The flags, name, descriptor and attribute count of a field or method.
ReadMember ==
  /\ left > 0
  /\ calls = <<>>
  /\ Reads(offset, "member")
  /\ left' = left - 1
  /\ calls' = <<Call(file[offset].n, offset + 8)>>
  /\ UNCHANGED <<file, offset, section, pool, next, links, vm>>

BeginClassAttributes ==
  /\ section = "methods"
  /\ left = 0
  /\ calls = <<>>
  /\ Reads(offset, "count")
  /\ calls' = <<Call(file[offset].n, offset + 2)>>
  /\ section' = "attributes"
  /\ UNCHANGED <<file, offset, left, pool, next, links, vm>>

-----------------------------------------------------------------------------

Known == {"Code", "Exceptions", "SourceFile", "LineNumberTable", "StackMapTable"}

Innermost == Last(calls)
Attribute == file[Innermost.at]
InAttributes == calls # <<>> /\ Innermost.left > 0 /\ Reads(Innermost.at, "attribute")

UnknownAttribute ==
  /\ InAttributes
  /\ Attribute.name \notin Known
  /\ vm' = "aborted"
  /\ UNCHANGED <<file, offset, section, left, calls, pool, next, links>>

\* parse() has a cursor of its own, the caller goes on behind attribute_length.
ReadAttribute ==
  /\ InAttributes
  /\ Attribute.name \in Known \ {"Code"}
  /\ calls' = Append(Front(calls), Call(Innermost.left - 1,
                                        Innermost.at + 6 + Attribute.length))
  /\ UNCHANGED <<file, offset, section, left, pool, next, links, vm>>

\* Code_attribute::parse: code and exception table, then its own attributes.
ReadCode ==
  /\ InAttributes
  /\ Attribute.name = "Code"
  /\ LET body == Innermost.at + 6 IN
     /\ Reads(body, "code")
     /\ calls' = Front(calls) \o
          <<[left |-> Innermost.left - 1, at |-> body, skip |-> Attribute.length],
            Call(file[body].n, body + 12 + file[body].length + 8 * file[body].entries)>>
  /\ UNCHANGED <<file, offset, section, left, pool, next, links, vm>>

\* Mutant: Code_attribute::parse takes its cursor by reference.
CodeReadMoving(outer, inner) == Call(outer.left, inner.at + outer.skip)

CodeRead(outer, inner) == Call(outer.left, outer.at + outer.skip)

EndAttributes ==
  /\ calls # <<>>
  /\ Innermost.left = 0
  /\ IF Len(calls) > 1
       THEN /\ calls' = Append(SubSeq(calls, 1, Len(calls) - 2),
                               CodeRead(calls[Len(calls) - 1], Innermost))
            /\ UNCHANGED <<offset, section, next>>
       ELSE /\ calls' = <<>>
            /\ offset' = Innermost.at
            /\ section' = IF section = "attributes" THEN "resolve" ELSE section
            /\ next' = IF section = "attributes" THEN 1 ELSE next
  /\ UNCHANGED <<file, left, pool, links, vm>>

-----------------------------------------------------------------------------

\* Mutant: phantom slots are passed over.
ResolveSlotSkipping ==
  /\ links' = IF pool[next] = Null THEN links
              ELSE [links EXCEPT ![next] = [k \in DOMAIN pool[next].refs |->
                                              pool[pool[next].refs[k]]]]
  /\ next' = next + 1
  /\ UNCHANGED vm

\* Mutant: slots counted from 0.
ResolveSlotFromZero ==
  IF pool[next] = Null
  THEN vm' = "aborted" /\ UNCHANGED <<links, next>>
  ELSE /\ links' = [links EXCEPT ![next] = [k \in DOMAIN pool[next].refs |->
                                              pool[pool[next].refs[k] - 1]]]
       /\ next' = next + 1
       /\ UNCHANGED vm

\* resolveConstPool reads the tag of every slot, a phantom's through NULL.
ResolveSlot ==
  IF pool[next] = Null
  THEN vm' = "aborted" /\ UNCHANGED <<links, next>>
  ELSE /\ links' = [links EXCEPT ![next] = [k \in DOMAIN pool[next].refs |->
                                              pool[pool[next].refs[k]]]]
       /\ next' = next + 1
       /\ UNCHANGED vm

Resolve ==
  /\ section = "resolve"
  /\ IF PoolRead THEN vm' = "parsed" /\ UNCHANGED <<links, next>> ELSE ResolveSlot
  /\ UNCHANGED <<file, offset, section, left, calls, pool>>

Init ==
  /\ file \in Files
  /\ offset = 0
  /\ section = "header"
  /\ left = 0
  /\ calls = <<>>
  /\ pool = <<>>
  /\ next = 0
  /\ links = <<>>
  /\ vm = "running"

Next ==
  /\ vm = "running"
  /\ \/ Start \/ ReadConstant \/ UnknownConstant \/ ReadClass \/ ReadInterfaces \/ BeginMembers
     \/ ReadMember \/ BeginClassAttributes
     \/ UnknownAttribute \/ ReadAttribute \/ ReadCode \/ EndAttributes
     \/ Resolve

Spec == Init /\ [][Next]_vars

\* One thread reads the file and nothing else runs meanwhile.
FairSpec == Spec /\ WF_vars(Next)
=============================================================================

------------------------------- MODULE Frames -------------------------------
(***************************************************************************)
(* The frames of one thread as the opcodes see them: operand stacks, local *)
(* variables, the parameters pushNewFrame takes from the caller's operand  *)
(* stack and the value methodSDone gives back.  Source: src/opcodes.cpp,   *)
(* pushNewFrame and countMethodStack of src/JavaVM.cpp, src/Stack.cpp.     *)
(*                                                                         *)
(* Next runs what javac emits: an instruction is enabled where the types   *)
(* on the stack and in the locals fit, and a variable has a local of its   *)
(* own.  "push" stands for ldc, the const opcodes and the getfields whose  *)
(* object does not matter here, and "unsupported" for the opcodes whose    *)
(* entry in the table is f_ASSERT.                                         *)
(* Floats are small integers between two infinities, and NaN.              *)
(***************************************************************************)
EXTENDS Sequences, FiniteSets, SequencesExt, Numbers

CONSTANTS
  IntBits,     \* width of int: 32 in the code
  ByteBits,    \* width of the operand of bipush: 8 in the code
  Signatures,  \* the methods that can be called
  Entry,       \* the method addNewThread starts with
  Infinity,    \* stands for the infinite float; a float is an integer up to it
  NaN,         \* stands for the float that is no number: an integer above it
  ShortForms,  \* locals with opcodes of their own, as aload_0: 4 in the code
  PushedInts,  \* ints that "push" and "iinc" take
  PushedFloats,  \* floats that "push" takes; i2f and fadd make the others
  Refs,        \* references, as numbers; 0 is null
  MaxOperands, \* bound: operands on the frames together
  MaxFrames    \* bound: frames on the thread

\* F is float, J is long; "[I" and "[J" are arrays, L an object.
ParameterType == {"I", "F", "J", "L", "[I", "[J"}

\* A method.  class: the class that declares it; extra: locals of the method behind
\* its parameters.
Signature ==
  [class : STRING, params : Seq(ParameterType), result : {"void", "int", "float", "ref"},
   static : BOOLEAN, native : BOOLEAN, extra : Nat]

ASSUME FramesAssumption ==
  /\ IntBits \in Nat \ {0}
  /\ ByteBits \in 1..(IntBits - 1)
  /\ Infinity \in Nat /\ Infinity > TwoTo(IntBits - 1)
  /\ NaN \in Nat /\ NaN > Infinity
  /\ PushedInts \cup Refs \subseteq Int
  /\ PushedFloats \subseteq (-Infinity..Infinity) \cup {NaN}
  /\ ShortForms \in Nat
  /\ Signatures \cup {Entry} \subseteq Signature

VARIABLES
  frames,   \* the frames of e-jvm, top last
  outcome   \* "running"; "undefined" behind a read or write out of range;
            \* "aborted" by a failed assertion

vars == <<frames, outcome>>

-----------------------------------------------------------------------------
(* Values and frames *)

\* "unset" is a local nobody has written: its union is not initialised.
Value(kind, v) == [kind |-> kind, v |-> v]
Unset == Value("unset", 0)

\* Two's complement, as the compiled += of an int behaves.
Wrap(x) == ((x + TwoTo(IntBits - 1)) % TwoTo(IntBits)) - TwoTo(IntBits - 1)
IntValue(x) == Value("int", Wrap(x))

KindOf(type) ==
  CASE type = "I" -> "int" [] type = "F" -> "float" [] type = "J" -> "long"
    [] OTHER -> "ref"

Width(type) == IF type = "J" THEN 2 ELSE 1

\* The locals of the first k parameters.
WidthOf(params, k) == SumTo([n \in DOMAIN params |-> Width(params[n])], k)

\* Code_attribute::max_locals as javac computes it; pushNewFrame gives a native
\* method a Code_attribute with max_locals 1.
MaxLocals(sig) ==
  IF sig.native THEN 1
  ELSE (IF sig.static THEN 0 ELSE 1) + sig.extra
         + WidthOf(sig.params, Len(sig.params))

EmptyLocals(sig) == [i \in 0..(MaxLocals(sig) - 1) |-> Unset]

Frame(sig, locals) == [sig |-> sig, locals |-> locals, operands |-> <<>>, jumped |-> FALSE]

Top(f) == Last(f.operands)
Below(f) == f.operands[Len(f.operands) - 1]
DropTop(f, n) == SubSeq(f.operands, 1, Len(f.operands) - n)

-----------------------------------------------------------------------------
(* Opcodes *)

Compare(v1, v2, op) ==
  CASE op = "eq" -> v1 = v2
    [] op = "ne" -> v1 # v2
    [] op = "lt" -> v1 < v2
    [] op = "ge" -> v1 >= v2
    [] op = "gt" -> v1 > v2
    [] op = "le" -> v1 <= v2

Arithmetic(op, top, below) ==
  CASE op = "iadd" -> below + top
    [] op = "isub" -> below - top
    [] op = "imul" -> below * top

\* The operand of bipush is read as an unsigned byte.
ByteOperand(byte) == byte

MinInt == -TwoTo(IntBits - 1)
MaxInt == TwoTo(IntBits - 1) - 1

\* The += of a float: IEEE 754.
FloatSum(x, y) ==
  CASE NaN \in {x, y} \/ ({x, y} = {-Infinity, Infinity}) -> NaN
    [] Infinity \in {x, y} \/ x + y > Infinity -> Infinity
    [] -Infinity \in {x, y} \/ x + y < -Infinity -> -Infinity
    [] OTHER -> x + y

\* The conversion (int) is undefined in C++ for NaN and for what is no int:
\* "cast" is what the compiled code then gives.
FloatToInt(x, cast) == IF x \in MinInt..MaxInt THEN x ELSE cast

\* f_fcmp has no case for NaN: the last else is an assertion.
FloatOrder(below, top) ==
  CASE below > top -> 1 [] below = top -> 0 [] below < top -> -1

\* One instruction on the top frame.  f_if_icmpeq passes the top of the stack to
\* compare as the first value.
Exec(i, f) ==
  CASE i.op = "push" ->
         [f EXCEPT !.operands = Append(@, i.value)]
    [] i.op = "bipush" ->
         [f EXCEPT !.operands = Append(@, IntValue(ByteOperand(i.byte)))]
    [] i.op = "load" ->
         [f EXCEPT !.operands = Append(@, f.locals[i.index])]
    [] i.op = "store" ->
         [f EXCEPT !.locals[i.index] = Top(f), !.operands = DropTop(f, 1)]
    [] i.op = "pop" ->
         [f EXCEPT !.operands = DropTop(f, 1)]
    [] i.op = "dup" ->
         [f EXCEPT !.operands = Append(@, Top(f))]
    [] i.op \in {"iadd", "isub", "imul"} ->
         [f EXCEPT !.operands =
            Append(DropTop(f, 2), IntValue(Arithmetic(i.op, Top(f).v, Below(f).v)))]
    [] i.op = "iinc" ->
         [f EXCEPT !.locals[i.index] = IntValue(@.v + i.value.v)]
    [] i.op = "if" ->
         [f EXCEPT !.operands = DropTop(f, 1), !.jumped = Compare(Top(f).v, 0, i.cond)]
    [] i.op = "if_icmp" ->
         [f EXCEPT !.operands = DropTop(f, 2),
                   !.jumped = Compare(Top(f).v, Below(f).v, i.cond)]
    [] i.op = "goto" ->
         [f EXCEPT !.jumped = TRUE]
    [] i.op = "fadd" ->
         [f EXCEPT !.operands =
            Append(DropTop(f, 2), Value("float", FloatSum(Below(f).v, Top(f).v)))]
    [] i.op = "i2f" ->
         [f EXCEPT !.operands = Append(DropTop(f, 1), Value("float", Top(f).v))]
    [] i.op = "f2i" ->
         [f EXCEPT !.operands =
            Append(DropTop(f, 1), Value("int", FloatToInt(Top(f).v, i.cast)))]
    [] i.op = "fcmp" ->
         [f EXCEPT !.operands =
            Append(DropTop(f, 2), Value("int", FloatOrder(Below(f).v, Top(f).v)))]

\* The instructions that end in a failed assertion: aload, fload, astore and fstore
\* with an index are not in the table, and f_fcmp does not expect NaN.
Fails(i, f) ==
  \/ i.op = "unsupported"
  \/ i.op = "load" /\ i.index >= ShortForms /\ f.locals[i.index].kind # "int"
  \/ i.op = "store" /\ i.index >= ShortForms /\ Top(f).kind # "int"
  \/ i.op = "fcmp" /\ NaN \in {Top(f).v, Below(f).v}

-----------------------------------------------------------------------------
(* Parameters *)

\* The characters countMethodStack keeps of a parameter: '[' is skipped, and
\* behind a class name the ';' is appended as if it were a type.
Counted(type) ==
  CASE type \in {"I", "[I"} -> <<"I">>
    [] type \in {"J", "[J"} -> <<"J">>
    [] type = "F" -> <<"F">>
    [] type = "L" -> <<"L", ";">>

CountMethodStack(params) == FlattenSeq([k \in DOMAIN params |-> Counted(params[k])])

\* Mutant: the loop starts one local too low.
SlotFromBelow(count, j) ==
  j - 1 - Cardinality({m \in (j + 1)..Len(count) : count[m] = "J"})

\* The loop of pushNewFrame counts j down from the length of the string, and i with
\* it but once more for every wide character passed.  Turn j writes local i.
Slot(count, j) ==
  j - Cardinality({m \in (j + 1)..Len(count) : count[m] = "J"})

\* The loop ends at local 0.  If it steps over 0, the unsigned i wraps.
LastTurns(count) == {j \in 0..Len(count) : Slot(count, j) = 0}

\* The locals and what is left of the caller's operands; "undefined" when a write
\* is behind the last local, the operands run out, or i wraps.
CopyParameters(sig, operands) ==
  LET count == CountMethodStack(sig.params)
      last == CHOOSE j \in LastTurns(count) : \A k \in LastTurns(count) : k <= j
      turns == last..Len(count)
      taken == Len(count) - last + 1
  IN  IF \/ LastTurns(count) = {}
         \/ \E j \in turns : Slot(count, j) >= MaxLocals(sig)
         \/ taken > Len(operands)
      THEN [outcome |-> "undefined", locals |-> EmptyLocals(sig), rest |-> <<>>]
      ELSE [outcome |-> "running",
            locals |-> [i \in DOMAIN EmptyLocals(sig) |->
              IF \E j \in turns : Slot(count, j) = i
              THEN LET j == CHOOSE j \in turns : Slot(count, j) = i
                   IN  operands[Len(operands) - (Len(count) - j)]
              ELSE Unset],
            rest |-> SubSeq(operands, 1, Len(operands) - taken)]

-----------------------------------------------------------------------------
(* The thread *)

Current == Last(frames)

\* A native frame is the end: invokeNativeMethod asserts.
Running == outcome = "running" /\ ~Current.sig.native

\* The types of a call are on the operand stack: the receiver, then the arguments.
ArgumentKinds(sig) ==
  (IF sig.static THEN <<>> ELSE <<"ref">>)
    \o [k \in DOMAIN sig.params |-> KindOf(sig.params[k])]

Fits(f, kinds) ==
  /\ Len(f.operands) >= Len(kinds)
  /\ \A k \in DOMAIN kinds :
       f.operands[Len(f.operands) - Len(kinds) + k].kind = kinds[k]

Kinds(n, kind) == [k \in 1..n |-> kind]

Room == FoldLeft(LAMBDA n, f : n + Len(f.operands), 0, frames) < MaxOperands

\* What the verifier asks of an instruction.
Allowed(i, f) ==
  CASE i.op \in {"push", "bipush", "dup"} ->
         /\ Room
         /\ i.op = "dup" => f.operands # <<>> /\ Top(f).kind # "long"
    [] i.op = "load" ->
         /\ Room
         /\ i.index \in DOMAIN f.locals
         /\ f.locals[i.index].kind \in {"int", "float", "ref"}
    [] i.op = "store" ->
         /\ i.index \in DOMAIN f.locals
         /\ f.operands # <<>>
         /\ Top(f).kind \in {"int", "float", "ref"}
         /\ f.locals[i.index].kind \in {"unset", Top(f).kind}
    [] i.op = "pop" -> f.operands # <<>> /\ Top(f).kind # "long"
    [] i.op \in {"iadd", "isub", "imul", "if_icmp"} -> Fits(f, Kinds(2, "int"))
    [] i.op = "iinc" -> i.index \in DOMAIN f.locals /\ f.locals[i.index].kind = "int"
    [] i.op \in {"if", "i2f"} -> Fits(f, Kinds(1, "int"))
    [] i.op \in {"fadd", "fcmp"} -> Fits(f, Kinds(2, "float"))
    [] i.op = "f2i" -> Fits(f, Kinds(1, "float"))
    [] i.op \in {"goto", "unsupported"} -> TRUE

MaxLocal == 2
Instructions ==
  [op : {"push"}, value : {IntValue(x) : x \in PushedInts} \cup {Value("ref", r) : r \in Refs}
                            \cup {Value("float", x) : x \in PushedFloats}
                            \cup {Value("long", 0)}]
    \cup [op : {"bipush"}, byte : 0..(TwoTo(ByteBits) - 1)]
    \cup [op : {"load", "store"}, index : 0..MaxLocal]
    \cup [op : {"f2i"}, cast : MinInt..MaxInt]
    \cup [op : {"iinc"}, index : 0..MaxLocal, value : {IntValue(x) : x \in PushedInts}]
    \cup [op : {"if", "if_icmp"}, cond : {"eq", "ne", "lt", "ge", "gt", "le"}]
    \cup [op : {"pop", "dup", "iadd", "isub", "imul", "goto", "fadd", "i2f", "unsupported"}]
    \cup [op : {"fcmp"}, nan : {-1, 1}]   \* fcmpl and fcmpg

Init ==
  /\ frames = <<Frame(Entry, EmptyLocals(Entry))>>
  /\ outcome = "running"

Execute(i) ==
  /\ Running
  /\ Allowed(i, Current)
  /\ ~Fails(i, Current)
  /\ frames' = [frames EXCEPT ![Len(frames)] = Exec(i, [Current EXCEPT !.jumped = FALSE])]
  /\ UNCHANGED outcome

Abort ==
  /\ Running
  /\ outcome' = "aborted"
  /\ UNCHANGED frames

ExecuteFails(i) == Allowed(i, Current) /\ Fails(i, Current) /\ Abort

\* pushNewFrame, then the opcode: the method is that of the Methodref, for
\* invokevirtual and invokespecial alike, and nobody looks at the receiver.
Invoke(sig) ==
  /\ Running
  /\ ~sig.static
  /\ Fits(Current, ArgumentKinds(sig))
  /\ Len(frames) < MaxFrames
  /\ LET copied == CopyParameters(sig, Current.operands) IN
     /\ outcome' = copied.outcome
     /\ frames' = Append([frames EXCEPT ![Len(frames)] =
                            [@ EXCEPT !.operands = copied.rest, !.jumped = FALSE]],
                         Frame(sig, copied.locals))

\* executionEngine pushes a frame for opcodes 182 and 183 only: invokestatic just
\* goes on.
InvokeStatic(sig) ==
  /\ Running
  /\ sig.static
  /\ Fits(Current, ArgumentKinds(sig))
  /\ Len(frames) < MaxFrames
  /\ frames' = [frames EXCEPT ![Len(frames)].jumped = FALSE]
  /\ UNCHANGED outcome

\* f_return and methodSDone: behind the frame's end its top operand, unless the
\* descriptor says void, is pushed on the caller.
Return ==
  /\ Running
  /\ Len(frames) > 1
  /\ \/ /\ Current.sig.result = "void"
        /\ frames' = Front(frames)
     \/ /\ Current.sig.result \in {"int", "float"}
        /\ Fits(Current, <<Current.sig.result>>)
        /\ frames' = [Front(frames) EXCEPT ![Len(frames) - 1].operands =
                        Append(@, Top(Current))]
  /\ UNCHANGED outcome

\* There is no areturn.
ReturnRefFails ==
  Current.sig.result = "ref" /\ Fits(Current, <<"ref">>) /\ Len(frames) > 1 /\ Abort

Next ==
  \/ \E i \in Instructions : Execute(i) \/ ExecuteFails(i)
  \/ \E sig \in Signatures : Invoke(sig) \/ InvokeStatic(sig)
  \/ Return \/ ReturnRefFails

Spec == Init /\ [][Next]_vars
=============================================================================

------------------------------ MODULE JvmFrames -----------------------------
(***************************************************************************)
(* Frames in lockstep with what the Java virtual machine specification     *)
(* says of the same instructions.  The run goes on as long as both agree,  *)
(* so that every state is one both machines can be in.                     *)
(***************************************************************************)
EXTENDS Frames

CONSTANT
  Selected  \* Selected[m][r]: the method that invokevirtual of m on object r runs

\* Only methods of the same name and descriptor override one another.
ASSUME SelectionAssumption ==
  /\ Selected \in [Signatures -> [Refs \ {0} -> Signatures]]
  /\ \A sig \in Signatures, ref \in Refs \ {0} :
       /\ Selected[sig][ref].params = sig.params
       /\ Selected[sig][ref].result = sig.result
       /\ Selected[sig][ref].static = sig.static

VARIABLES
  jvm,      \* the frames of the specification
  expected  \* of the last step: that both "agree", that they "differ", or "either"

mcvars == <<frames, outcome, jvm, expected>>

-----------------------------------------------------------------------------
(* The specification *)

SignExtended(byte) == IF byte >= TwoTo(ByteBits - 1) THEN byte - TwoTo(ByteBits) ELSE byte

JvmCompare(value1, value2, cond) ==
  \/ cond \in {"eq", "ge", "le"} /\ value1 = value2
  \/ cond \in {"ne", "lt", "le"} /\ value1 < value2
  \/ cond \in {"ne", "gt", "ge"} /\ value1 > value2

\* NaN becomes 0, and what is too large the nearest int.
JvmFloatToInt(x) ==
  CASE x = NaN -> 0 [] x > MaxInt -> MaxInt [] x < MinInt -> MinInt [] OTHER -> x

\* fcmpl gives -1 for NaN, and fcmpg gives 1.
JvmFloatOrder(value1, value2, nan) ==
  CASE NaN \in {value1, value2} -> nan
    [] value1 > value2 -> 1 [] value1 = value2 -> 0 [] value1 < value2 -> -1

\* Where value2 is the top of the stack and value1 is below it.  The moves between
\* stack and locals have one reading only.
JvmExec(i, f) ==
  LET value2 == Top(f).v
      value1 == Below(f).v
  IN CASE i.op = "bipush" ->
            [f EXCEPT !.operands = Append(@, IntValue(SignExtended(i.byte)))]
       [] i.op = "iadd" ->
            [f EXCEPT !.operands = Append(DropTop(f, 2), IntValue(value1 + value2))]
       [] i.op = "isub" ->
            [f EXCEPT !.operands = Append(DropTop(f, 2), IntValue(value1 - value2))]
       [] i.op = "imul" ->
            [f EXCEPT !.operands = Append(DropTop(f, 2), IntValue(value1 * value2))]
       [] i.op = "if" ->
            [f EXCEPT !.operands = DropTop(f, 1), !.jumped = JvmCompare(value2, 0, i.cond)]
       [] i.op = "if_icmp" ->
            [f EXCEPT !.operands = DropTop(f, 2),
                      !.jumped = JvmCompare(value1, value2, i.cond)]
       [] i.op = "f2i" ->
            [f EXCEPT !.operands = Append(DropTop(f, 1), Value("int", JvmFloatToInt(value2)))]
       [] i.op = "fcmp" ->
            [f EXCEPT !.operands =
               Append(DropTop(f, 2), Value("int", JvmFloatOrder(value1, value2, i.nan)))]
       [] i.op = "unsupported" -> f
       [] OTHER -> Exec(i, f)

\* The local of argument k, counting the receiver as argument 1 of an instance method.
ArgumentLocal(sig, k) ==
  IF sig.static THEN WidthOf(sig.params, k - 1)
  ELSE IF k = 1 THEN 0 ELSE 1 + WidthOf(sig.params, k - 2)

JvmLocals(sig, arguments) ==
  [i \in DOMAIN EmptyLocals(sig) |->
     IF \E k \in DOMAIN arguments : ArgumentLocal(sig, k) = i
     THEN arguments[CHOOSE k \in DOMAIN arguments : ArgumentLocal(sig, k) = i]
     ELSE Unset]

\* A NullPointerException leaves the method, or goes to a handler of it: no frame
\* goes on behind the instruction.
Thrown == <<>>

Receiver(sig, f) == f.operands[Len(f.operands) - Len(sig.params)].v

CalledOnNull(sig, f) == ~sig.static /\ Receiver(sig, f) = 0

\* What invokespecial runs, the method it names, and what invokevirtual runs, the one
\* that the class of the receiver selects.
Targets(sig, f) ==
  {sig} \cup (IF sig.static \/ CalledOnNull(sig, f) THEN {}
              ELSE {Selected[sig][Receiver(sig, f)]})

\* What a native method can push for its result.
NativeResults(sig) ==
  CASE sig.result = "void" -> {<<>>}
    [] sig.result = "int" -> {<<IntValue(x)>> : x \in PushedInts}
    [] sig.result = "float" -> {<<Value("float", x)>> : x \in PushedFloats}
    [] sig.result = "ref" -> {<<Value("ref", r)>> : r \in Refs}

\* The frames after a call of sig that selects target.  A native method runs at once,
\* and returns or throws.
JvmCalls(sig, target, fs) ==
  LET caller == Last(fs)
      n == Len(ArgumentKinds(sig))
      arguments == SubSeq(caller.operands, Len(caller.operands) - n + 1, Len(caller.operands))
      after == [fs EXCEPT ![Len(fs)].operands = DropTop(caller, n),
                          ![Len(fs)].jumped = FALSE]
  IN  IF CalledOnNull(sig, caller) THEN {Thrown}
      ELSE IF target.native
      THEN {Thrown} \cup {[after EXCEPT ![Len(fs)].operands = @ \o result] :
                            result \in NativeResults(target)}
      ELSE {Append(after, Frame(target, JvmLocals(target, arguments)))}

JvmReturn(fs) ==
  IF Last(fs).sig.result = "void" THEN Front(fs)
  ELSE [Front(fs) EXCEPT ![Len(fs) - 1].operands = Append(@, Top(Last(fs)))]

-----------------------------------------------------------------------------
(* Both together *)

Agree == outcome = "running" /\ frames = jvm

\* Where e-jvm is expected to leave the specification: an instruction ...
Deviates(i, f) ==
  \/ i.op = "bipush" /\ i.byte >= TwoTo(ByteBits - 1)
  \/ /\ i.op = "if_icmp"
     /\ i.cond \in {"lt", "ge", "gt", "le"}
     /\ Top(f).v # Below(f).v
  \/ i.op = "f2i" /\ Top(f).v \notin MinInt..MaxInt
                  /\ i.cast # JvmFloatToInt(Top(f).v)
  \/ i.op = "fcmp" /\ NaN \in {Top(f).v, Below(f).v}
  \/ /\ i.op \in {"load", "store"}
     /\ i.index \notin 0..(ShortForms - 1)
     /\ (IF i.op = "load" THEN f.locals[i.index] ELSE Top(f)).kind # "int"
  \/ i.op = "unsupported"

\* ... and a call: a static one, one on null, one that another class overrides, a
\* native one.  A class counts twice and a wide type moves the locals below it, so that
\* one of the two alone leaves every argument out of place.  A native static method may
\* by chance push what it has taken.
Misplaced(sig) == {"L", "J", "[J"} \cap ToSet(sig.params)
CallOutcome(sig, target, f) ==
  IF sig.static THEN IF sig.native THEN "either" ELSE "differ"
  ELSE IF CalledOnNull(sig, f) \/ target # sig \/ sig.native THEN "differ"
  ELSE IF Misplaced(sig) = {} THEN "agree"
  ELSE IF Misplaced(sig) = {"L", "J", "[J"} THEN "either"
  ELSE "differ"

MCInit ==
  /\ Init
  /\ jvm = frames
  /\ expected = "agree"

MCNext ==
  /\ Agree
  /\ \/ \E i \in Instructions :
          /\ Execute(i) \/ ExecuteFails(i)
          /\ jvm' = [jvm EXCEPT ![Len(jvm)] = JvmExec(i, [@ EXCEPT !.jumped = FALSE])]
          /\ expected' = IF Deviates(i, Current) THEN "differ" ELSE "agree"
     \/ \E sig \in Signatures :
          /\ Invoke(sig) \/ InvokeStatic(sig)
          /\ \E target \in Targets(sig, Current) :
               /\ jvm' \in JvmCalls(sig, target, jvm)
               /\ expected' = CallOutcome(sig, target, Current)
     \/ /\ Return \/ ReturnRefFails
        /\ jvm' = JvmReturn(jvm)
        /\ expected' = IF Current.sig.result = "ref" THEN "differ" ELSE "agree"

MCSpec == MCInit /\ [][MCNext]_mcvars

\* Programs of the instructions above, with calls of methods that are found, run as the
\* specification says exactly until the first deviation: bytes below zero, ordered
\* comparisons of different ints, conversions and comparisons of floats that are no
\* ints or no numbers, references and floats in the locals without a short form,
\* methods that return a reference; calls that are static, native or on null, that
\* an override should answer, or that pass classes or wide types.
RunsLikeTheJvm ==
  /\ expected = "agree" => Agree
  /\ expected = "differ" => ~Agree
=============================================================================

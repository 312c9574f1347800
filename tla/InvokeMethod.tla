---------------------------- MODULE InvokeMethod ----------------------------
(***************************************************************************)
(* JavaVM::invokeMethod: a Java method called from C++, by the program     *)
(* that embeds the VM before it starts the threads, or by an opcode that   *)
(* it has put in place of another (replaceOPCodeFunction).  The call gets  *)
(* a StackFrame of its own and one slice of execThread, in which no other  *)
(* thread runs; it answers the top operand of whatever frame is then on    *)
(* top.  Source: JavaVM.cpp, JavaVM.h and Stack.h.                         *)
(*                                                                         *)
(* Calls are not nested in one another.                                    *)
(***************************************************************************)
EXTENDS JavaVM

CONSTANTS
  CallStack,   \* the StackFrame of createStack, in Threads
  VoidMethods, \* methods that return nothing
  NoLocals,    \* methods with max_locals = 0: static, without parameters
  MaxCalls     \* bound: calls from outside

ASSUME CallAssumption ==
  /\ CallStack \in Threads
  /\ VoidMethods \subseteq Methods
  /\ NoLocals \subseteq Methods
  /\ MaxCalls \in Nat

VARIABLES
  calls,   \* how many calls were made
  calling, \* FALSE, or TRUE while execThread runs CallStack
  caller,  \* the thread whose opcode called, or NoThread
  base,    \* the operand stack of CallStack's base frame
  before,  \* history: the method called, the monitors and the live frames then
  answer   \* what the last call returned

callVars == <<calls, calling, caller, base, before, answer>>
allVars == <<vars, callVars>>

LiveFrames == {a \in Addr : Live(a)}

CallInit ==
  /\ Init
  /\ calls = 0
  /\ calling = FALSE
  /\ caller = NoThread
  /\ base = <<>>
  /\ before = [method |-> CHOOSE m \in Methods : TRUE, monitor |-> monitor, live |-> {}]
  /\ answer = "none"

-----------------------------------------------------------------------------
(* The call *)

\* setCode has made max_locals locals when the receiver is pushed behind them:
\* local 0 is the receiver only if there are no locals.
CallFrame(m, o) == NewFrame(m, IF m \in NoLocals THEN o ELSE Null)

\* Where a call can come from: the C++ program before execThreads, or an opcode
\* of the thread that runs.
CallPossible ==
  /\ ~calling
  /\ calls < MaxCalls
  /\ vm = "setup" \/ At("next")

\* A method that is native or abstract throws a jException at the caller before
\* anything has changed.  A synchronized method is not locked.
InvokeMethod(o, m, a) ==
  /\ CallPossible
  /\ m \notin NativeMethods \cup AbstractMethods
  /\ ~Live(a)
  /\ frame' = [frame EXCEPT ![a] = CallFrame(m, o)]
  /\ stack' = [stack EXCEPT ![CallStack] = <<a>>]
  /\ vm' = "running"
  /\ current' = CallStack
  /\ calls' = calls + 1
  /\ calling' = TRUE
  /\ caller' = current
  /\ base' = <<>>
  /\ before' = [method |-> m, monitor |-> monitor, live |-> LiveFrames]
  /\ answer' = "none"
  /\ UNCHANGED <<threads, monitor, notify>>

\* The method called has returned, by a return or by an exception nobody caught:
\* methodSDone pushes its top operand on the base frame.
Finishes == Len(stack[CallStack]) = 1 /\ stack'[CallStack] = <<>>

Returned ==
  IF before.method \in VoidMethods THEN <<>>
  ELSE IF Return THEN <<"value">> ELSE <<"thrown">>

\* One turn of the loop of execThread.
CallStep ==
  /\ calling
  /\ current = CallStack
  /\ SliceExpires \/ CheckFrame \/ Execute
  /\ base' = IF Finishes THEN Returned ELSE base
  /\ UNCHANGED <<calls, calling, caller, before, answer>>

\* The top operand of the base frame if the method has finished, of an unfinished
\* frame if not.  The top of an empty stack is undefined: it is whatever memory
\* happens to be read.
Answer ==
  IF stack[CallStack] # <<>> THEN "stray"
  ELSE IF base = <<>> THEN "undefined"
  ELSE Last(base)

\* ~StackFrame deletes the top frame and no other.
Deleted ==
  IF stack[CallStack] = <<>> THEN frame ELSE [frame EXCEPT ![Top(CallStack)] = Freed]

\* The queue as execThreads left it: the turns of the loop that CallStep shares
\* with it push CallStack, invokeMethod does not.
Queue ==
  IF threads # <<>> /\ Head(threads) = CallStack THEN Tail(threads) ELSE threads

\* The slice is over: invokeMethod returns to the C++ program, or to the opcode,
\* which goes on to the next instruction.
EndCall ==
  /\ calling
  /\ current = NoThread
  /\ vm = "running"
  /\ frame' = IF caller = NoThread THEN Deleted
              ELSE [Deleted EXCEPT ![Top(caller)].pc = @ + 1]
  /\ stack' = [stack EXCEPT ![CallStack] = <<>>]
  /\ threads' = Queue
  /\ vm' = IF caller = NoThread THEN "setup" ELSE "running"
  /\ current' = caller
  /\ calling' = FALSE
  /\ answer' = Answer
  /\ UNCHANGED <<monitor, notify, calls, caller, base, before>>

\* The scheduler without a call under way.
Scheduler ==
  /\ ~calling
  /\ \/ \E t \in Threads \ {CallStack}, a \in Addr, m \in EntryMethods :
          AddNewThread(t, a, m)
     \/ ExecThreads \/ PopThread \/ PopNothing
     \/ SliceExpires \/ CheckFrame \/ Execute
  /\ UNCHANGED callVars

CallNext ==
  \/ Scheduler
  \/ \E o \in Objects, m \in Methods, a \in Addr : InvokeMethod(o, m, a)
  \/ CallStep
  \/ EndCall

CallSpec == CallInit /\ [][CallNext]_allVars

-----------------------------------------------------------------------------
(* What a call leaves behind *)

Ends == calling /\ ~calling'

\* What a call that finishes does to the monitors: a synchronized method releases
\* the object in its local 0, which the call has not locked.
ReleasedByCall ==
  IF before.method \in SyncMethods
  THEN {[before.monitor EXCEPT ![o] = Decremented(@)] : o \in Objects}
  ELSE {before.monitor}

\* A call that finishes in its slice leaves no frame and no lock behind, whatever
\* it called, caught or missed, but for the one release too many.
FinishedCallsLeaveNoTrace ==
  [][Ends /\ answer' # "stray" =>
       LiveFrames' = before.live /\ monitor' \in ReleasedByCall]_allVars

Runnable(t) == t = current \/ t \in ToSet(threads) \/ (calling /\ t = caller)

\* The frame at i of t has locked o: it is inside, and not the method called.
Locked(t, i, o) ==
  /\ InMethod(stack[t][i])
  /\ frame[stack[t][i]].lv0 = o
  /\ <<t, i>> # <<CallStack, 1>>

\* Object o is locked, and by no frame of a thread that can still run.
Ownerless(o) ==
  /\ monitor[o] > 0
  /\ \A t \in Threads : Runnable(t) => \A i \in DOMAIN stack[t] : ~Locked(t, i, o)

\* The frames that a call cut off by its slice, or a dropped thread, leaves inside
\* synchronized methods keep everybody out for ever.  Only a synchronized method
\* called from C++ takes such a lock away, which it never had.
OwnerlessForEver ==
  [][\A o \in Objects : Ownerless(o) /\ ~Ownerless(o)' =>
       calling /\ before.method \in SyncMethods]_allVars
=============================================================================

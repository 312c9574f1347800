------------------------- MODULE InvokeMethodProofs -------------------------
(***************************************************************************)
(* Calls from C++, for every program and any number of threads, addresses, *)
(* objects and calls.  The scheduler and the turns of a call are steps of  *)
(* JavaVM, so what its proofs say of a step holds here; a call adds the    *)
(* frame it makes and the frames it leaves.                                *)
(***************************************************************************)
EXTENDS InvokeMethod, JavaVMProofs

\* The opcode that called has not advanced its pc.
CallerWaits ==
  /\ stack[caller] # <<>>
  /\ frame[Top(caller)].method \notin NativeMethods
  /\ frame[Top(caller)].waitingObj = Null
  /\ Code[frame[Top(caller)].method][frame[Top(caller)].pc + 1].op = "next"

\* Where a call leaves the scheduler: CallStack runs or is done, and the caller
\* is where it was.
Suspended ==
  /\ vm # "setup"
  /\ current \in {CallStack, NoThread}
  /\ current = CallStack => CallStack \notin ToSet(threads)
  /\ CallStack \notin ToSet(Queue)
  /\ caller \in (Threads \ {CallStack}) \cup {NoThread}
  /\ caller = NoThread =>
       \A t \in Threads \ {CallStack} : t \notin ToSet(Queue) => stack[t] = <<>>
  /\ caller # NoThread => CallerWaits

\* Without a call CallStack is nowhere.
AtRest ==
  /\ current # CallStack
  /\ CallStack \notin ToSet(threads)
  /\ stack[CallStack] = <<>>

CallShape == IF calling THEN Suspended ELSE AtRest

\* The method called is at the bottom of CallStack.
CalledFirst ==
  calling /\ stack[CallStack] # <<>> =>
    frame[stack[CallStack][1]].method = before.method

CallBase == Base /\ CallShape /\ CalledFirst

-----------------------------------------------------------------------------
(* The queue during a turn *)

LEMMA QueueFacts ==
  ASSUME NEW s \in Seq(Threads)
  PROVE  /\ threads = <<CallStack>> \o s => Queue = s
         /\ threads = s /\ CallStack \notin ToSet(s) => Queue = s
<1>1. ASSUME threads = <<CallStack>> \o s
      PROVE  Queue = s
  <2>1. threads # <<>> /\ Head(threads) = CallStack
    BY <1>1, CallAssumption
  <2>2. Tail(threads) = s
    BY <1>1, CallAssumption
  <2> QED
    BY <2>1, <2>2 DEF Queue
<1>2. ASSUME threads = s, CallStack \notin ToSet(s)
      PROVE  Queue = s
  <2>1. threads # <<>> => Head(threads) # CallStack
    BY <1>2 DEF ToSet
  <2> QED
    BY <1>2, <2>1 DEF Queue
<1> QED
  BY <1>1, <1>2

\* A turn of the loop of execThread moves only the thread that it runs.
LEMMA RunnerStep ==
  ASSUME Base, vm # "setup", SliceExpires \/ CheckFrame \/ Execute
  PROVE  /\ vm' # "setup"
         /\ current \in Threads
         /\ \/ UNCHANGED <<threads, current>>
            \/ current' = NoThread /\ threads' \in {threads, <<current>> \o threads}
<1>1. current \in Threads
  <2>1. current # NoThread
    BY DEF SliceExpires, CheckFrame, Yield, Acquire, Rewait, Execute,
       NextInstruction, Branch, Store0, Invoke, Return, AthrowUncaught, AthrowCaught,
       Drop, MonitorEnter, MonitorExit, Abort, Fatal, At, CanExecute, HasFrame, InSlice
  <2> QED
    BY <2>1 DEF Base, TypeOK
<1>2. CASE SliceExpires \/ Yield \/ Rewait
  BY <1>1, <1>2 DEF SliceExpires, Yield, Rewait, PushThread
<1>3. CASE Drop \/ Abort
  BY <1>1, <1>3 DEF Drop, Abort
<1>4. CASE Acquire \/ NextInstruction \/ Branch \/ Store0 \/ AthrowCaught
  BY <1>1, <1>4 DEF Acquire, NextInstruction, Branch, Goto, Store0, AthrowCaught
<1>5. CASE \/ MonitorEnter \/ MonitorExit \/ Return \/ AthrowUncaught
           \/ \E b \in Addr : Invoke(b)
  BY <1>1, <1>5, MonitorEnterFacts, MonitorExitFacts, MethodDoneFacts, InvokeFacts
<1> QED
  BY <1>2, <1>3, <1>4, <1>5 DEF CheckFrame, Execute

\* Turns and the scheduler take steps of JavaVM.
LEMMA CallStepIsNext ==
  ASSUME CallStep
  PROVE  /\ Next
         /\ SliceExpires \/ CheckFrame \/ Execute
         /\ calling /\ calling' = calling
         /\ current = CallStack
         /\ UNCHANGED <<calls, caller, before, answer>>
BY DEF CallStep, Next

LEMMA SchedulerIsNext ==
  ASSUME Scheduler
  PROVE  Next /\ ~calling /\ UNCHANGED callVars
BY DEF Scheduler, Next

\* During a turn the stacks of the other threads and their frames stay.
LEMMA OthersDuringTurn ==
  ASSUME Base, vm # "setup", Next, NEW t \in Threads, t # current
  PROVE  stack'[t] = stack[t]
<1>1. CASE KeepsFrames
  BY <1>1 DEF KeepsFrames
<1>2. CASE PopsFrame
  BY <1>2 DEF PopsFrame, PopFrame, Base, TypeOK
<1>3. ASSUME NEW b \in Addr, PushesFrame(current, b)
      PROVE  stack'[t] = stack[t]
  BY <1>3 DEF PushesFrame, Base, TypeOK
<1> QED
  BY <1>1, <1>2, <1>3, FrameStep

\* A frame below the top, or on the stack of another thread, keeps its method.
LEMMA OtherFrames ==
  ASSUME Base, vm # "setup", Next,
         NEW t \in Threads, NEW i \in DOMAIN stack[t], NEW a, a = stack[t][i],
         t # current \/ i # Len(stack[t])
  PROVE  /\ a \in Addr /\ Live(a) /\ Live(a)'
         /\ frame'[a].method = frame[a].method
         /\ frame'[a].pc = frame[a].pc
         /\ frame'[a].lv0 = frame[a].lv0
         /\ frame'[a].waitingObj = frame[a].waitingObj
<1>1. a \in Addr /\ Live(a)
  BY DEF Base, TypeOK, FramesOnOneStack
<1>2. HasFrame => a # TopAddr
  <2> SUFFICES ASSUME HasFrame PROVE a # TopAddr
    OBVIOUS
  <2>1. /\ current \in Threads
        /\ Len(stack[current]) \in DOMAIN stack[current]
        /\ TopAddr = stack[current][Len(stack[current])]
    BY TopFacts DEF Base, TypeOK
  <2> QED
    BY <2>1 DEF Base, FramesOnOneStack
<1> QED
  BY <1>1, <1>2, OthersKeepTheirFrame

\* The frame that runs keeps its method while it lives.
LEMMA TopKeepsMethod ==
  ASSUME Base, HasFrame, vm # "setup", Next, NEW a, a = TopAddr, Live(a)'
  PROVE  frame'[a].method = frame[a].method
<1>1. a \in Addr /\ Live(a) /\ frame[a] = TopFrame
  BY TopFacts DEF Base, TopFrame
<1>2. ASSUME NEW f, frame' = [frame EXCEPT ![TopAddr] = f], f.method = TopFrame.method
      PROVE  frame'[a].method = frame[a].method
  BY <1>1, <1>2 DEF Base, TypeOK
<1>3. CASE ExecThreads \/ PopThread \/ PopNothing \/ SliceExpires \/ Yield \/ Drop \/ Abort
  BY <1>3
  DEF ExecThreads, PopThread, PopNothing, SliceExpires, Yield, Drop, Abort, vars
<1>4. CASE Acquire \/ Rewait
  BY <1>2, <1>4, AcquireFacts, RewaitFacts, BlockedFrameFacts
<1>5. CASE NextInstruction \/ Branch
  BY <1>2, <1>5, GotoFacts, AtPcFacts
<1>6. CASE Store0 \/ AthrowCaught
  BY <1>2, <1>6, Store0Facts, AthrowCaughtFacts
<1>7. CASE MonitorEnter
  BY <1>2, <1>7, MonitorEnterFacts, BlockedFrameFacts
<1>8. ASSUME NEW b \in Addr, Invoke(b)
      PROVE  frame'[a].method = frame[a].method
  BY <1>1, <1>8, InvokeFacts, AtPcFacts
<1>9. ~(Return \/ AthrowUncaught)
  BY <1>1, MethodDoneFacts
<1>10. CASE MonitorExit
  <2>1. PICK o \in Objects : frame' = Notified(o) \/ frame' = frame
    BY <1>10, MonitorExitFacts
  <2> QED
    BY <1>1, <2>1, NotifiedFacts DEF Base, Live
<1>11. ASSUME NEW t \in Threads, NEW b \in Addr, NEW m \in EntryMethods
       PROVE  ~AddNewThread(t, b, m)
  BY DEF AddNewThread
<1> QED
  BY <1>3, <1>4, <1>5, <1>6, <1>7, <1>8, <1>9, <1>10, <1>11
  DEF Next, CheckFrame, Execute

-----------------------------------------------------------------------------
(* CallBase is inductive *)

LEMMA CallStepShape ==
  ASSUME CallBase, CallStep
  PROVE  Base' /\ CallShape'
<1>1. /\ Next /\ Base /\ calling /\ calling' /\ Suspended
      /\ SliceExpires \/ CheckFrame \/ Execute
      /\ current = CallStack /\ CallStack \in Threads /\ caller' = caller
      /\ vm # "setup"
  BY CallStepIsNext, CallAssumption DEF CallBase, CallShape, Suspended
<1>2. Base'
  BY <1>1, BaseStep
<1>3. /\ vm' # "setup"
      /\ \/ UNCHANGED <<threads, current>>
         \/ current' = NoThread /\ threads' \in {threads, <<CallStack>> \o threads}
  BY <1>1, RunnerStep
<1>4. threads \in Seq(Threads) /\ CallStack \notin ToSet(threads) /\ Queue = threads
  BY <1>1, QueueFacts DEF Base, TypeOK, Suspended
<1>5. Queue' = threads
  <2>1. CASE threads' = threads
    BY <1>4, <2>1 DEF Queue
  <2>2. CASE threads' = <<CallStack>> \o threads
    <3>1. threads' # <<>> /\ Head(threads') = CallStack /\ Tail(threads') = threads
      BY <1>4, <2>2, CallAssumption
    <3> QED
      BY <3>1 DEF Queue
  <2> QED
    BY <1>3, <2>1, <2>2
<1>6. \A t \in Threads \ {CallStack} : stack'[t] = stack[t]
  BY <1>1, OthersDuringTurn
<1>7. CASE caller = NoThread
  BY <1>1, <1>2, <1>3, <1>4, <1>5, <1>6, <1>7, NamesAssumption DEF CallShape, Suspended
<1>8. CASE caller # NoThread
  <2>1. /\ caller \in Threads \ {CallStack} /\ CallerWaits
        /\ stack'[caller] = stack[caller] /\ stack[caller] # <<>>
    BY <1>1, <1>6, <1>8 DEF Suspended, CallerWaits
  <2>2. PICK a : a = Top(caller)
    OBVIOUS
  <2>3. stack[caller] \in Seq(Addr) /\ Len(stack[caller]) \in DOMAIN stack[caller]
    BY <1>1, <2>1 DEF Base, TypeOK
  <2>4. a = stack[caller][Len(stack[caller])] /\ Top(caller)' = a
    BY <1>1, <2>1, <2>2 DEF Top, Last
  <2>5. /\ frame'[a].method = frame[a].method /\ frame'[a].pc = frame[a].pc
        /\ frame'[a].waitingObj = frame[a].waitingObj
    BY <1>1, <2>1, <2>3, <2>4, OtherFrames
  <2>6. CallerWaits'
    BY <1>1, <2>1, <2>2, <2>4, <2>5 DEF CallerWaits
  <2> QED
    BY <1>1, <1>2, <1>3, <1>4, <1>5, <1>8, <2>1, <2>6, NamesAssumption DEF CallShape, Suspended
<1> QED
  BY <1>2, <1>7, <1>8

LEMMA SchedulerShape ==
  ASSUME CallBase, Scheduler
  PROVE  Base' /\ CallShape'
<1>1. Next /\ ~calling /\ ~calling' /\ Base /\ AtRest /\ CallStack \in Threads
  BY SchedulerIsNext, CallAssumption DEF CallBase, CallShape, callVars
<1>2. Base' /\ threads \in Seq(Threads)
  BY <1>1, BaseStep DEF Base, TypeOK
<1> SUFFICES AtRest'
  BY <1>1, <1>2 DEF CallShape
<1>3. ASSUME NEW t \in Threads \ {CallStack}, NEW a \in Addr, NEW m \in EntryMethods,
             AddNewThread(t, a, m)
      PROVE  AtRest'
  <2>1. /\ stack' = [stack EXCEPT ![t] = <<a>>]
        /\ threads' = Append(threads, t)
        /\ UNCHANGED current
    BY <1>3 DEF AddNewThread
  <2>2. CallStack \notin ToSet(threads')
    BY <1>1, <1>2, <2>1 DEF AtRest, ToSet
  <2> QED
    BY <1>1, <2>1, <2>2 DEF AtRest, Base, TypeOK
<1>4. CASE ExecThreads \/ PopNothing
  BY <1>1, <1>4 DEF AtRest, ExecThreads, PopNothing, vars
<1>5. CASE PopThread
  <2>1. /\ threads # <<>> /\ current' = Last(threads) /\ threads' = Front(threads)
        /\ UNCHANGED stack
    BY <1>5 DEF PopThread
  <2>2. /\ Last(threads) = threads[Len(threads)]
        /\ Len(threads) \in DOMAIN threads
        /\ Front(threads) = SubSeq(threads, 1, Len(threads) - 1)
    BY <1>2, <2>1 DEF Last, Front
  <2>3. \A i \in DOMAIN Front(threads) : i \in DOMAIN threads /\ Front(threads)[i] = threads[i]
    BY <1>2, <2>2
  <2> QED
    BY <1>1, <2>1, <2>2, <2>3 DEF AtRest, ToSet
<1>6. CASE SliceExpires \/ CheckFrame \/ Execute
  <2>1. vm # "setup"
    BY <1>6, NamesAssumption DEF SliceExpires, CheckFrame, Yield, Acquire, Rewait, Execute,
       NextInstruction, Branch, Store0, Invoke, Return, AthrowUncaught, AthrowCaught,
       Drop, MonitorEnter, MonitorExit, Abort, Fatal, At, CanExecute, HasFrame, InSlice
  <2>2. /\ current \in Threads
        /\ \/ UNCHANGED <<threads, current>>
           \/ current' = NoThread /\ threads' \in {threads, <<current>> \o threads}
    BY <1>1, <1>6, <2>1, RunnerStep
  <2>3. current # CallStack /\ stack'[CallStack] = <<>>
    BY <1>1, <2>1, OthersDuringTurn DEF AtRest
  <2>4. CallStack \notin ToSet(<<current>> \o threads)
    BY <1>1, <1>2, <2>2, <2>3 DEF AtRest, ToSet
  <2> QED
    BY <1>1, <2>2, <2>3, <2>4, NamesAssumption DEF AtRest
<1> QED
  BY <1>1, <1>2, <1>3, <1>4, <1>5, <1>6 DEF Scheduler

\* What the call does to the frames: one more, with nothing in it but the receiver.
LEMMA InvokeMethodFacts ==
  ASSUME CallBase, NEW o \in Objects, NEW m \in Methods, NEW a \in Addr,
         InvokeMethod(o, m, a)
  PROVE  /\ ~calling /\ calling' /\ AtRest /\ Base
         /\ CallStack \in Threads
         /\ ~Live(a)
         /\ frame'[a] \in Frame
         /\ frame'[a].method = m /\ frame'[a].pc = 0
         /\ ~frame'[a].lock /\ frame'[a].waitingObj = Null
         /\ \A b \in Addr \ {a} : frame'[b] = frame[b]
         /\ frame' \in [Addr -> Frame \cup {Freed}]
         /\ \A b \in Addr : Live(b)' <=> b = a \/ Live(b)
         /\ stack' = [stack EXCEPT ![CallStack] = Append(@, a)]
         /\ stack'[CallStack] = <<a>>
         /\ \A t \in Threads \ {CallStack} : stack'[t] = stack[t]
         /\ UNCHANGED <<threads, monitor, notify>>
         /\ m \notin NativeMethods
<1>1. /\ ~calling /\ calling'
      /\ m \notin NativeMethods \cup AbstractMethods
      /\ ~Live(a)
      /\ frame' = [frame EXCEPT ![a] = CallFrame(m, o)]
      /\ stack' = [stack EXCEPT ![CallStack] = <<a>>]
      /\ UNCHANGED <<threads, monitor, notify>>
  BY DEF InvokeMethod, CallPossible
<1>2. Base /\ AtRest /\ CallStack \in Threads
  BY <1>1, CallAssumption DEF CallBase, CallShape
<1>3. /\ CallFrame(m, o) \in Frame
      /\ CallFrame(m, o).method = m /\ CallFrame(m, o).pc = 0
      /\ ~CallFrame(m, o).lock /\ CallFrame(m, o).waitingObj = Null
  <2>1. PICK r \in Objects \cup {Null} : CallFrame(m, o) = NewFrame(m, r)
    BY DEF CallFrame
  <2> QED
    BY <1>1, <2>1 DEF NewFrame, Frame
<1>4. /\ frame'[a] = CallFrame(m, o)
      /\ \A b \in Addr \ {a} : frame'[b] = frame[b]
      /\ frame' \in [Addr -> Frame \cup {Freed}]
  BY <1>1, <1>2, <1>3 DEF Base, TypeOK
<1>5. \A b \in Addr : Live(b)' <=> b = a \/ Live(b)
  BY <1>3, <1>4, FreedAssumption DEF Live
<1>6. Append(stack[CallStack], a) = <<a>>
  BY <1>2 DEF AtRest
<1>7. /\ stack' = [stack EXCEPT ![CallStack] = Append(@, a)]
      /\ stack'[CallStack] = <<a>>
      /\ \A t \in Threads \ {CallStack} : stack'[t] = stack[t]
  BY <1>1, <1>2, <1>6 DEF Base, TypeOK
<1> QED
  BY <1>1, <1>2, <1>3, <1>4, <1>5, <1>7

LEMMA InvokeMethodShape ==
  ASSUME CallBase, NEW o \in Objects, NEW m \in Methods, NEW a \in Addr,
         InvokeMethod(o, m, a)
  PROVE  CallBase'
<1>1. /\ ~calling /\ calling' /\ AtRest /\ Base
      /\ CallStack \in Threads
      /\ ~Live(a)
      /\ frame'[a] \in Frame
      /\ frame'[a].method = m /\ frame'[a].pc = 0
      /\ \A b \in Addr \ {a} : frame'[b] = frame[b]
      /\ frame' \in [Addr -> Frame \cup {Freed}]
      /\ \A b \in Addr : Live(b)' <=> b = a \/ Live(b)
      /\ stack' = [stack EXCEPT ![CallStack] = Append(@, a)]
      /\ stack'[CallStack] = <<a>>
      /\ \A t \in Threads \ {CallStack} : stack'[t] = stack[t]
      /\ UNCHANGED <<threads, monitor, notify>>
      /\ m \in Methods \ (NativeMethods \cup AbstractMethods)
  BY InvokeMethodFacts DEF InvokeMethod
<1>2. /\ vm' = "running" /\ current' = CallStack /\ caller' = current
      /\ before'.method = m
      /\ vm = "setup" \/ At("next")
  BY DEF InvokeMethod, CallPossible
<1>3. FramesOnOneStack'
  BY <1>1, PushOwnership
<1>4. PcInCode'
  <2> SUFFICES ASSUME NEW b \in Addr, Live(b)', frame'[b].method \notin NativeMethods
               PROVE  frame'[b].pc < Len(Code[frame'[b].method])
    BY DEF PcInCode
  <2>1. CASE b = a
    <3>1. Code[m] \in Seq(Instruction) /\ Code[m] # <<>>
      BY <1>1, CodeAssumption
    <3> QED
      BY <1>1, <2>1, <3>1
  <2>2. CASE b # a
    BY <1>1, <2>2 DEF Base, PcInCode
  <2> QED
    BY <2>1, <2>2
<1>5. TypeOK'
  <2>1. stack' \in [Threads -> Seq(Addr)]
    BY <1>1 DEF Base, TypeOK
  <2> QED
    BY <1>1, <1>2, <2>1 DEF Base, TypeOK
<1>6. Base'
  BY <1>2, <1>3, <1>4, <1>5 DEF Base, SetupOK
<1>7. CalledFirst'
  BY <1>1, <1>2 DEF CalledFirst
<1>8. threads \in Seq(Threads) /\ Queue' = threads /\ CallStack \notin ToSet(threads)
  BY <1>1, QueueFacts DEF Base, TypeOK, AtRest, Queue
<1>9. CASE vm = "setup"
  BY <1>1, <1>2, <1>6, <1>7, <1>8, <1>9 DEF CallBase, CallShape, Suspended, Base, SetupOK
<1>10. CASE At("next")
  <2>1. /\ HasFrame
        /\ TopFrame.method \notin NativeMethods /\ TopFrame.waitingObj = Null
        /\ Instr = Code[TopFrame.method][TopFrame.pc + 1] /\ Instr.op = "next"
    BY <1>10 DEF At, CanExecute, Instr
  <2>2. /\ current \in Threads \ {CallStack}
        /\ TopAddr \in Addr /\ TopAddr # a
        /\ stack[current] # <<>>
    BY <1>1, <2>1, TopFacts DEF AtRest, Base, HasFrame
  <2>3. stack'[caller'] = stack[current] /\ Top(caller)' = TopAddr
    BY <1>1, <1>2, <2>2 DEF Top, TopAddr
  <2>4. frame'[TopAddr] = TopFrame
    BY <1>1, <2>2 DEF TopFrame
  <2>5. CallerWaits'
    BY <2>1, <2>2, <2>3, <2>4 DEF CallerWaits
  <2> QED
    BY <1>1, <1>2, <1>6, <1>7, <1>8, <2>2, <2>5, NamesAssumption
    DEF CallBase, CallShape, Suspended
<1> QED
  BY <1>2, <1>9, <1>10

\* The frame that invokeMethod deletes, and the caller that goes on.
CutOff(b) == stack[CallStack] # <<>> /\ b = Top(CallStack)
GoesOn(b) == caller # NoThread /\ b = Top(caller)

LEMMA EndCallFacts ==
  ASSUME CallBase, EndCall
  PROVE  /\ Base /\ Suspended /\ calling /\ ~calling'
         /\ CallStack \in Threads
         /\ frame' \in [Addr -> Frame \cup {Freed}]
         /\ \A b \in Addr : Live(b)' <=> Live(b) /\ ~CutOff(b)
         /\ \A b \in Addr : Live(b)' =>
              /\ frame'[b].method = frame[b].method
              /\ frame'[b].lv0 = frame[b].lv0
              /\ frame'[b].lock = frame[b].lock
              /\ frame'[b].waitingObj = frame[b].waitingObj
              /\ frame'[b].pc = IF GoesOn(b) THEN frame[b].pc + 1 ELSE frame[b].pc
         /\ caller # NoThread =>
              /\ caller \in Threads \ {CallStack}
              /\ \E b \in Addr : b = Top(caller) /\ Live(b) /\ ~CutOff(b)
         /\ stack'[CallStack] = <<>>
         /\ \A t \in Threads \ {CallStack} : stack'[t] = stack[t]
         /\ stack' \in [Threads -> Seq(Addr)]
<1>1. /\ calling /\ ~calling'
      /\ frame' = IF caller = NoThread THEN Deleted
                  ELSE [Deleted EXCEPT ![Top(caller)].pc = @ + 1]
      /\ stack' = [stack EXCEPT ![CallStack] = <<>>]
  BY DEF EndCall
<1>2. Base /\ Suspended /\ CallStack \in Threads
  BY <1>1, CallAssumption DEF CallBase, CallShape
<1>3. frame \in [Addr -> Frame \cup {Freed}] /\ stack \in [Threads -> Seq(Addr)]
  BY <1>2 DEF Base, TypeOK
<1>4. stack[CallStack] # <<>> =>
        /\ Len(stack[CallStack]) \in DOMAIN stack[CallStack]
        /\ Top(CallStack) = stack[CallStack][Len(stack[CallStack])]
        /\ Top(CallStack) \in Addr
  BY <1>2, <1>3 DEF Top, Last
<1>5. \A b \in Addr : Deleted[b] = IF CutOff(b) THEN Freed ELSE frame[b]
  BY <1>3, <1>4 DEF Deleted, CutOff
<1>6. Deleted \in [Addr -> Frame \cup {Freed}]
  BY <1>3 DEF Deleted
<1>7. /\ stack'[CallStack] = <<>>
      /\ \A t \in Threads \ {CallStack} : stack'[t] = stack[t]
      /\ stack' \in [Threads -> Seq(Addr)]
  BY <1>1, <1>2, <1>3
<1>8. CASE caller = NoThread
  <2>1. \A b \in Addr : ~GoesOn(b)
    BY <1>8 DEF GoesOn
  <2>2. \A b \in Addr : frame'[b] = IF CutOff(b) THEN Freed ELSE frame[b]
    BY <1>1, <1>5, <1>8
  <2> QED
    BY <1>1, <1>2, <1>6, <1>7, <1>8, <2>1, <2>2 DEF Live
<1>9. CASE caller # NoThread
  <2>1. caller \in Threads \ {CallStack} /\ stack[caller] # <<>>
    BY <1>2, <1>9 DEF Suspended, CallerWaits
  <2>2. /\ Len(stack[caller]) \in DOMAIN stack[caller]
        /\ Top(caller) = stack[caller][Len(stack[caller])]
        /\ Top(caller) \in Addr
    BY <1>3, <2>1 DEF Top, Last
  <2>3. PICK c \in Addr : c = Top(caller)
    BY <2>2
  <2>4. Live(c) /\ ~CutOff(c)
    BY <1>2, <1>4, <2>1, <2>2, <2>3 DEF CutOff, Base, FramesOnOneStack
  <2>5. Deleted[c] = frame[c] /\ frame[c] \in Frame
    BY <1>3, <1>5, <2>4 DEF Live
  <2> DEFINE f == [frame[c] EXCEPT !.pc = @ + 1]
  <2>6. /\ f \in Frame
        /\ f.method = frame[c].method /\ f.lv0 = frame[c].lv0
        /\ f.lock = frame[c].lock /\ f.waitingObj = frame[c].waitingObj
        /\ f.pc = frame[c].pc + 1
    BY <2>5 DEF Frame
  <2>7. frame' = [Deleted EXCEPT ![c] = f]
    BY <1>1, <1>6, <1>9, <2>3, <2>5
  <2> HIDE DEF f
  <2>8. /\ frame' \in [Addr -> Frame \cup {Freed}]
        /\ frame'[c] = f
        /\ \A b \in Addr \ {c} : frame'[b] = IF CutOff(b) THEN Freed ELSE frame[b]
    BY <1>5, <1>6, <2>6, <2>7
  <2>9. \A b \in Addr : GoesOn(b) <=> b = c
    BY <1>9, <2>3 DEF GoesOn
  <2>10. \A b \in Addr : Live(b)' <=> Live(b) /\ ~CutOff(b)
    BY <2>4, <2>6, <2>8, FreedAssumption DEF Live
  <2>11. \A b \in Addr : Live(b)' =>
           /\ frame'[b].method = frame[b].method
           /\ frame'[b].lv0 = frame[b].lv0
           /\ frame'[b].lock = frame[b].lock
           /\ frame'[b].waitingObj = frame[b].waitingObj
           /\ frame'[b].pc = IF GoesOn(b) THEN frame[b].pc + 1 ELSE frame[b].pc
    BY <2>6, <2>8, <2>9, <2>10
  <2> QED
    BY <1>1, <1>2, <1>7, <2>1, <2>3, <2>4, <2>8, <2>10, <2>11
<1> QED
  BY <1>8, <1>9

LEMMA EndCallShape ==
  ASSUME CallBase, EndCall
  PROVE  Base' /\ CallShape'
<1>1. /\ Base /\ Suspended /\ calling /\ ~calling'
      /\ CallStack \in Threads
      /\ frame' \in [Addr -> Frame \cup {Freed}]
      /\ \A b \in Addr : Live(b)' <=> Live(b) /\ ~CutOff(b)
      /\ \A b \in Addr : Live(b)' =>
           /\ frame'[b].method = frame[b].method
           /\ frame'[b].pc = IF GoesOn(b) THEN frame[b].pc + 1 ELSE frame[b].pc
      /\ stack'[CallStack] = <<>>
      /\ \A t \in Threads \ {CallStack} : stack'[t] = stack[t]
      /\ stack' \in [Threads -> Seq(Addr)]
  BY EndCallFacts
<1>2. /\ threads' = Queue /\ current' = caller
      /\ vm' = IF caller = NoThread THEN "setup" ELSE "running"
      /\ UNCHANGED <<monitor, notify>>
  BY DEF EndCall
<1>3. Queue \in Seq(Threads)
  BY <1>1 DEF Base, TypeOK, Queue
<1>4. caller \in Threads \cup {NoThread} /\ caller # CallStack
  BY <1>1, NamesAssumption DEF Suspended
<1>5. TypeOK'
  BY <1>1, <1>2, <1>3, <1>4 DEF Base, TypeOK
<1>6. FramesOnOneStack'
  <2>1. \A t \in Threads : \A i \in DOMAIN stack'[t] :
          t # CallStack /\ i \in DOMAIN stack[t] /\ stack'[t][i] = stack[t][i]
    BY <1>1
  <2>2. \A t \in Threads \ {CallStack} : \A i \in DOMAIN stack[t] :
          stack[t][i] \in Addr /\ Live(stack[t][i])
    BY <1>1 DEF Base, TypeOK, FramesOnOneStack
  <2>3. stack[CallStack] # <<>> =>
          /\ Len(stack[CallStack]) \in DOMAIN stack[CallStack]
          /\ Top(CallStack) = stack[CallStack][Len(stack[CallStack])]
    BY <1>1 DEF Top, Last, Base, TypeOK
  <2>4. \A t \in Threads \ {CallStack} : \A i \in DOMAIN stack[t] : ~CutOff(stack[t][i])
    BY <1>1, <2>3 DEF CutOff, Base, FramesOnOneStack
  <2>5. \A t \in Threads : \A i \in DOMAIN stack'[t] : frame'[stack'[t][i]] # Freed
    BY <1>1, <2>1, <2>2, <2>4 DEF Live
  <2>6. \A t, u \in Threads : \A i \in DOMAIN stack'[t], j \in DOMAIN stack'[u] :
          stack'[t][i] = stack'[u][j] => t = u /\ i = j
    BY <1>1, <2>1 DEF Base, FramesOnOneStack
  <2> QED
    BY <2>5, <2>6 DEF FramesOnOneStack, Live
<1>7. PcInCode'
  <2> SUFFICES ASSUME NEW b \in Addr, Live(b)', frame'[b].method \notin NativeMethods
               PROVE  frame'[b].pc < Len(Code[frame'[b].method])
    BY DEF PcInCode
  <2>1. /\ frame[b].method = frame'[b].method
        /\ frame[b].method \in Methods \ AbstractMethods
        /\ frame[b].pc \in Nat
        /\ frame[b].pc < Len(Code[frame[b].method])
        /\ Live(b)
    BY <1>1 DEF Base, TypeOK, PcInCode, Live, Frame
  <2>2. CASE ~GoesOn(b)
    BY <1>1, <2>1, <2>2
  <2>3. CASE GoesOn(b)
    <3>1. Code[frame[b].method][frame[b].pc + 1].op = "next"
      BY <1>1, <2>3 DEF GoesOn, Suspended, CallerWaits
    <3>2. frame[b].pc + 1 \in DOMAIN Code[frame[b].method]
      BY <2>1, CodeAssumption
    <3>3. frame[b].pc + 1 < Len(Code[frame[b].method])
      BY <2>1, <3>1, <3>2, CodeAssumption
    <3> QED
      BY <1>1, <2>1, <2>3, <3>3
  <2> QED
    BY <2>2, <2>3
<1>8. SetupOK'
  BY <1>1, <1>2 DEF SetupOK, Suspended
<1>9. AtRest'
  BY <1>1, <1>2, <1>4 DEF AtRest, Suspended
<1> QED
  BY <1>1, <1>5, <1>6, <1>7, <1>8, <1>9 DEF Base, CallShape

\* The stack of the thread that runs grows, shrinks and stays at its top.
LEMMA RunnerStack ==
  ASSUME Base, vm # "setup", Next, current \in Threads
  PROVE  \/ stack'[current] = stack[current] /\ KeepsFrames
         \/ /\ HasFrame
            /\ \E b \in Addr : /\ PushesFrame(current, b)
                              /\ stack'[current] = Append(stack[current], b)
         \/ /\ PopsFrame
            /\ Len(stack[current]) \in Nat \ {0}
            /\ stack'[current] = SubSeq(stack[current], 1, Len(stack[current]) - 1)
<1>1. CASE KeepsFrames
  BY <1>1 DEF KeepsFrames
<1>2. ASSUME NEW b \in Addr, PushesFrame(current, b)
      PROVE  stack'[current] = Append(stack[current], b)
  BY <1>2 DEF PushesFrame, Base, TypeOK
<1>3. CASE PopsFrame
  <2>1. Len(stack[current]) \in Nat \ {0}
    BY <1>3, TopFacts DEF PopsFrame, Base
  <2>2. stack'[current] = Front(stack[current])
    BY <1>3 DEF PopsFrame, PopFrame, Base, TypeOK
  <2> QED
    BY <1>3, <2>1, <2>2 DEF Front
<1> QED
  BY <1>1, <1>2, <1>3, FrameStep

LEMMA BottomFrame ==
  ASSUME Base, vm # "setup", Next, current \in Threads, stack'[current] # <<>>
  PROVE  /\ stack[current] # <<>>
         /\ stack'[current][1] = stack[current][1]
         /\ frame'[stack[current][1]] # Freed
         /\ frame'[stack[current][1]].method = frame[stack[current][1]].method
<1> DEFINE s == stack[current]
           n == Len(s)
<1>1. s \in Seq(Addr) /\ n \in Nat
  BY DEF Base, TypeOK
<1>2. Base'
  BY BaseStep
<1>3. s # <<>> /\ stack'[current][1] = s[1]
  <2>1. CASE stack'[current] = s
    BY <2>1
  <2>2. ASSUME NEW b \in Addr, HasFrame, stack'[current] = Append(s, b)
        PROVE  s # <<>> /\ stack'[current][1] = s[1]
    BY <1>1, <2>2 DEF HasFrame
  <2>3. CASE n \in Nat \ {0} /\ stack'[current] = SubSeq(s, 1, n - 1)
    BY <1>1, <2>3
  <2> QED
    BY <2>1, <2>2, <2>3, RunnerStack
<1>4. PICK a : a = s[1]
  OBVIOUS
<1>5. Live(a)'
  <2>1. stack'[current] \in Seq(Addr) /\ 1 \in DOMAIN stack'[current]
    BY <1>2 DEF Base, TypeOK
  <2>2. frame'[stack'[current][1]] # Freed
    <3>1. \A t \in Threads : \A i \in DOMAIN stack'[t] : frame'[stack'[t][i]] # Freed
      BY <1>2 DEF Base, FramesOnOneStack, Live
    <3> QED
      BY <2>1, <3>1
  <2> QED
    BY <1>3, <1>4, <2>2 DEF Live
<1>6. 1 \in DOMAIN s
  BY <1>1, <1>3
<1>7. a \in Addr /\ Live(a)
  BY <1>4, <1>6 DEF Base, TypeOK, FramesOnOneStack
<1>8. frame'[a].method = frame[a].method
  <2>1. CASE HasFrame /\ a = TopAddr
    BY <1>5, <2>1, TopKeepsMethod
  <2>2. CASE ~(HasFrame /\ a = TopAddr)
    BY <1>7, <2>2, OthersKeepTheirFrame
  <2> QED
    BY <2>1, <2>2
<1> QED
  BY <1>3, <1>4, <1>5, <1>8 DEF Live

LEMMA CallBaseInit == CallInit => CallBase
<1> SUFFICES ASSUME CallInit PROVE CallBase
  OBVIOUS
<1>1. Base
  BY BaseInit DEF CallInit
<1>2. CallShape /\ CalledFirst
  BY NamesAssumption, CallAssumption
  DEF CallInit, Init, CallShape, AtRest, CalledFirst, ToSet
<1> QED
  BY <1>1, <1>2 DEF CallBase

LEMMA CallBaseStep ==
  ASSUME CallBase, [CallNext]_allVars
  PROVE  CallBase'
<1>1. CASE UNCHANGED allVars
  <2>1. UNCHANGED vars /\ UNCHANGED callVars
    BY <1>1 DEF allVars
  <2>2. Base'
    BY <2>1, BaseStep DEF CallBase
  <2>3. CallShape' /\ CalledFirst'
    BY <2>1 DEF CallBase, vars, callVars, CallShape, Suspended, AtRest, CallerWaits,
       CalledFirst, Queue, Top
  <2> QED
    BY <2>2, <2>3 DEF CallBase
<1>2. CASE Scheduler
  <2>1. ~calling'
    BY <1>2, SchedulerIsNext DEF callVars
  <2> QED
    BY <1>2, <2>1, SchedulerShape DEF CallBase, CalledFirst
<1>3. ASSUME NEW o \in Objects, NEW m \in Methods, NEW a \in Addr, InvokeMethod(o, m, a)
      PROVE  CallBase'
  BY <1>3, InvokeMethodShape
<1>4. CASE CallStep
  <2>1. /\ Next /\ calling /\ calling' /\ current = CallStack /\ before' = before
        /\ Base /\ vm # "setup" /\ current \in Threads
    BY <1>4, CallStepIsNext, CallAssumption DEF CallBase, CallShape, Suspended
  <2>2. CalledFirst'
    BY <2>1, BottomFrame DEF CalledFirst, CallBase
  <2> QED
    BY <1>4, <2>2, CallStepShape DEF CallBase
<1>5. CASE EndCall
  <2>1. ~calling'
    BY <1>5, EndCallFacts
  <2> QED
    BY <1>5, <2>1, EndCallShape DEF CallBase, CalledFirst
<1> QED
  BY <1>1, <1>2, <1>3, <1>4, <1>5 DEF CallNext

LEMMA CallBaseInvariant == CallSpec => []CallBase
<1>1. CallBase /\ [CallNext]_allVars => CallBase'
  BY CallBaseStep
<1> QED
  BY CallBaseInit, <1>1, PTL DEF CallSpec

\* Calls from C++ leave the VM as sound as they find it: every variable keeps its
\* type, whoever calls, and wherever its slice cuts the call off.
THEOREM CallsKeepTypes == CallSpec => []TypeOK
<1>1. CallBase => TypeOK
  BY DEF CallBase, Base
<1> QED
  BY CallBaseInvariant, <1>1, PTL

\* With calls, too, a frame on a stack is live and on one stack only.  That every
\* live frame is on a stack is no longer true: a call cut off leaks its frames.
THEOREM CallsKeepFrames == CallSpec => []FramesOnOneStack
<1>1. CallBase => FramesOnOneStack
  BY DEF CallBase, Base
<1> QED
  BY CallBaseInvariant, <1>1, PTL

-----------------------------------------------------------------------------
(* No wake-up is lost *)

LEMMA CallWakeupStep ==
  ASSUME CallBase, NoLostWakeup, [CallNext]_allVars
  PROVE  NoLostWakeup'
<1>1. CASE UNCHANGED allVars
  BY <1>1 DEF allVars, vars, NoLostWakeup, Live
<1>2. CASE Scheduler \/ CallStep
  BY <1>2, SchedulerIsNext, CallStepIsNext, WakeupStep DEF CallBase
<1>3. ASSUME NEW o \in Objects, NEW m \in Methods, NEW a \in Addr, InvokeMethod(o, m, a)
      PROVE  NoLostWakeup'
  BY <1>3, InvokeMethodFacts DEF NoLostWakeup, Live
<1>4. CASE EndCall
  <2>1. UNCHANGED <<monitor, notify>>
    BY <1>4 DEF EndCall
  <2> QED
    BY <1>4, <2>1, EndCallFacts DEF NoLostWakeup
<1> QED
  BY <1>1, <1>2, <1>3, <1>4 DEF CallNext

\* Calls lose no wake-up either, in any program: the unlock of a frame that sleeps
\* stays registered while other threads' methods call from C++ and are cut off.
THEOREM CallsKeepWakeups == CallSpec => []NoLostWakeup
<1>1. CallInit => NoLostWakeup
  BY WakeupInit DEF CallInit
<1>2. CallBase /\ NoLostWakeup /\ [CallNext]_allVars => NoLostWakeup'
  BY CallWakeupStep
<1> QED
  BY CallBaseInvariant, <1>1, <1>2, PTL DEF CallSpec

-----------------------------------------------------------------------------
(* Objects whose lock nobody that can run holds *)

\* Whoever is inside after a step was inside before, or found the object free.
LEMMA EntersOnlyFree ==
  ASSUME Structured, Base, Next, NEW a \in Addr, InMethod(a)'
  PROVE  WasInside(a) \/ monitor[frame'[a].lv0] = 0
<1>1. CASE UNCHANGED frame
  BY <1>1 DEF InMethod, WasInside, Live, IsSync, Entering
<1>2. ASSUME NEW t \in Threads, NEW b \in Addr, NEW m \in EntryMethods,
             AddNewThread(t, b, m)
      PROVE  WasInside(a)
  <2>1. frame' = [frame EXCEPT ![b] = NewFrame(m, Null)]
    BY <1>2 DEF AddNewThread
  <2>2. /\ frame'[b].lv0 = Null
        /\ \A c \in Addr : c # b => frame'[c] = frame[c]
    BY <2>1 DEF NewFrame, Base, TypeOK
  <2> QED
    BY <2>2 DEF InMethod, WasInside, Live, IsSync, Entering
<1>3. CASE ExecThreads \/ PopThread \/ PopNothing \/ SliceExpires \/ Yield \/ Drop \/ Abort
  BY <1>1, <1>3
  DEF ExecThreads, PopThread, PopNothing, SliceExpires, Yield, Drop, Abort, vars
<1>4. CASE Acquire
  <2>1. /\ HasFrame /\ CanLock(TopFrame.waitingObj)
        /\ frame' = [frame EXCEPT ![TopAddr] = AcquiredFrame]
        /\ AcquiredFrame.method = TopFrame.method
        /\ AcquiredFrame.lv0 = TopFrame.lv0
    BY <1>4, AcquireFacts
  <2>2. /\ TopAddr \in Addr /\ Live(TopAddr)
        /\ frame'[TopAddr] = AcquiredFrame
        /\ \A b \in Addr : b # TopAddr /\ InMethod(b)' => WasInside(b)
    BY <2>1, TopStepInside, TopFacts DEF Base
  <2>3. CASE a = TopAddr /\ Entering(a)
    BY <2>1, <2>2, <2>3 DEF Entering, TopFrame, CanLock
  <2>4. CASE a = TopAddr /\ ~Entering(a)
    BY <2>1, <2>2, <2>4 DEF InMethod, WasInside, IsSync, TopFrame
  <2> QED
    BY <2>2, <2>3, <2>4
<1>5. CASE Rewait
  <2>1. /\ HasFrame /\ TopFrame.waitingObj \in Objects
        /\ frame' = [frame EXCEPT ![TopAddr] = BlockedFrame(TopFrame.waitingObj)]
    BY <1>5, RewaitFacts
  <2>2. /\ TopAddr \in Addr /\ Live(TopAddr)
        /\ frame'[TopAddr] = BlockedFrame(TopFrame.waitingObj)
        /\ BlockedFrame(TopFrame.waitingObj).method = TopFrame.method
        /\ BlockedFrame(TopFrame.waitingObj).pc = TopFrame.pc
        /\ BlockedFrame(TopFrame.waitingObj).lv0 = TopFrame.lv0
        /\ BlockedFrame(TopFrame.waitingObj).waitingObj = TopFrame.waitingObj
        /\ \A b \in Addr : b # TopAddr /\ InMethod(b)' => WasInside(b)
    BY <2>1, TopStepInside, TopFacts, BlockedFrameFacts DEF Base
  <2> QED
    BY <2>2 DEF InMethod, WasInside, IsSync, Entering, TopFrame
<1>6. CASE NextInstruction \/ Branch
  BY <1>6, GotoFacts, AtPcFacts, LocalStepInside
<1>7. CASE AthrowCaught
  BY <1>7, AthrowCaughtFacts, LocalStepInside
<1>8. CASE Store0
  <2>1. PICK o \in Objects \cup {Null}, pc \in Nat :
          /\ frame' = [frame EXCEPT ![TopAddr] = StoredFrame(o, pc)]
          /\ StoredFrame(o, pc).method = TopFrame.method
    BY <1>8, Store0Facts
  <2>2. /\ HasFrame
        /\ TopFrame.method \in Methods
        /\ Code[TopFrame.method][TopFrame.pc + 1].op = "store0"
        /\ TopFrame.pc + 1 \in DOMAIN Code[TopFrame.method]
    BY <1>8, Store0Facts
  <2>3. TopFrame.method \notin SyncMethods
    BY <2>2 DEF Structured
  <2>4. a # TopAddr
    BY <2>1, <2>2, <2>3, TopStepInside DEF InMethod, IsSync
  <2> QED
    BY <2>1, <2>2, <2>4, TopStepInside
<1>9. CASE MonitorEnter
  BY <1>9, MonitorEnterFacts, BlockedFrameFacts, LocalStepInside
<1>10. ASSUME NEW b \in Addr, Invoke(b)
       PROVE  WasInside(a) \/ monitor[frame'[a].lv0] = 0
  <2>1. /\ HasFrame /\ TopFrame.waitingObj = Null
        /\ b # TopAddr
        /\ TopFrame.pc + 1 \in Nat
        /\ frame'[TopAddr] = AtPc(TopFrame.pc + 1)
        /\ \A c \in Addr \ {b, TopAddr} : frame'[c] = frame[c]
        /\ frame'[b].pc = 0
    BY <1>10, InvokeFacts
  <2>2. CASE a = TopAddr
    <3>1. IsSync(TopAddr) /\ TopFrame.lv0 # Null /\ frame'[TopAddr].lv0 = TopFrame.lv0
      BY <2>1, <2>2, AtPcFacts DEF InMethod, IsSync, TopFrame
    <3> QED
      BY <2>1, <2>2, <3>1, TopWasInside
  <2>3. CASE a \notin {b, TopAddr}
    BY <2>1, <2>3 DEF InMethod, WasInside, Live, IsSync, Entering
  <2>4. CASE a = b
    <3>1. ASSUME frame'[b].method \in SyncMethods
          PROVE  \E o \in Objects :
                   /\ frame'[b].lv0 = o
                   /\ CanLock(o) \/ frame'[b].waitingObj = o
      BY <1>10, <3>1, InvokeFacts
    <3> QED
      BY <2>1, <2>4, <3>1 DEF InMethod, IsSync, Entering, CanLock
  <2> QED
    BY <2>2, <2>3, <2>4
<1>11. CASE Return \/ AthrowUncaught
  BY <1>11, MethodDoneFacts DEF InMethod, WasInside, IsSync, Entering
<1> QED
  BY <1>2, <1>3, <1>4, <1>5, <1>6, <1>7, <1>8, <1>9, <1>10, <1>11, NoMonitorExit
  DEF Next, CheckFrame, Execute

\* Only the end of the method that has locked it takes a count away.
LEMMA OwnerReleases ==
  ASSUME Structured, Base, Next, NEW o \in Objects, monitor[o] > 0, ~(monitor'[o] > 0)
  PROVE  HasFrame /\ TopAddr \in Addr /\ Inside(TopAddr, o)
<1>1. monitor \in [Objects -> MinMonitor..MaxMonitor]
  BY DEF Base, TypeOK
<1>2. \A p \in Objects : ~(CanLock(p) /\ Lock(p))
  BY <1>1 DEF CanLock, Lock
<1>3. monitor' # monitor
  OBVIOUS
<1>4. \/ Return \/ AthrowUncaught \/ MonitorExit \/ Acquire \/ MonitorEnter
      \/ \E b \in Addr : Invoke(b)
  BY <1>3 DEF Next, CheckFrame, Execute, AddNewThread, ExecThreads, PopThread, PopNothing,
     SliceExpires, Yield, Rewait, NextInstruction, Branch, Goto, Store0, AthrowCaught,
     Drop, Abort, vars
<1>5. ~Acquire
  BY <1>2, AcquireFacts
<1>6. ~MonitorEnter
  BY <1>2, <1>3, MonitorEnterFacts
<1>7. \A b \in Addr : ~Invoke(b)
  BY <1>2, <1>3, InvokeFacts
<1>8. CASE Return \/ AthrowUncaught
  <2>1. /\ HasFrame /\ TopFrame.waitingObj = Null
        /\ IsSync(TopAddr) /\ TopFrame.lv0 \in Objects
        /\ monitor' = [monitor EXCEPT ![TopFrame.lv0] = Decremented(@)]
    BY <1>3, <1>8, MethodDoneFacts
  <2>2. TopFrame.lv0 = o
    BY <1>1, <2>1
  <2>3. TopAddr \in Addr /\ Live(TopAddr)
    BY <2>1, TopFacts DEF Base
  <2> QED
    BY <2>1, <2>2, <2>3, NamesAssumption DEF Inside, InMethod, Entering, TopFrame
<1> QED
  BY <1>4, <1>5, <1>6, <1>7, <1>8, NoMonitorExit

\* A frame that was live keeps its place.
LEMMA SamePlace ==
  ASSUME Base, Next, NEW t \in Threads, NEW i \in DOMAIN stack'[t],
         NEW a \in Addr, a = stack'[t][i], Live(a)
  PROVE  i \in DOMAIN stack[t] /\ stack[t][i] = a
<1>1. \A u \in Threads : stack[u] \in Seq(Addr)
  BY DEF Base, TypeOK
<1>2. CASE KeepsFrames
  BY <1>2 DEF KeepsFrames
<1>3. ASSUME NEW u \in Threads, NEW b \in Addr, PushesFrame(u, b)
      PROVE  i \in DOMAIN stack[t] /\ stack[t][i] = a
  <2>1. stack'[t] = IF t = u THEN Append(stack[u], b) ELSE stack[t]
    BY <1>3 DEF PushesFrame, Base, TypeOK
  <2>2. a # b
    BY <1>3 DEF PushesFrame
  <2> QED
    BY <1>1, <2>1, <2>2
<1>4. CASE PopsFrame
  <2>1. Len(stack[current]) \in Nat \ {0}
    BY <1>4, TopFacts DEF PopsFrame, Base
  <2>2. stack'[t] = IF t = current THEN SubSeq(stack[t], 1, Len(stack[t]) - 1) ELSE stack[t]
    BY <1>4 DEF PopsFrame, PopFrame, Front, Base, TypeOK
  <2> QED
    BY <1>1, <2>1, <2>2
<1> QED
  BY <1>2, <1>3, <1>4, FrameStep

\* A thread that can run after a step of the VM could run before, or is new.
LEMMA StaysRunnable ==
  ASSUME Base, Next, UNCHANGED <<calling, caller>>,
         NEW t \in Threads, Runnable(t)', stack[t] # <<>>
  PROVE  Runnable(t)
<1>1. threads \in Seq(Threads)
  BY DEF Base, TypeOK
<1>2. ASSUME NEW u \in Threads, NEW a \in Addr, NEW m \in EntryMethods,
             AddNewThread(u, a, m)
      PROVE  Runnable(t)
  <2>1. /\ threads' = Append(threads, u) /\ current' = current
        /\ vm = "setup" /\ u \notin ToSet(threads)
    BY <1>2 DEF AddNewThread
  <2>2. t # u
    BY <2>1 DEF Base, SetupOK
  <2>3. t \in ToSet(threads') => t \in ToSet(threads)
    BY <1>1, <2>1, <2>2 DEF ToSet
  <2> QED
    BY <2>1, <2>3 DEF Runnable
<1>3. CASE ExecThreads \/ PopNothing
  BY <1>3 DEF ExecThreads, PopNothing, vars, Runnable
<1>4. CASE PopThread
  <2>1. /\ threads # <<>> /\ current' = Last(threads) /\ threads' = Front(threads)
    BY <1>4 DEF PopThread
  <2>2. /\ Last(threads) = threads[Len(threads)]
        /\ Len(threads) \in DOMAIN threads
        /\ Front(threads) = SubSeq(threads, 1, Len(threads) - 1)
    BY <1>1, <2>1 DEF Last, Front
  <2>3. \A i \in DOMAIN Front(threads) : i \in DOMAIN threads /\ Front(threads)[i] = threads[i]
    BY <1>1, <2>2
  <2> QED
    BY <2>1, <2>2, <2>3 DEF Runnable, ToSet
<1>5. CASE SliceExpires \/ CheckFrame \/ Execute
  <2>1. vm # "setup"
    BY <1>5, NamesAssumption
    DEF SliceExpires, CheckFrame, Yield, Acquire, Rewait, Execute,
       NextInstruction, Branch, Store0, Invoke, Return, AthrowUncaught, AthrowCaught,
       Drop, MonitorEnter, MonitorExit, Abort, Fatal, At, CanExecute, HasFrame, InSlice
  <2>2. /\ current \in Threads
        /\ \/ UNCHANGED <<threads, current>>
           \/ current' = NoThread /\ threads' \in {threads, <<current>> \o threads}
    BY <1>5, <2>1, RunnerStep
  <2>3. t \in ToSet(<<current>> \o threads) => t = current \/ t \in ToSet(threads)
    BY <1>1, <2>2 DEF ToSet
  <2> QED
    BY <2>2, <2>3, NamesAssumption DEF Runnable
<1> QED
  BY <1>2, <1>3, <1>4, <1>5 DEF Next

\* A turn, or a step of the scheduler.
LEMMA OwnerlessTurn ==
  ASSUME Structured, CallBase, Scheduler \/ CallStep, NEW o \in Objects, Ownerless(o),
         ~(calling /\ before.method \in SyncMethods)
  PROVE  Ownerless(o)'
<1>1. Next /\ Base /\ UNCHANGED <<calling, caller, before>>
  BY SchedulerIsNext, CallStepIsNext DEF CallBase, callVars
<1>2. monitor[o] > 0
  BY DEF Ownerless
<1>3. monitor'[o] > 0
  <2> SUFFICES ASSUME ~(monitor'[o] > 0) PROVE FALSE
    OBVIOUS
  <2>1. HasFrame /\ TopAddr \in Addr /\ Inside(TopAddr, o)
    BY <1>1, <1>2, OwnerReleases
  <2>2. /\ current \in Threads /\ Runnable(current)
        /\ Len(stack[current]) \in DOMAIN stack[current]
        /\ TopAddr = stack[current][Len(stack[current])]
    BY <1>1, <2>1, TopFacts DEF Base, TypeOK, Runnable
  <2>3. ~Locked(current, Len(stack[current]), o)
    BY <2>2 DEF Ownerless
  <2>4. current = CallStack /\ Len(stack[current]) = 1
    BY <2>1, <2>2, <2>3 DEF Locked, Inside
  <2>5. calling /\ stack[CallStack] # <<>>
    BY <2>2, <2>4 DEF CallBase, CallShape, AtRest
  <2>6. frame[TopAddr].method = before.method
    BY <2>2, <2>4, <2>5 DEF CallBase, CalledFirst
  <2> QED
    BY <2>1, <2>5, <2>6 DEF Inside, InMethod, IsSync
<1>4. ASSUME NEW t \in Threads, Runnable(t)', NEW i \in DOMAIN stack'[t],
             Locked(t, i, o)'
      PROVE  FALSE
  <2>1. PICK a : a = stack'[t][i]
    OBVIOUS
  <2>2. Base'
    BY <1>1, BaseStep
  <2>3. a \in Addr
    BY <2>1, <2>2 DEF Base, TypeOK
  <2>4. InMethod(a)' /\ frame'[a].lv0 = o /\ <<t, i>> # <<CallStack, 1>>
    BY <1>4, <2>1 DEF Locked, InMethod, Live, IsSync, Entering
  <2>5. WasInside(a)
    BY <1>1, <1>2, <2>3, <2>4, EntersOnlyFree
  <2>6. Live(a) /\ InMethod(a) /\ frame[a].lv0 = o
    BY <2>4, <2>5 DEF WasInside, InMethod
  <2>7. i \in DOMAIN stack[t] /\ stack[t][i] = a
    BY <1>1, <2>1, <2>3, <2>6, SamePlace
  <2>8. Locked(t, i, o)
    BY <2>4, <2>6, <2>7 DEF Locked
  <2>9. Runnable(t)
    <3>1. stack[t] # <<>>
      BY <2>7
    <3> QED
      BY <1>1, <1>4, <3>1, StaysRunnable
  <2> QED
    BY <2>7, <2>8, <2>9 DEF Ownerless
<1> QED
  BY <1>3, <1>4 DEF Ownerless

LEMMA OwnerlessInvoke ==
  ASSUME CallBase, NEW p \in Objects, NEW m \in Methods, NEW a \in Addr,
         InvokeMethod(p, m, a), NEW o \in Objects, Ownerless(o)
  PROVE  Ownerless(o)'
<1>1. /\ ~Live(a)
      /\ \A b \in Addr \ {a} : frame'[b] = frame[b]
      /\ stack'[CallStack] = <<a>>
      /\ \A t \in Threads \ {CallStack} : stack'[t] = stack[t]
      /\ UNCHANGED <<threads, monitor>>
      /\ Base
  BY InvokeMethodFacts
<1>2. current' = CallStack /\ caller' = current
  BY DEF InvokeMethod
<1>3. ASSUME NEW t \in Threads, Runnable(t)', NEW i \in DOMAIN stack'[t],
             Locked(t, i, o)'
      PROVE  FALSE
  <2>1. t # CallStack
    BY <1>1, <1>3 DEF Locked
  <2>2. stack'[t] = stack[t] /\ i \in DOMAIN stack[t]
    BY <1>1, <1>3, <2>1
  <2>3. PICK b \in Addr : b = stack[t][i] /\ Live(b)
    BY <1>1, <2>2 DEF Base, TypeOK, FramesOnOneStack
  <2>4. frame'[b] = frame[b]
    BY <1>1, <2>3
  <2>5. Locked(t, i, o)
    BY <1>3, <2>2, <2>3, <2>4 DEF Locked, InMethod, Live, IsSync, Entering
  <2>6. Runnable(t)
    BY <1>1, <1>2, <1>3, <2>1 DEF Runnable
  <2> QED
    BY <2>2, <2>5, <2>6 DEF Ownerless
<1> QED
  BY <1>1, <1>3 DEF Ownerless

LEMMA OwnerlessEnd ==
  ASSUME CallBase, EndCall, NEW o \in Objects, Ownerless(o)
  PROVE  Ownerless(o)'
<1>1. /\ Base /\ Suspended /\ calling /\ ~calling'
      /\ \A b \in Addr : Live(b)' => Live(b)
      /\ \A b \in Addr : Live(b)' =>
           /\ frame'[b].method = frame[b].method
           /\ frame'[b].lv0 = frame[b].lv0
           /\ frame'[b].waitingObj = frame[b].waitingObj
           /\ frame'[b].pc = IF GoesOn(b) THEN frame[b].pc + 1 ELSE frame[b].pc
      /\ stack'[CallStack] = <<>>
      /\ \A t \in Threads \ {CallStack} : stack'[t] = stack[t]
  BY EndCallFacts
<1>2. UNCHANGED monitor /\ current' = caller /\ threads' = Queue
  BY DEF EndCall
<1>3. ToSet(Queue) \subseteq ToSet(threads)
  BY <1>1 DEF Queue, ToSet, Base, TypeOK
<1>4. ASSUME NEW t \in Threads, Runnable(t)', NEW i \in DOMAIN stack'[t],
             Locked(t, i, o)'
      PROVE  FALSE
  <2>1. t # CallStack /\ stack'[t] = stack[t] /\ i \in DOMAIN stack[t]
    BY <1>1, <1>4
  <2>2. PICK b \in Addr : b = stack[t][i]
    BY <1>1, <2>1 DEF Base, TypeOK
  <2>3. /\ Live(b)' /\ frame'[b].method \in SyncMethods /\ frame'[b].lv0 # Null
        /\ frame'[b].lv0 = o
        /\ ~(frame'[b].pc = 0 /\ frame'[b].waitingObj = frame'[b].lv0)
    BY <1>4, <2>1, <2>2 DEF Locked, InMethod, Live, IsSync, Entering
  <2>4. /\ Live(b) /\ frame[b].method \in SyncMethods /\ frame[b].lv0 = o
        /\ frame[b].lv0 # Null
    BY <1>1, <2>3
  <2>5. ~Entering(b)
    <3>1. CASE GoesOn(b)
      BY <1>1, <2>4, <3>1 DEF GoesOn, Suspended, CallerWaits, Entering
    <3>2. CASE ~GoesOn(b)
      BY <1>1, <2>3, <3>2 DEF Entering
    <3> QED
      BY <3>1, <3>2
  <2>6. Locked(t, i, o)
    BY <2>1, <2>2, <2>4, <2>5 DEF Locked, InMethod, IsSync
  <2>7. Runnable(t)
    BY <1>1, <1>2, <1>3, <1>4 DEF Runnable
  <2> QED
    BY <2>1, <2>6, <2>7 DEF Ownerless
<1> QED
  BY <1>2, <1>4 DEF Ownerless

\* In a program without monitorexit, an object whose lock a call cut off, or a
\* dropped thread, has left behind stays locked by nobody, whatever is called and
\* however many threads there are.
THEOREM OwnerlessStays ==
  ASSUME Structured
  PROVE  CallSpec => OwnerlessForEver
<1> DEFINE Stays(o) ==
      Ownerless(o) /\ ~Ownerless(o)' => calling /\ before.method \in SyncMethods
<1>1. ASSUME CallBase, [CallNext]_allVars, NEW o \in Objects
      PROVE  Stays(o)
  <2> SUFFICES ASSUME Ownerless(o), ~(calling /\ before.method \in SyncMethods)
               PROVE  Ownerless(o)'
    OBVIOUS
  <2>1. CASE UNCHANGED allVars
    BY <2>1 DEF allVars, vars, callVars, Ownerless, Runnable, Locked, InMethod, Live,
       IsSync, Entering
  <2> QED
    BY <1>1, <2>1, OwnerlessTurn, OwnerlessInvoke, OwnerlessEnd DEF CallNext
<1>2. CallBase /\ [CallNext]_allVars =>
        [\A o \in Objects : Ownerless(o) /\ ~Ownerless(o)' =>
           calling /\ before.method \in SyncMethods]_allVars
  BY <1>1
<1> QED
  BY CallBaseInvariant, <1>2, PTL DEF CallSpec, OwnerlessForEver

-----------------------------------------------------------------------------
(* What a finished call leaves behind *)

\* The frames of the call, and those of the methods that the method called calls.
OnCall(a) == \E i \in DOMAIN stack[CallStack] : stack[CallStack][i] = a
Callee(a) == \E i \in DOMAIN stack[CallStack] : i > 1 /\ stack[CallStack][i] = a
CalleeIn(a, o) == Callee(a) /\ Inside(a, o)

FramesOfCall ==
  \A a \in Addr : IF a \in before.live THEN Live(a) /\ ~OnCall(a)
                  ELSE Live(a) <=> OnCall(a)

\* An object that the call has not locked, and one that it holds.
AsBefore(o) ==
  /\ monitor[o] = before.monitor[o]
  /\ \A a \in Addr : ~CalleeIn(a, o)

TakenByCallee(o) ==
  /\ before.monitor[o] = 0 /\ monitor[o] = 1
  /\ \E a \in Addr : \A b \in Addr : CalleeIn(b, o) <=> b = a

\* The method called itself has entered without the lock, and waits for nothing.
LocksOfCall ==
  IF stack[CallStack] = <<>> THEN monitor \in ReleasedByCall
  ELSE /\ frame[stack[CallStack][1]].waitingObj = Null
       /\ \A o \in Objects : AsBefore(o) \/ TakenByCallee(o)

CallAccounts ==
  calling =>
    /\ before.monitor \in [Objects -> MinMonitor..MaxMonitor] /\ before.live \subseteq Addr
    /\ FramesOfCall
    /\ LocksOfCall

CallInv == Orderly /\ CallBase /\ CallAccounts

LEMMA SameStackKeeps ==
  ASSUME Base, Next, UNCHANGED stack
  PROVE  KeepsFrames
<1>1. \A t \in Threads : stack[t] \in Seq(Addr)
  BY DEF Base, TypeOK
<1>2. ASSUME NEW t \in Threads, NEW b \in Addr, PushesFrame(t, b)
      PROVE  FALSE
  <2>1. stack[t] = Append(stack[t], b)
    BY <1>2 DEF PushesFrame, Base, TypeOK
  <2>2. Len(Append(stack[t], b)) = Len(stack[t]) + 1 /\ Len(stack[t]) \in Nat
    BY <1>1
  <2> QED
    BY <2>1, <2>2
<1>3. ASSUME PopsFrame
      PROVE  FALSE
  <2>1. current \in Threads /\ Len(stack[current]) \in Nat \ {0}
    BY <1>3, TopFacts DEF PopsFrame, Base
  <2>2. stack[current] = Front(stack[current])
    BY <1>3, <2>1 DEF PopsFrame, PopFrame, Base, TypeOK
  <2>3. Len(Front(stack[current])) = Len(stack[current]) - 1
    BY <1>1, <2>1 DEF Front
  <2> QED
    BY <2>1, <2>2, <2>3
<1> QED
  BY <1>2, <1>3, FrameStep

\* What a turn does to the frames and to the monitors at once.
LEMMA TurnEffect ==
  ASSUME EntryOnly, Orderly, vm # "setup", Next
  PROVE  \/ KeepsFrames /\ Quiet
         \/ /\ KeepsFrames /\ HasFrame
            /\ \E c \in Addr, o \in Objects :
                 /\ c = TopAddr /\ frame[c].waitingObj # Null
                 /\ Enters(c, o) \/ Sleeps(c, o)
         \/ \E b \in Addr :
              /\ PushesFrame(current, b) /\ HasFrame
              /\ Quiet \/ \E o \in Objects : Enters(b, o) \/ Sleeps(b, o)
         \/ /\ PopsFrame
            /\ \E c \in Addr :
                 /\ c = TopAddr
                 /\ \/ Quiet /\ ~IsSync(c)
                    \/ IsSync(c) /\ \E o \in Objects : Leaves(c, o)
<1>1. Structured /\ Base
  BY DEF EntryOnly, Orderly
<1>2. CASE ExecThreads \/ PopThread \/ PopNothing \/ SliceExpires \/ Yield \/ Drop \/ Abort
  <2>1. UNCHANGED <<frame, monitor, stack>>
    BY <1>2
    DEF ExecThreads, PopThread, PopNothing, SliceExpires, Yield, Drop, Abort, vars
  <2> QED
    BY <1>1, <2>1, FramesUnchangedQuiet, SameStackKeeps
<1>3. CASE Acquire \/ Rewait
  <2>1. HasFrame /\ TopFrame.waitingObj # Null /\ UNCHANGED stack
    BY <1>3 DEF Acquire, Rewait
  <2>2. PICK c \in Addr, o \in Objects : c = TopAddr /\ (Enters(c, o) \/ Sleeps(c, o))
    BY <1>3, AcquireEffect, RewaitEffect
  <2>3. frame[c].waitingObj # Null
    BY <2>1, <2>2 DEF TopFrame
  <2>4. KeepsFrames
    BY <1>1, <2>1, SameStackKeeps
  <2> QED
    BY <2>1, <2>2, <2>3, <2>4
<1>4. CASE NextInstruction \/ Branch \/ Store0 \/ AthrowCaught
  <2>1. UNCHANGED stack
    BY <1>4 DEF NextInstruction, Branch, Goto, Store0, AthrowCaught
  <2> QED
    BY <1>1, <1>4, <2>1, LocalEffect, SameStackKeeps
<1>5. ASSUME NEW b \in Addr, Invoke(b)
      PROVE  /\ PushesFrame(current, b) /\ HasFrame
             /\ Quiet \/ \E o \in Objects : Enters(b, o) \/ Sleeps(b, o)
  <2>1. /\ HasFrame /\ ~Live(b) /\ b # TopAddr
        /\ stack' = [stack EXCEPT ![current] = Append(@, b)]
        /\ TopFrame.pc + 1 \in Nat
        /\ frame'[TopAddr] = AtPc(TopFrame.pc + 1)
        /\ \A a \in Addr \ {b, TopAddr} : frame'[a] = frame[a]
        /\ frame'[b] \in Frame
    BY <1>1, <1>5, InvokeFacts
  <2>2. Live(TopAddr) /\ AtPc(TopFrame.pc + 1) \in Frame
    BY <1>1, <2>1, TopFacts, AtPcFacts DEF Base
  <2>3. \A a \in Addr : Live(a)' <=> a = b \/ Live(a)
    BY <2>1, <2>2, FreedAssumption DEF Live
  <2> QED
    BY <1>5, <2>1, <2>3, InvokeEffect DEF PushesFrame
<1>6. CASE Return \/ AthrowUncaught
  <2>1. PopsFrame
    BY <1>1, <1>6, MethodDoneFacts DEF PopsFrame
  <2>2. PICK c \in Addr : c = TopAddr /\ Live(c) /\ ~Live(c)'
    BY <1>1, <1>6, MethodDoneFacts, TopFacts DEF Base
  <2>3. CASE ~IsSync(c)
    <3>1. ASSUME NEW d \in Addr, NEW o \in Objects, d = TopAddr, Leaves(d, o)
          PROVE  FALSE
      BY <2>2, <2>3, <3>1 DEF Leaves, Inside, InMethod
    <3> QED
      BY <1>6, <2>1, <2>2, <2>3, <3>1, MethodDoneEffect
  <2>4. CASE IsSync(c)
    <3>1. ~Quiet
      <4>1. monitor' # monitor
        BY <1>1, <1>6, <2>2, <2>4, MethodDoneFacts, DecrementTyping DEF Base
      <4> QED
        BY <4>1 DEF Quiet
    <3> QED
      BY <1>6, <2>1, <2>2, <2>4, <3>1, MethodDoneEffect
  <2> QED
    BY <2>1, <2>3, <2>4
<1>7. ~MonitorEnter /\ ~MonitorExit
  BY <1>1, NoMonitorEnter, NoMonitorExit
<1>8. \A t \in Threads, b \in Addr, m \in EntryMethods : ~AddNewThread(t, b, m)
  BY DEF AddNewThread
<1> QED
  BY <1>2, <1>3, <1>4, <1>5, <1>6, <1>7, <1>8 DEF Next, CheckFrame, Execute

\* The stack of the call after a push and after a pop.
LEMMA PushedOnCall ==
  ASSUME Base, CallStack \in Threads, NEW b \in Addr,
         stack'[CallStack] = Append(stack[CallStack], b)
  PROVE  /\ \A a \in Addr : OnCall(a)' <=> OnCall(a) \/ a = b
         /\ stack[CallStack] # <<>> =>
              \A a \in Addr : Callee(a)' <=> Callee(a) \/ a = b
<1> DEFINE s == stack[CallStack]
<1>1. s \in Seq(Addr)
  BY DEF Base, TypeOK
<1>2. /\ DOMAIN Append(s, b) = DOMAIN s \cup {Len(s) + 1}
      /\ \A i \in DOMAIN s : Append(s, b)[i] = s[i] /\ i # Len(s) + 1
      /\ Append(s, b)[Len(s) + 1] = b
      /\ s # <<>> => Len(s) + 1 > 1
  BY <1>1
<1> QED
  BY <1>2 DEF OnCall, Callee

LEMMA PoppedFromCall ==
  ASSUME Base, CallStack \in Threads, Len(stack[CallStack]) \in Nat \ {0},
         NEW c, c = stack[CallStack][Len(stack[CallStack])],
         stack'[CallStack] = SubSeq(stack[CallStack], 1, Len(stack[CallStack]) - 1)
  PROVE  /\ OnCall(c)
         /\ Len(stack[CallStack]) > 1 => Callee(c)
         /\ \A a \in Addr : OnCall(a)' <=> OnCall(a) /\ a # c
         /\ \A a \in Addr : Callee(a)' <=> Callee(a) /\ a # c
<1> DEFINE s == stack[CallStack]
           n == Len(s)
<1>1. s \in Seq(Addr) /\ n \in DOMAIN s
  BY DEF Base, TypeOK
<1>2. /\ DOMAIN SubSeq(s, 1, n - 1) = DOMAIN s \ {n}
      /\ \A i \in DOMAIN s \ {n} : SubSeq(s, 1, n - 1)[i] = s[i]
  BY <1>1
<1>3. \A i \in DOMAIN s : s[i] = c => i = n
  BY <1>1 DEF Base, FramesOnOneStack
<1> QED
  BY <1>1, <1>2, <1>3 DEF OnCall, Callee

LEMMA FramesOfCallStep ==
  ASSUME CallInv, CallStep
  PROVE  FramesOfCall'
<1>1. /\ Next /\ Base /\ calling /\ current = CallStack /\ CallStack \in Threads
      /\ UNCHANGED before /\ vm # "setup" /\ FramesOfCall
  BY CallStepIsNext, CallAssumption
  DEF CallInv, CallAccounts, CallBase, CallShape, Suspended
<1>2. CASE stack'[current] = stack[current] /\ KeepsFrames
  BY <1>1, <1>2 DEF KeepsFrames, FramesOfCall, OnCall
<1>3. ASSUME NEW b \in Addr, PushesFrame(current, b),
             stack'[current] = Append(stack[current], b)
      PROVE  FramesOfCall'
  <2>1. \A a \in Addr : OnCall(a)' <=> OnCall(a) \/ a = b
    BY <1>1, <1>3, PushedOnCall
  <2>2. ~Live(b) /\ \A a \in Addr : Live(a)' <=> a = b \/ Live(a)
    BY <1>3 DEF PushesFrame
  <2> QED
    BY <1>1, <2>1, <2>2 DEF FramesOfCall
<1>4. CASE /\ PopsFrame
           /\ Len(stack[current]) \in Nat \ {0}
           /\ stack'[current] = SubSeq(stack[current], 1, Len(stack[current]) - 1)
  <2>1. PICK c \in Addr : c = TopAddr /\ c = stack[CallStack][Len(stack[CallStack])]
    BY <1>1, <1>4, TopFacts DEF Base, PopsFrame
  <2>2. OnCall(c) /\ \A a \in Addr : OnCall(a)' <=> OnCall(a) /\ a # c
    BY <1>1, <1>4, <2>1, PoppedFromCall
  <2>3. \A a \in Addr : Live(a)' <=> Live(a) /\ a # c
    BY <1>4, <2>1 DEF PopsFrame
  <2> QED
    BY <1>1, <2>1, <2>2, <2>3 DEF FramesOfCall
<1> QED
  BY <1>1, <1>2, <1>3, <1>4, RunnerStack

\* An object that the step does not move keeps its account.
LEMMA SameAccount ==
  ASSUME NEW o \in Objects, AsBefore(o) \/ TakenByCallee(o),
         UNCHANGED before, monitor'[o] = monitor[o],
         \A a \in Addr : CalleeIn(a, o)' <=> CalleeIn(a, o)
  PROVE  (AsBefore(o) \/ TakenByCallee(o))'
BY DEF AsBefore, TakenByCallee

\* Nobody enters or leaves, and whoever joins the callees is inside nothing.
LEMMA QuietAccounts ==
  ASSUME UNCHANGED <<before, monitor>>,
         \A o \in Objects : AsBefore(o) \/ TakenByCallee(o),
         \A a \in Addr, o \in Objects : CalleeIn(a, o)' <=> CalleeIn(a, o)
  PROVE  \A o \in Objects : (AsBefore(o) \/ TakenByCallee(o))'
BY SameAccount

LEMMA EntersAccounts ==
  ASSUME monitor \in [Objects -> MinMonitor..MaxMonitor], UNCHANGED before,
         \A o \in Objects : AsBefore(o) \/ TakenByCallee(o),
         NEW c \in Addr, NEW p \in Objects, Enters(c, p), Callee(c)',
         \A a \in Addr \ {c} : Callee(a)' <=> Callee(a)
  PROVE  \A o \in Objects : (AsBefore(o) \/ TakenByCallee(o))'
<1>1. /\ monitor[p] = 0 /\ monitor' = [monitor EXCEPT ![p] = @ + 1]
      /\ \A o \in Objects : ~Inside(c, o)
      /\ \A o \in Objects : Inside(c, o)' <=> o = p
      /\ \A a \in Addr \ {c}, o \in Objects : Inside(a, o)' <=> Inside(a, o)
  BY DEF Enters, Tries, CanLock, Lock, Untouched
<1>2. ASSUME NEW o \in Objects, o # p
      PROVE  (AsBefore(o) \/ TakenByCallee(o))'
  <2>1. monitor'[o] = monitor[o]
    BY <1>1, <1>2
  <2>2. \A a \in Addr : CalleeIn(a, o)' <=> CalleeIn(a, o)
    BY <1>1, <1>2 DEF CalleeIn
  <2> QED
    BY <2>1, <2>2, SameAccount
<1>3. TakenByCallee(p)'
  <2>1. before.monitor[p] = 0 /\ \A a \in Addr : ~CalleeIn(a, p)
    BY <1>1 DEF AsBefore, TakenByCallee
  <2>2. monitor'[p] = 1
    BY <1>1
  <2>3. \A b \in Addr : CalleeIn(b, p)' <=> b = c
    BY <1>1, <2>1 DEF CalleeIn
  <2> QED
    BY <2>1, <2>2, <2>3 DEF TakenByCallee
<1> QED
  BY <1>2, <1>3

LEMMA LeavesAccounts ==
  ASSUME monitor \in [Objects -> MinMonitor..MaxMonitor], UNCHANGED before,
         \A o \in Objects : AsBefore(o) \/ TakenByCallee(o),
         NEW c \in Addr, NEW p \in Objects, Leaves(c, p), Callee(c),
         \A a \in Addr : Callee(a)' <=> Callee(a) /\ a # c
  PROVE  \A o \in Objects : (AsBefore(o) \/ TakenByCallee(o))'
<1>1. /\ Inside(c, p) /\ monitor' = [monitor EXCEPT ![p] = Decremented(@)]
      /\ \A a \in Addr \ {c}, o \in Objects : Inside(a, o)' <=> Inside(a, o)
      /\ \A o \in Objects : ~Inside(c, o)'
  BY DEF Leaves
<1>2. ASSUME NEW o \in Objects, o # p
      PROVE  (AsBefore(o) \/ TakenByCallee(o))'
  <2>1. monitor'[o] = monitor[o]
    BY <1>1, <1>2
  <2>2. ~Inside(c, o)
    BY <1>1, <1>2 DEF Inside
  <2>3. \A a \in Addr : CalleeIn(a, o)' <=> CalleeIn(a, o)
    BY <1>1, <2>2 DEF CalleeIn
  <2> QED
    BY <2>1, <2>3, SameAccount
<1>3. AsBefore(p)'
  <2>1. CalleeIn(c, p)
    BY <1>1 DEF CalleeIn
  <2>2. TakenByCallee(p)
    BY <2>1 DEF AsBefore
  <2>3. before.monitor[p] = 0 /\ monitor[p] = 1 /\ \A b \in Addr : CalleeIn(b, p) => b = c
    BY <2>1, <2>2 DEF TakenByCallee
  <2>4. monitor'[p] = 0
    BY <1>1, <2>3, MonitorAssumption DEF Decremented
  <2>5. \A b \in Addr : ~CalleeIn(b, p)'
    BY <1>1, <2>3 DEF CalleeIn
  <2> QED
    BY <2>3, <2>4, <2>5 DEF AsBefore
<1> QED
  BY <1>2, <1>3

\* Nobody asleep or awake outside changes what its frame wants but the one that acts.
LEMMA BottomStillWants ==
  ASSUME NEW r \in Addr, Live(r), Live(r)', frame[r].waitingObj = Null,
         Wanted(r)' = Wanted(r)
  PROVE  frame'[r].waitingObj = Null
BY DEF Wanted

\* The method called returns.
LEMMA LastFrameLocks ==
  ASSUME CallInv, calling, CallStack \in Threads, UNCHANGED before,
         Len(stack[CallStack]) = 1, stack'[CallStack] = <<>>,
         NEW c \in Addr, c = stack[CallStack][1],
         \/ Quiet /\ ~IsSync(c)
         \/ IsSync(c) /\ \E o \in Objects : Leaves(c, o)
  PROVE  LocksOfCall'
<1>1. /\ monitor \in [Objects -> MinMonitor..MaxMonitor] /\ before.monitor \in [Objects -> MinMonitor..MaxMonitor]
      /\ \A o \in Objects : AsBefore(o) \/ TakenByCallee(o)
      /\ frame[c].method = before.method
  <2>1. stack[CallStack] # <<>>
    OBVIOUS
  <2> QED
    BY <2>1 DEF CallInv, CallAccounts, LocksOfCall, CallBase, CalledFirst, Base, TypeOK
<1>2. \A a \in Addr : ~Callee(a)
  <2>1. \A i \in DOMAIN stack[CallStack] : ~(i > 1)
    BY DEF CallInv, CallBase, Base, TypeOK
  <2> QED
    BY <2>1 DEF Callee
<1>3. \A o \in Objects : monitor[o] = before.monitor[o]
  BY <1>1, <1>2 DEF AsBefore, TakenByCallee, CalleeIn
<1>4. monitor = before.monitor
  BY <1>1, <1>3
<1>5. CASE Quiet /\ ~IsSync(c)
  BY <1>1, <1>4, <1>5 DEF Quiet, IsSync, LocksOfCall, ReleasedByCall
<1>6. ASSUME IsSync(c), NEW o \in Objects, Leaves(c, o)
      PROVE  LocksOfCall'
  BY <1>1, <1>4, <1>6 DEF Leaves, IsSync, LocksOfCall, ReleasedByCall
<1> QED
  BY <1>5, <1>6

LEMMA LocksOfCallStep ==
  ASSUME EntryOnly, CallInv, CallStep
  PROVE  LocksOfCall'
<1> DEFINE s == stack[CallStack]
           n == Len(s)
<1>1. /\ Next /\ Base /\ Orderly /\ calling /\ current = CallStack /\ CallStack \in Threads
      /\ UNCHANGED before /\ vm # "setup" /\ LocksOfCall
      /\ monitor \in [Objects -> MinMonitor..MaxMonitor]
  BY CallStepIsNext, CallAssumption
  DEF CallInv, CallAccounts, CallBase, CallShape, Suspended, Base, TypeOK
<1>2. CASE s = <<>>
  <2>1. ~HasFrame
    BY <1>1, <1>2 DEF HasFrame
  <2>2. KeepsFrames /\ Quiet
    BY <1>1, <2>1, TurnEffect DEF PopsFrame
  <2> QED
    BY <1>1, <1>2, <2>2 DEF LocksOfCall, ReleasedByCall, KeepsFrames, Quiet
<1>3. CASE s # <<>>
  <2>1. s \in Seq(Addr) /\ n \in Nat \ {0}
    BY <1>1, <1>3 DEF Base, TypeOK
  <2>2. PICK r \in Addr : r = s[1] /\ Live(r) /\ frame[r].waitingObj = Null
    BY <1>1, <1>3, <2>1 DEF LocksOfCall, Base, FramesOnOneStack
  <2>3. \A o \in Objects : AsBefore(o) \/ TakenByCallee(o)
    BY <1>1, <1>3 DEF LocksOfCall
  <2>4. ASSUME stack'[CallStack] # <<>>, stack'[CallStack][1] = r, Live(r)',
               Wanted(r)' = Wanted(r),
               \A o \in Objects : (AsBefore(o) \/ TakenByCallee(o))'
        PROVE  LocksOfCall'
    <3>1. frame'[r].waitingObj = Null
      BY <2>2, <2>4, BottomStillWants
    <3> QED
      BY <2>4, <3>1 DEF LocksOfCall
  <2>5. CASE KeepsFrames
    <3>1. stack' = stack /\ Live(r)' /\ \A a \in Addr : Callee(a)' <=> Callee(a)
      BY <2>2, <2>5 DEF KeepsFrames, Callee
    <3>2. CASE Quiet
      <4>1. \A a \in Addr, o \in Objects : CalleeIn(a, o)' <=> CalleeIn(a, o)
        BY <3>1, <3>2 DEF Quiet, Untouched, CalleeIn
      <4>2. UNCHANGED <<before, monitor>> /\ Wanted(r)' = Wanted(r)
        BY <1>1, <3>2 DEF Quiet, Untouched
      <4> QED
        BY <1>3, <2>2, <2>3, <2>4, <3>1, <4>1, <4>2, QuietAccounts
    <3>3. ASSUME HasFrame, NEW c \in Addr, NEW o \in Objects,
                 c = TopAddr, frame[c].waitingObj # Null,
                 Enters(c, o) \/ Sleeps(c, o)
          PROVE  LocksOfCall'
      <4>1. c = s[n] /\ c # r
        BY <1>1, <2>2, <3>3, TopFacts DEF Base
      <4>2. Callee(c)
        <5>1. n > 1 /\ n \in DOMAIN s
          BY <2>1, <2>2, <4>1
        <5> QED
          BY <4>1, <5>1 DEF Callee
      <4>3. Wanted(r)' = Wanted(r)
        BY <3>3, <4>1 DEF Enters, Sleeps, Untouched
      <4>4. CASE Enters(c, o)
        <5>1. \A p \in Objects : (AsBefore(p) \/ TakenByCallee(p))'
          BY <1>1, <2>3, <3>1, <4>2, <4>4, EntersAccounts
        <5> QED
          BY <1>3, <2>2, <2>4, <3>1, <4>3, <5>1
      <4>5. CASE Sleeps(c, o)
        <5>1. \A a \in Addr, p \in Objects : CalleeIn(a, p)' <=> CalleeIn(a, p)
          BY <3>1, <4>5 DEF Sleeps, Tries, Untouched, CalleeIn
        <5>2. UNCHANGED <<before, monitor>>
          BY <1>1, <4>5 DEF Sleeps
        <5> QED
          BY <1>3, <2>2, <2>3, <2>4, <3>1, <4>3, <5>1, <5>2, QuietAccounts
      <4> QED
        BY <3>3, <4>4, <4>5
    <3>4. ~PopsFrame /\ \A b \in Addr : ~PushesFrame(current, b)
      <4>1. ASSUME NEW b \in Addr, PushesFrame(current, b) PROVE FALSE
        <5>1. ~Live(b) /\ Live(b)'
          BY <4>1 DEF PushesFrame
        <5> QED
          BY <2>5, <5>1 DEF KeepsFrames
      <4>2. ASSUME PopsFrame PROVE FALSE
        <5>1. PICK c \in Addr : c = TopAddr /\ Live(c) /\ ~Live(c)'
          BY <1>1, <4>2, TopFacts DEF Base, PopsFrame
        <5> QED
          BY <2>5, <5>1 DEF KeepsFrames
      <4> QED
        BY <4>1, <4>2
    <3> QED
      BY <1>1, <3>2, <3>3, <3>4, TurnEffect
  <2>6. ASSUME NEW b \in Addr, PushesFrame(current, b),
               Quiet \/ \E o \in Objects : Enters(b, o) \/ Sleeps(b, o)
        PROVE  LocksOfCall'
    <3>1. /\ ~Live(b)
          /\ stack'[CallStack] = Append(s, b)
          /\ Live(r)' /\ b # r
      BY <1>1, <2>2, <2>6 DEF PushesFrame, Base, TypeOK
    <3>2. stack'[CallStack] # <<>> /\ stack'[CallStack][1] = r
      BY <2>1, <2>2, <3>1
    <3>3. \A a \in Addr : Callee(a)' <=> Callee(a) \/ a = b
      BY <1>1, <1>3, <3>1, PushedOnCall
    <3>4. Wanted(r)' = Wanted(r)
      BY <2>6, <3>1 DEF Quiet, Enters, Sleeps, Untouched
    <3>5. \A o \in Objects : ~Inside(b, o)
      BY <3>1 DEF Inside, InMethod
    <3>6. CASE Quiet
      <4>1. \A a \in Addr, o \in Objects : CalleeIn(a, o)' <=> CalleeIn(a, o)
        BY <3>3, <3>5, <3>6 DEF Quiet, Untouched, CalleeIn
      <4>2. UNCHANGED <<before, monitor>>
        BY <1>1, <3>6 DEF Quiet
      <4> QED
        BY <2>3, <2>4, <3>1, <3>2, <3>4, <4>1, <4>2, QuietAccounts
    <3>7. ASSUME NEW o \in Objects, Enters(b, o)
          PROVE  LocksOfCall'
      <4>1. \A p \in Objects : (AsBefore(p) \/ TakenByCallee(p))'
        BY <1>1, <2>3, <3>3, <3>7, EntersAccounts
      <4> QED
        BY <2>4, <3>1, <3>2, <3>4, <4>1
    <3>8. ASSUME NEW o \in Objects, Sleeps(b, o)
          PROVE  LocksOfCall'
      <4>1. \A a \in Addr, p \in Objects : CalleeIn(a, p)' <=> CalleeIn(a, p)
        BY <3>3, <3>8 DEF Sleeps, Tries, Untouched, CalleeIn
      <4>2. UNCHANGED <<before, monitor>>
        BY <1>1, <3>8 DEF Sleeps
      <4> QED
        BY <2>3, <2>4, <3>1, <3>2, <3>4, <4>1, <4>2, QuietAccounts
    <3> QED
      BY <2>6, <3>6, <3>7, <3>8
  <2>7. ASSUME PopsFrame, NEW c \in Addr, c = TopAddr,
               \/ Quiet /\ ~IsSync(c)
               \/ IsSync(c) /\ \E o \in Objects : Leaves(c, o)
        PROVE  LocksOfCall'
    <3>1. /\ c = s[n] /\ Live(c) /\ ~Live(c)'
          /\ stack'[CallStack] = SubSeq(s, 1, n - 1)
      BY <1>1, <2>7, TopFacts DEF PopsFrame, PopFrame, Front, Base, TypeOK
    <3>2. CASE n = 1
      <4>1. stack'[CallStack] = <<>>
        BY <2>1, <3>1, <3>2
      <4> QED
        BY <1>1, <2>7, <3>1, <3>2, <4>1, LastFrameLocks
    <3>3. CASE n > 1
      <4>1. stack'[CallStack] # <<>> /\ stack'[CallStack][1] = r
        <5>1. n - 1 \in Nat /\ 1 <= n - 1 /\ n - 1 <= Len(s)
          BY <2>1, <3>3
        <5>2. /\ Len(SubSeq(s, 1, n - 1)) = n - 1
              /\ SubSeq(s, 1, n - 1)[1] = s[1]
          BY <2>1, <5>1
        <5>3. SubSeq(s, 1, n - 1) # <<>>
          <6>1. PICK q : q = SubSeq(s, 1, n - 1)
            OBVIOUS
          <6>2. PICK k \in Nat : k = n - 1 /\ 1 <= k
            BY <5>1
          <6>3. Len(q) = k
            BY <5>2, <6>1, <6>2
          <6>4. q # <<>>
            BY <6>2, <6>3
          <6> QED
            BY <6>1, <6>4
        <5> HIDE DEF s, n
        <5> QED
          BY <2>2, <3>1, <5>2, <5>3
      <4>2. Callee(c) /\ \A a \in Addr : Callee(a)' <=> Callee(a) /\ a # c
        BY <1>1, <2>1, <3>1, <3>3, PoppedFromCall
      <4>3. c # r
        <5>1. 1 \in DOMAIN s /\ n \in DOMAIN s /\ n # 1
          BY <2>1, <3>3
        <5> QED
          BY <1>1, <2>2, <3>1, <5>1 DEF Base, FramesOnOneStack
      <4>4. Live(r)' /\ Wanted(r)' = Wanted(r)
        BY <2>2, <2>7, <4>3 DEF PopsFrame, Quiet, Leaves, Untouched
      <4>5. CASE Quiet
        <5>1. \A o \in Objects : ~Inside(c, o)' /\ ~Inside(c, o)
          BY <3>1, <4>5 DEF Quiet, Untouched, Inside, InMethod
        <5>2. \A a \in Addr, o \in Objects : CalleeIn(a, o)' <=> CalleeIn(a, o)
          BY <4>2, <4>5, <5>1 DEF Quiet, Untouched, CalleeIn
        <5>3. UNCHANGED <<before, monitor>>
          BY <1>1, <4>5 DEF Quiet
        <5> QED
          BY <2>3, <2>4, <4>1, <4>4, <5>2, <5>3, QuietAccounts
      <4>6. ASSUME NEW o \in Objects, Leaves(c, o)
            PROVE  LocksOfCall'
        <5>1. \A p \in Objects : (AsBefore(p) \/ TakenByCallee(p))'
          BY <1>1, <2>3, <4>2, <4>6, LeavesAccounts
        <5> QED
          BY <2>4, <4>1, <4>4, <5>1
      <4> QED
        BY <2>7, <4>5, <4>6
    <3>4. \A k \in Nat \ {0} : k = 1 \/ k > 1
      OBVIOUS
    <3>5. n = 1 \/ n > 1
      BY <2>1, <3>4
    <3> QED
      BY <3>2, <3>3, <3>5
  <2> QED
    BY <1>1, <2>5, <2>6, <2>7, TurnEffect
<1> QED
  BY <1>2, <1>3

LEMMA CallOrderlyStep ==
  ASSUME EntryOnly, Orderly, CallBase, [CallNext]_allVars
  PROVE  Orderly'
<1>1. Base' /\ NoLostWakeup'
  BY CallBaseStep, CallWakeupStep DEF Orderly, CallBase
<1> SUFFICES WaitersEnter'
  BY <1>1 DEF Orderly
<1>2. CASE UNCHANGED allVars \/ Scheduler \/ CallStep
  <2>1. [Next]_vars
    BY <1>2, SchedulerIsNext, CallStepIsNext DEF allVars
  <2> QED
    BY <2>1, WaitersEnterStep
<1>3. ASSUME NEW o \in Objects, NEW m \in Methods, NEW a \in Addr, InvokeMethod(o, m, a)
      PROVE  WaitersEnter'
  BY <1>3, InvokeMethodFacts DEF Orderly, WaitersEnter, Live, IsSync, Entering
<1>4. CASE EndCall
  <2> SUFFICES ASSUME NEW b \in Addr, Live(b)', frame'[b].waitingObj # Null
               PROVE  IsSync(b)' /\ Entering(b)'
    BY DEF WaitersEnter
  <2>1. /\ Live(b) /\ Suspended
        /\ frame'[b].method = frame[b].method
        /\ frame'[b].lv0 = frame[b].lv0
        /\ frame'[b].waitingObj = frame[b].waitingObj
        /\ frame'[b].pc = IF GoesOn(b) THEN frame[b].pc + 1 ELSE frame[b].pc
    BY <1>4, EndCallFacts
  <2>2. ~GoesOn(b)
    BY <2>1 DEF GoesOn, Suspended, CallerWaits
  <2>3. IsSync(b) /\ Entering(b)
    BY <2>1 DEF Orderly, WaitersEnter
  <2> QED
    BY <2>1, <2>2, <2>3 DEF IsSync, Entering
<1> QED
  BY <1>2, <1>3, <1>4 DEF CallNext

LEMMA InvokeMethodAccounts ==
  ASSUME CallBase, NEW o \in Objects, NEW m \in Methods, NEW a \in Addr,
         InvokeMethod(o, m, a)
  PROVE  CallAccounts'
<1>1. /\ Base /\ ~Live(a)
      /\ frame'[a].waitingObj = Null
      /\ \A b \in Addr : Live(b)' <=> b = a \/ Live(b)
      /\ stack'[CallStack] = <<a>>
      /\ UNCHANGED monitor
  BY InvokeMethodFacts
<1>2. before'.monitor = monitor /\ before'.live = LiveFrames
  BY DEF InvokeMethod
<1>3. \A b \in Addr : (OnCall(b)' <=> b = a) /\ ~Callee(b)'
  BY <1>1 DEF OnCall, Callee
<1>4. FramesOfCall'
  BY <1>1, <1>2, <1>3 DEF FramesOfCall, LiveFrames
<1>5. \A p \in Objects : AsBefore(p)'
  BY <1>1, <1>2, <1>3 DEF AsBefore, CalleeIn
<1>6. LocksOfCall'
  BY <1>1, <1>5 DEF LocksOfCall
<1> QED
  BY <1>1, <1>2, <1>4, <1>6 DEF CallAccounts, LiveFrames, Base, TypeOK

LEMMA CallInvInit == CallInit => CallInv
<1> SUFFICES ASSUME CallInit PROVE CallInv
  OBVIOUS
<1>1. CallBase /\ NoLostWakeup
  BY CallBaseInit, WakeupInit DEF CallInit
<1>2. WaitersEnter /\ ~calling
  BY DEF CallInit, Init, WaitersEnter, Live
<1> QED
  BY <1>1, <1>2 DEF CallInv, Orderly, CallBase, CallAccounts

LEMMA CallInvStep ==
  ASSUME EntryOnly, CallInv, [CallNext]_allVars
  PROVE  CallInv'
<1>1. Orderly' /\ CallBase'
  BY CallOrderlyStep, CallBaseStep DEF CallInv
<1> SUFFICES CallAccounts'
  BY <1>1 DEF CallInv
<1>2. CASE UNCHANGED allVars
  BY <1>2 DEF CallInv, CallAccounts, FramesOfCall, LocksOfCall, ReleasedByCall, AsBefore,
     TakenByCallee, CalleeIn, Callee, OnCall, Inside, InMethod, Live, IsSync, Entering,
     allVars, vars, callVars
<1>3. CASE Scheduler \/ EndCall
  <2>1. ~calling'
    BY <1>3 DEF Scheduler, callVars, EndCall
  <2> QED
    BY <2>1 DEF CallAccounts
<1>4. ASSUME NEW o \in Objects, NEW m \in Methods, NEW a \in Addr, InvokeMethod(o, m, a)
      PROVE  CallAccounts'
  BY <1>4, InvokeMethodAccounts DEF CallInv
<1>5. CASE CallStep
  BY <1>5, FramesOfCallStep, LocksOfCallStep, CallStepIsNext DEF CallInv, CallAccounts
<1> QED
  BY <1>2, <1>3, <1>4, <1>5 DEF CallNext

\* A call that finishes in its slice leaves the VM as it found it, in every program
\* that locks with synchronized methods only: whatever the method called calls,
\* waits for or throws, no frame and no lock stays behind, and only the release of
\* a synchronized method that was never locked shows in a counter.
THEOREM FinishedCallsAreClean ==
  ASSUME EntryOnly
  PROVE  CallSpec => FinishedCallsLeaveNoTrace
<1>1. CallInv /\ [CallNext]_allVars => CallInv'
  BY CallInvStep
<1>2. ASSUME CallInv, [CallNext]_allVars
      PROVE  [Ends /\ answer' # "stray" =>
                LiveFrames' = before.live /\ monitor' \in ReleasedByCall]_allVars
  <2> SUFFICES ASSUME Ends, answer' # "stray"
               PROVE  LiveFrames' = before.live /\ monitor' \in ReleasedByCall
    OBVIOUS
  <2>1. EndCall /\ calling /\ CallBase
    <3>1. calling /\ ~calling'
      BY DEF Ends
    <3>2. ~(UNCHANGED allVars) /\ ~Scheduler /\ ~CallStep
      BY <3>1 DEF allVars, callVars, Scheduler, CallStep
    <3>3. \A o \in Objects, m \in Methods, a \in Addr : ~InvokeMethod(o, m, a)
      BY <3>1 DEF InvokeMethod, CallPossible
    <3> QED
      BY <1>2, <3>1, <3>2, <3>3 DEF CallNext, CallInv
  <2>2. stack[CallStack] = <<>> /\ UNCHANGED monitor
    BY <2>1 DEF EndCall, Answer
  <2>3. \A b \in Addr : Live(b)' <=> Live(b)
    BY <2>1, <2>2, EndCallFacts DEF CutOff
  <2>4. \A b \in Addr : ~OnCall(b)
    BY <2>2 DEF OnCall
  <2>5. FramesOfCall /\ before.live \subseteq Addr /\ monitor \in ReleasedByCall
    BY <1>2, <2>1, <2>2 DEF CallInv, CallAccounts, LocksOfCall
  <2>6. LiveFrames' = before.live
    BY <2>3, <2>4, <2>5 DEF FramesOfCall, LiveFrames
  <2> QED
    BY <2>2, <2>5, <2>6
<1> QED
  BY CallInvInit, <1>1, <1>2, PTL DEF CallSpec, FinishedCallsLeaveNoTrace
=============================================================================

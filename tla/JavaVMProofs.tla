---------------------------- MODULE JavaVMProofs ----------------------------
(***************************************************************************)
(* Proofs about JavaVM, for every program and every number of threads,     *)
(* addresses and objects: types and frames; the monitors, where no wake-up *)
(* is lost in any program and synchronized methods exclude each other in   *)
(* structured ones; the run queue, counts below zero and the monitors of   *)
(* threads that an exception dropped.                                      *)
(*                                                                         *)
(* Then JavaVM implements EntryMonitor, for every program that locks with  *)
(* synchronized methods only.  A step is described by what it does to the  *)
(* three variables of EntryMonitor and to the counters: nothing (Quiet), a *)
(* frame enters, sleeps or leaves.  First every step of JavaVM is one of   *)
(* the four, then each of the four is a step of EntryMonitor.              *)
(*                                                                         *)
(* Last: while the clock does not jump, whoever finds a monitor taken      *)
(* waits for ever in these programs.  The reason: a thread leaves the      *)
(* processor only when it has ended or sleeps on top of what it holds, and *)
(* it sleeps for ever, because the only thread that could wake it is       *)
(* asleep itself.                                                          *)
(***************************************************************************)
EXTENDS JavaVMEntry, TLAPS

\* In setup nothing runs, and a thread that is not added has no frame.
SetupOK ==
  vm = "setup" =>
    /\ current = NoThread
    /\ \A t \in Threads : t \notin ToSet(threads) => stack[t] = <<>>

Base == TypeOK /\ PcInCode /\ FramesOnOneStack /\ SetupOK

-----------------------------------------------------------------------------
(* The frame and the instruction an action looks at *)

LEMMA TopFacts ==
  ASSUME TypeOK, FramesOnOneStack, HasFrame
  PROVE  /\ current \in Threads
         /\ Len(stack[current]) \in Nat \ {0}
         /\ TopAddr = stack[current][Len(stack[current])]
         /\ TopAddr \in Addr
         /\ Live(TopAddr)
         /\ TopFrame \in Frame
<1>1. current \in Threads /\ stack[current] \in Seq(Addr) /\ stack[current] # <<>>
  BY NamesAssumption DEF HasFrame, InSlice, TypeOK
<1>2. Len(stack[current]) \in Nat \ {0}
  BY <1>1
<1>3. TopAddr = stack[current][Len(stack[current])]
  BY DEF TopAddr, Top, Last
<1>4. Len(stack[current]) \in DOMAIN stack[current] /\ TopAddr \in Addr
  BY <1>1, <1>2, <1>3
<1>5. Live(TopAddr)
  BY <1>1, <1>3, <1>4 DEF FramesOnOneStack
<1>6. TopFrame \in Frame
  BY <1>4, <1>5 DEF TypeOK, TopFrame, Live
<1> QED
  BY <1>1, <1>2, <1>3, <1>4, <1>5, <1>6

LEMMA InstrFacts ==
  ASSUME Base, NEW op, At(op)
  PROVE  /\ HasFrame
         /\ TopFrame.method \in Methods \ (NativeMethods \cup AbstractMethods)
         /\ TopFrame.pc \in Nat
         /\ TopFrame.pc < Len(Code[TopFrame.method])
         /\ Instr \in Instruction
         /\ Instr.op = op
         /\ Instr.target < Len(Code[TopFrame.method])
         /\ op \in {"next", "branch", "store0", "invoke"}
              => TopFrame.pc + 1 < Len(Code[TopFrame.method])
<1>1. HasFrame /\ TopFrame.method \notin NativeMethods /\ Instr.op = op
  BY DEF At, CanExecute
<1>2. TopFrame \in Frame /\ TopAddr \in Addr /\ Live(TopAddr)
  BY <1>1, TopFacts DEF Base
<1>3. TopFrame.method \in Methods \ AbstractMethods /\ TopFrame.pc \in Nat
  BY <1>2 DEF Frame
<1>4. TopFrame.pc < Len(Code[TopFrame.method])
  BY <1>1, <1>2 DEF Base, PcInCode, TopFrame
<1>5. Code[TopFrame.method] \in Seq(Instruction)
  BY <1>3, CodeAssumption
<1>6. TopFrame.pc + 1 \in DOMAIN Code[TopFrame.method]
  BY <1>3, <1>4, <1>5
<1>7. Instr \in Instruction
  BY <1>5, <1>6 DEF Instr
<1>8. /\ Code[TopFrame.method][TopFrame.pc + 1].target < Len(Code[TopFrame.method])
      /\ Code[TopFrame.method][TopFrame.pc + 1].op \in {"next", "branch", "store0", "invoke"}
           => TopFrame.pc + 1 < Len(Code[TopFrame.method])
  BY <1>1, <1>3, <1>6, CodeAssumption
<1> QED
  BY <1>1, <1>3, <1>4, <1>7, <1>8 DEF Instr

-----------------------------------------------------------------------------
(* Steps that change frames but neither stacks nor which addresses are live *)

LEMMA SameLive ==
  ASSUME Base, UNCHANGED stack, \A a \in Addr : Live(a)' <=> Live(a)
  PROVE  FramesOnOneStack'
<1>1. \A t \in Threads : \A i \in DOMAIN stack[t] : stack[t][i] \in Addr
  BY DEF Base, TypeOK
<1> QED
  BY <1>1 DEF Base, FramesOnOneStack

\* The top frame gets a new content with the same method and a pc in its code.
LEMMA UpdateTop ==
  ASSUME Base, HasFrame, UNCHANGED stack,
         NEW f \in Frame,
         f.method = TopFrame.method,
         f.method \notin NativeMethods => f.pc < Len(Code[f.method]),
         frame' = [frame EXCEPT ![TopAddr] = f]
  PROVE  /\ frame' \in [Addr -> Frame \cup {Freed}]
         /\ PcInCode'
         /\ FramesOnOneStack'
         /\ frame'[TopAddr] = f
         /\ \A a \in Addr : a # TopAddr => frame'[a] = frame[a]
         /\ \A a \in Addr : Live(a)' <=> Live(a)
<1>1. TopAddr \in Addr /\ Live(TopAddr)
  BY TopFacts DEF Base
<1>2. frame \in [Addr -> Frame \cup {Freed}] /\ f # Freed
  BY FreedAssumption DEF Base, TypeOK
<1>3. /\ frame' \in [Addr -> Frame \cup {Freed}]
      /\ frame'[TopAddr] = f
      /\ \A a \in Addr : a # TopAddr => frame'[a] = frame[a]
  BY <1>1, <1>2
<1>4. \A a \in Addr : Live(a)' <=> Live(a)
  BY <1>1, <1>2, <1>3 DEF Live
<1>5. FramesOnOneStack'
  BY <1>4, SameLive
<1>6. PcInCode'
  <2> SUFFICES ASSUME NEW a \in Addr, Live(a)', frame'[a].method \notin NativeMethods
               PROVE  frame'[a].pc < Len(Code[frame'[a].method])
    BY DEF PcInCode
  <2>1. CASE a = TopAddr
    BY <1>3, <2>1
  <2>2. CASE a # TopAddr
    BY <1>3, <1>4, <2>2 DEF Base, PcInCode
  <2> QED
    BY <2>1, <2>2
<1> QED
  BY <1>3, <1>4, <1>5, <1>6

LEMMA QueueTyping ==
  ASSUME TypeOK, current \in Threads, PushThread
  PROVE  threads' \in Seq(Threads) /\ current' = NoThread
BY DEF TypeOK, PushThread

LEMMA WaitTyping ==
  ASSUME TypeOK, NEW o \in Objects, NEW a \in Addr, Wait(o, a)
  PROVE  /\ notify' \in [Objects -> SUBSET Addr]
         /\ a \in notify'[o]
         /\ \A p \in Objects : notify[p] \subseteq notify'[p]
BY DEF TypeOK, Wait

LEMMA LockTyping ==
  ASSUME TypeOK, NEW o \in Objects, CanLock(o), Lock(o)
  PROVE  /\ monitor' \in [Objects -> MinMonitor..MaxMonitor]
         /\ monitor[o] = 0
         /\ monitor'[o] = 1
         /\ \A p \in Objects : p # o => monitor'[p] = monitor[p]
BY MonitorAssumption DEF TypeOK, Lock, CanLock

LEMMA DecrementedFacts ==
  ASSUME NEW n \in MinMonitor..MaxMonitor
  PROVE  /\ Decremented(n) \in MinMonitor..MaxMonitor
         /\ n # 1 => Decremented(n) # 0
         /\ n = 1 => Decremented(n) = 0
         /\ Decremented(n) # n
BY MonitorAssumption DEF Decremented

LEMMA DecrementTyping ==
  ASSUME TypeOK, NEW o \in Objects, monitor' = [monitor EXCEPT ![o] = Decremented(@)]
  PROVE  /\ monitor' \in [Objects -> MinMonitor..MaxMonitor]
         /\ monitor'[o] # monitor[o]
         /\ monitor[o] # 1 => monitor'[o] # 0
         /\ monitor[o] = 1 => monitor'[o] = 0
         /\ \A p \in Objects : p # o => monitor'[p] = monitor[p]
<1>1. monitor[o] \in MinMonitor..MaxMonitor
  BY DEF TypeOK
<1> QED
  BY <1>1, DecrementedFacts DEF TypeOK

LEMMA NotifiedFacts ==
  ASSUME TypeOK, NEW o \in Objects
  PROVE  /\ Notified(o) \in [Addr -> Frame \cup {Freed}]
         /\ \A a \in Addr : Notified(o)[a] = Freed <=> ~Live(a)
         /\ \A a \in Addr : Live(a) =>
              /\ Notified(o)[a] \in Frame
              /\ Notified(o)[a].method = frame[a].method
              /\ Notified(o)[a].pc = frame[a].pc
              /\ Notified(o)[a].lv0 = frame[a].lv0
              /\ Notified(o)[a].waitingObj = frame[a].waitingObj
              /\ Notified(o)[a].lock => frame[a].lock /\ a \notin notify[o]
         /\ NotifyOutcomes(o) \subseteq {"running", "aborted"}
<1>1. ASSUME NEW a \in Addr, Live(a)
      PROVE  /\ Notified(o)[a] \in Frame
             /\ Notified(o)[a].method = frame[a].method
             /\ Notified(o)[a].pc = frame[a].pc
             /\ Notified(o)[a].lv0 = frame[a].lv0
             /\ Notified(o)[a].waitingObj = frame[a].waitingObj
             /\ Notified(o)[a].lock => frame[a].lock /\ a \notin notify[o]
  <2>1. frame[a] \in Frame
    BY <1>1 DEF TypeOK, Live
  <2>2. CASE a \in notify[o]
    <3>1. Notified(o)[a] = [frame[a] EXCEPT !.lock = FALSE]
      BY <1>1, <2>2 DEF Notified
    <3> QED
      BY <2>1, <3>1 DEF Frame
  <2>3. CASE a \notin notify[o]
    BY <2>1, <2>3 DEF Notified
  <2> QED
    BY <2>2, <2>3
<1>2. ASSUME NEW a \in Addr, ~Live(a)
      PROVE  Notified(o)[a] = Freed
  BY <1>2 DEF Notified, Live
<1>3. \A a \in Addr : Notified(o)[a] = Freed <=> ~Live(a)
  BY <1>1, <1>2, FreedAssumption
<1>4. Notified(o) \in [Addr -> Frame \cup {Freed}]
  BY <1>1, <1>2 DEF Notified
<1>5. NotifyOutcomes(o) \subseteq {"running", "aborted"}
  BY EnvironmentAssumption DEF NotifyOutcomes
<1> QED
  BY <1>1, <1>3, <1>4, <1>5

-----------------------------------------------------------------------------
(* Base is inductive: the scheduler *)

LEMMA BaseInit == Init => Base
<1> SUFFICES ASSUME Init PROVE Base
  OBVIOUS
<1>1. TypeOK
  BY MonitorAssumption DEF Init, TypeOK
<1>2. PcInCode /\ FramesOnOneStack
  BY DEF Init, PcInCode, FramesOnOneStack, Live
<1>3. SetupOK
  BY DEF Init, SetupOK
<1> QED
  BY <1>1, <1>2, <1>3 DEF Base

LEMMA AddNewThreadBase ==
  ASSUME Base, NEW t \in Threads, NEW a \in Addr, NEW m \in EntryMethods,
         AddNewThread(t, a, m)
  PROVE  Base'
<1> DEFINE f == NewFrame(m, Null)
<1>1. m \in Methods \ AbstractMethods
  BY MethodsAssumption
<1>2. f \in Frame /\ f # Freed /\ f.pc = 0 /\ f.method = m
  <2>1. f \in Frame
    BY <1>1 DEF NewFrame, Frame
  <2>2. f.pc = 0 /\ f.method = m
    BY DEF NewFrame
  <2> QED
    BY <2>1, <2>2, FreedAssumption
<1>3. /\ frame' = [frame EXCEPT ![a] = f]
      /\ stack' = [stack EXCEPT ![t] = <<a>>]
      /\ threads' = Append(threads, t)
      /\ t \notin ToSet(threads)
      /\ vm = "setup" /\ vm' = vm /\ current' = current
      /\ UNCHANGED <<monitor, notify>>
      /\ ~Live(a)
  BY DEF AddNewThread
<1>4. stack[t] = <<>>
  BY <1>3 DEF Base, SetupOK
<1>5. TypeOK'
  BY <1>2, <1>3 DEF Base, TypeOK
<1>6. /\ frame'[a] = f
      /\ \A b \in Addr : b # a => frame'[b] = frame[b]
      /\ stack'[t] = <<a>>
      /\ \A u \in Threads : u # t => stack'[u] = stack[u]
  BY <1>3 DEF Base, TypeOK
<1>7. PcInCode'
  <2> SUFFICES ASSUME NEW b \in Addr, Live(b)', frame'[b].method \notin NativeMethods
               PROVE  frame'[b].pc < Len(Code[frame'[b].method])
    BY DEF PcInCode
  <2>1. CASE b = a
    <3>1. Code[m] \in Seq(Instruction) /\ Code[m] # <<>>
      BY <1>1, <1>2, <1>6, <2>1, CodeAssumption
    <3> QED
      BY <1>2, <1>6, <2>1, <3>1
  <2>2. CASE b # a
    BY <1>6, <2>2 DEF Base, PcInCode, Live
  <2> QED
    BY <2>1, <2>2
<1>8. FramesOnOneStack'
  <2>1. \A u \in Threads : stack[u] \in Seq(Addr)
    BY DEF Base, TypeOK
  <2>2. \A u \in Threads : \A i \in DOMAIN stack[u] : stack[u][i] # a
    BY <1>3 DEF Base, FramesOnOneStack
  <2>3. \A b \in Addr : Live(b)' <=> b = a \/ Live(b)
    BY <1>2, <1>6 DEF Live
  <2>4. \A u \in Threads : \A i \in DOMAIN stack'[u] : frame'[stack'[u][i]] # Freed
    <3> SUFFICES ASSUME NEW u \in Threads, NEW i \in DOMAIN stack'[u]
                 PROVE  frame'[stack'[u][i]] # Freed
      OBVIOUS
    <3>1. CASE u = t
      BY <1>2, <1>6, <3>1
    <3>2. CASE u # t
      <4>1. i \in DOMAIN stack[u] /\ stack[u][i] \in Addr /\ stack'[u][i] = stack[u][i]
        BY <1>6, <2>1, <3>2
      <4> QED
        BY <4>1, <1>6, <2>2 DEF Base, FramesOnOneStack, Live
    <3> QED
      BY <3>1, <3>2
  <2>5. \A u, v \in Threads : \A i \in DOMAIN stack'[u], j \in DOMAIN stack'[v] :
          stack'[u][i] = stack'[v][j] => u = v /\ i = j
    BY <1>6, <2>2 DEF Base, FramesOnOneStack
  <2> QED
    BY <2>4, <2>5 DEF FramesOnOneStack, Live
<1>9. SetupOK'
  <2>1. threads \in Seq(Threads)
    BY DEF Base, TypeOK
  <2>2. \A u \in Threads : u \notin ToSet(threads') => u # t /\ u \notin ToSet(threads)
    BY <1>3, <2>1 DEF ToSet
  <2> QED
    BY <1>3, <1>6, <2>2 DEF Base, SetupOK
<1> QED
  BY <1>5, <1>7, <1>8, <1>9 DEF Base

LEMMA FramesUnchangedBase ==
  ASSUME Base, UNCHANGED <<stack, frame>>
  PROVE  PcInCode' /\ FramesOnOneStack'
BY DEF Base, PcInCode, FramesOnOneStack, Live

LEMMA SchedulerBase ==
  ASSUME Base, ExecThreads \/ PopThread \/ PopNothing \/ SliceExpires \/ Yield \/ Drop \/ Abort
  PROVE  Base'
<1>1. UNCHANGED <<stack, frame, monitor, notify>>
  BY DEF ExecThreads, PopThread, PopNothing, SliceExpires, Yield, Drop, Abort, vars
<1>2. PcInCode' /\ FramesOnOneStack'
  BY <1>1, FramesUnchangedBase
<1>3. CASE ExecThreads
  BY <1>1, <1>2, <1>3 DEF Base, TypeOK, SetupOK, ExecThreads
<1>4. CASE PopThread
  <2>1. threads \in Seq(Threads) /\ threads # <<>>
    BY <1>4 DEF Base, TypeOK, PopThread
  <2>2. Last(threads) \in Threads /\ Front(threads) \in Seq(Threads)
    BY <2>1 DEF Last, Front
  <2> QED
    BY <1>1, <1>2, <1>4, <2>2 DEF Base, TypeOK, SetupOK, PopThread
<1>5. CASE PopNothing
  BY <1>1, <1>2, <1>5 DEF Base, TypeOK, SetupOK, PopNothing, vars
<1>6. CASE SliceExpires \/ Yield
  <2>1. PushThread /\ current \in Threads /\ vm = "running" /\ vm' = vm
    BY <1>6, NamesAssumption DEF SliceExpires, Yield, Base, TypeOK
  <2> QED
    BY <1>1, <1>2, <2>1, QueueTyping DEF Base, TypeOK, SetupOK
<1>7. CASE Drop
  BY <1>1, <1>2, <1>7 DEF Base, TypeOK, SetupOK, Drop
<1>8. CASE Abort
  BY <1>1, <1>2, <1>8 DEF Base, TypeOK, SetupOK, Abort
<1> QED
  BY <1>3, <1>4, <1>5, <1>6, <1>7, <1>8

-----------------------------------------------------------------------------
(* Base is inductive: checkFrame and the instructions that keep the stack *)

\* A step that only rewrites the top frame, in the terms of UpdateTop.
LEMMA UpdateTopBase ==
  ASSUME Base, HasFrame, UNCHANGED stack,
         NEW f \in Frame,
         f.method = TopFrame.method,
         f.method \notin NativeMethods => f.pc < Len(Code[f.method]),
         frame' = [frame EXCEPT ![TopAddr] = f],
         vm' \in {"running", "granted", "aborted"},
         threads' \in Seq(Threads),
         current' \in Threads \cup {NoThread},
         monitor' \in [Objects -> MinMonitor..MaxMonitor],
         notify' \in [Objects -> SUBSET Addr]
  PROVE  Base'
<1>1. PcInCode' /\ FramesOnOneStack' /\ frame' \in [Addr -> Frame \cup {Freed}]
  BY UpdateTop
<1>2. TypeOK'
  BY <1>1 DEF Base, TypeOK
<1>3. SetupOK'
  BY DEF SetupOK
<1> QED
  BY <1>1, <1>2, <1>3 DEF Base

LEMMA TopPc ==
  ASSUME Base, HasFrame
  PROVE  TopFrame.method \notin NativeMethods
           => TopFrame.pc < Len(Code[TopFrame.method])
BY TopFacts DEF Base, PcInCode, TopFrame

\* What an action writes into the top frame.
AcquiredFrame ==
  [TopFrame EXCEPT !.objOwner = @ \cup {TopFrame.waitingObj}, !.waitingObj = Null]
BlockedFrame(o) == [TopFrame EXCEPT !.waitingObj = o, !.lock = TRUE]

LEMMA AcquireFacts ==
  ASSUME Base, Acquire
  PROVE  /\ HasFrame
         /\ AcquiredFrame \in Frame
         /\ frame' = [frame EXCEPT ![TopAddr] = AcquiredFrame]
         /\ AcquiredFrame.method = TopFrame.method
         /\ AcquiredFrame.pc = TopFrame.pc
         /\ AcquiredFrame.lv0 = TopFrame.lv0
         /\ AcquiredFrame.lock = TopFrame.lock
         /\ AcquiredFrame.waitingObj = Null
         /\ TopFrame.waitingObj \in Objects
         /\ CanLock(TopFrame.waitingObj) /\ Lock(TopFrame.waitingObj)
<1>1. HasFrame /\ TopFrame.waitingObj # Null
  BY DEF Acquire
<1>2. TopFrame \in Frame /\ TopAddr \in Addr
  BY <1>1, TopFacts DEF Base
<1>3. TopFrame.waitingObj \in Objects
  BY <1>1, <1>2 DEF Frame
<1>4. AcquiredFrame \in Frame
  BY <1>2, <1>3 DEF AcquiredFrame, Frame
<1>5. frame' = [frame EXCEPT ![TopAddr] = AcquiredFrame]
  BY <1>2 DEF Acquire, AcquiredFrame, TopFrame, Base, TypeOK
<1>6. /\ AcquiredFrame.method = TopFrame.method
      /\ AcquiredFrame.pc = TopFrame.pc
      /\ AcquiredFrame.lv0 = TopFrame.lv0
      /\ AcquiredFrame.lock = TopFrame.lock
      /\ AcquiredFrame.waitingObj = Null
  BY <1>2 DEF AcquiredFrame, Frame
<1> QED
  BY <1>1, <1>3, <1>4, <1>5, <1>6 DEF Acquire

LEMMA BlockedFrameFacts ==
  ASSUME Base, HasFrame, NEW o \in Objects
  PROVE  /\ BlockedFrame(o) \in Frame
         /\ BlockedFrame(o).method = TopFrame.method
         /\ BlockedFrame(o).pc = TopFrame.pc
         /\ BlockedFrame(o).lv0 = TopFrame.lv0
         /\ BlockedFrame(o).lock = TRUE
         /\ BlockedFrame(o).waitingObj = o
<1>1. TopFrame \in Frame
  BY TopFacts DEF Base
<1> QED
  BY <1>1 DEF BlockedFrame, Frame

LEMMA RewaitFacts ==
  ASSUME Base, Rewait
  PROVE  /\ HasFrame
         /\ TopFrame.waitingObj \in Objects
         /\ monitor[TopFrame.waitingObj] # 0
         /\ frame' = [frame EXCEPT ![TopAddr] = BlockedFrame(TopFrame.waitingObj)]
         /\ Wait(TopFrame.waitingObj, TopAddr)
<1>1. HasFrame /\ TopFrame.waitingObj # Null
  BY DEF Rewait
<1>2. TopFrame \in Frame /\ TopAddr \in Addr
  BY <1>1, TopFacts DEF Base
<1>3. BlockedFrame(TopFrame.waitingObj) = [TopFrame EXCEPT !.lock = TRUE]
  BY <1>2 DEF BlockedFrame, Frame
<1>4. frame' = [frame EXCEPT ![TopAddr] = [TopFrame EXCEPT !.lock = TRUE]]
  BY <1>2 DEF Rewait, TopFrame, Base, TypeOK
<1> QED
  BY <1>1, <1>2, <1>3, <1>4 DEF Rewait, Frame, CanLock

LEMMA CheckFrameBase ==
  ASSUME Base, Acquire \/ Rewait
  PROVE  Base'
<1>1. CASE Acquire
  <2>1. monitor' \in [Objects -> MinMonitor..MaxMonitor]
    BY <1>1, AcquireFacts, LockTyping DEF Base
  <2>2. UNCHANGED <<threads, current, stack, notify>> /\ vm' = "granted"
    BY <1>1 DEF Acquire
  <2>3. /\ threads' \in Seq(Threads)
        /\ current' \in Threads \cup {NoThread}
        /\ notify' \in [Objects -> SUBSET Addr]
    BY <2>2 DEF Base, TypeOK
  <2> QED
    BY <1>1, <2>1, <2>2, <2>3, AcquireFacts, TopPc, UpdateTopBase
<1>2. CASE Rewait
  <2>1. TopAddr \in Addr /\ current \in Threads
    BY <1>2, RewaitFacts, TopFacts DEF Base
  <2>2. notify' \in [Objects -> SUBSET Addr]
    BY <1>2, <2>1, RewaitFacts, WaitTyping DEF Base
  <2>3. threads' \in Seq(Threads) /\ current' = NoThread
    BY <1>2, <2>1, QueueTyping DEF Base, Rewait
  <2>4. /\ UNCHANGED <<vm, stack, monitor>>
        /\ vm = "running"
        /\ monitor' \in [Objects -> MinMonitor..MaxMonitor]
    BY <1>2 DEF Rewait, Base, TypeOK
  <2> QED
    BY <1>2, <2>2, <2>3, <2>4, RewaitFacts, BlockedFrameFacts, TopPc, UpdateTopBase
<1> QED
  BY <1>1, <1>2

AtPc(pc) == [TopFrame EXCEPT !.pc = pc]

LEMMA AtPcFacts ==
  ASSUME Base, HasFrame, NEW pc \in Nat
  PROVE  /\ AtPc(pc) \in Frame
         /\ AtPc(pc).method = TopFrame.method
         /\ AtPc(pc).pc = pc
         /\ AtPc(pc).lv0 = TopFrame.lv0
         /\ AtPc(pc).lock = TopFrame.lock
         /\ AtPc(pc).waitingObj = TopFrame.waitingObj
<1>1. TopFrame \in Frame
  BY TopFacts DEF Base
<1> QED
  BY <1>1 DEF AtPc, Frame

\* NextInstruction and Branch move the pc of the top frame to a place in its code.
LEMMA GotoFacts ==
  ASSUME Base, NextInstruction \/ Branch
  PROVE  /\ HasFrame
         /\ ~TopFrame.lock /\ TopFrame.waitingObj = Null
         /\ \E pc \in Nat : /\ pc < Len(Code[TopFrame.method])
                           /\ frame' = [frame EXCEPT ![TopAddr] = AtPc(pc)]
                           /\ Goto(pc)
<1>1. \E op \in {"next", "branch"} : At(op)
  BY DEF NextInstruction, Branch
<1>2. HasFrame /\ ~TopFrame.lock /\ TopFrame.waitingObj = Null
  BY <1>1 DEF At, CanExecute
<1>3. /\ TopFrame.pc + 1 \in Nat /\ TopFrame.pc + 1 < Len(Code[TopFrame.method])
      /\ Instr.target \in Nat /\ Instr.target < Len(Code[TopFrame.method])
  BY <1>1, InstrFacts DEF Instruction
<1>4. PICK pc \in {TopFrame.pc + 1, Instr.target} : Goto(pc)
  BY DEF NextInstruction, Branch
<1>5. TopAddr \in Addr
  BY <1>2, TopFacts DEF Base
<1>6. frame' = [frame EXCEPT ![TopAddr] = AtPc(pc)]
  BY <1>4, <1>5 DEF Goto, AtPc, TopFrame, Base, TypeOK
<1> QED
  BY <1>2, <1>3, <1>4, <1>6

LEMMA GotoBase ==
  ASSUME Base, NextInstruction \/ Branch
  PROVE  Base'
<1>1. PICK pc \in Nat : /\ pc < Len(Code[TopFrame.method])
                       /\ frame' = [frame EXCEPT ![TopAddr] = AtPc(pc)]
                       /\ Goto(pc)
  BY GotoFacts
<1>2. HasFrame
  BY GotoFacts
<1>3. UNCHANGED <<threads, current, stack, monitor, notify>> /\ vm' = "running"
  BY <1>1 DEF Goto
<1>4. /\ threads' \in Seq(Threads)
      /\ current' \in Threads \cup {NoThread}
      /\ monitor' \in [Objects -> MinMonitor..MaxMonitor]
      /\ notify' \in [Objects -> SUBSET Addr]
  BY <1>3 DEF Base, TypeOK
<1> QED
  BY <1>1, <1>2, <1>3, <1>4, AtPcFacts, UpdateTopBase

StoredFrame(o, pc) == [TopFrame EXCEPT !.lv0 = o, !.pc = pc]

LEMMA Store0Facts ==
  ASSUME Base, Store0
  PROVE  /\ HasFrame
         /\ TopFrame.method \in Methods /\ Instr.op = "store0"
         /\ Instr = Code[TopFrame.method][TopFrame.pc + 1]
         /\ TopFrame.pc + 1 \in DOMAIN Code[TopFrame.method]
         /\ \E o \in Objects \cup {Null}, pc \in Nat :
              /\ pc < Len(Code[TopFrame.method])
              /\ StoredFrame(o, pc) \in Frame
              /\ frame' = [frame EXCEPT ![TopAddr] = StoredFrame(o, pc)]
              /\ StoredFrame(o, pc).method = TopFrame.method
              /\ StoredFrame(o, pc).pc = pc
              /\ StoredFrame(o, pc).lock = TopFrame.lock
              /\ StoredFrame(o, pc).waitingObj = TopFrame.waitingObj
<1>1. At("store0")
  BY DEF Store0
<1>2. TopFrame \in Frame /\ TopAddr \in Addr
  BY <1>1, InstrFacts, TopFacts DEF Base
<1>3. PICK o \in Objects \cup {Null} : o = Instr.obj
  BY <1>1, InstrFacts DEF Instruction
<1>4. PICK pc \in Nat : pc = TopFrame.pc + 1
  BY <1>1, InstrFacts
<1>5. /\ StoredFrame(o, pc) \in Frame
      /\ StoredFrame(o, pc).method = TopFrame.method
      /\ StoredFrame(o, pc).pc = pc
      /\ StoredFrame(o, pc).lock = TopFrame.lock
      /\ StoredFrame(o, pc).waitingObj = TopFrame.waitingObj
  BY <1>2 DEF StoredFrame, Frame
<1>6. frame' = [frame EXCEPT ![TopAddr] = StoredFrame(o, pc)]
  BY <1>2, <1>3, <1>4 DEF Store0, StoredFrame, TopFrame, Base, TypeOK
<1>7. pc < Len(Code[TopFrame.method])
  BY <1>1, <1>4, InstrFacts
<1>8. TopFrame.pc + 1 \in DOMAIN Code[TopFrame.method]
  BY <1>1, InstrFacts, CodeAssumption
<1> QED
  BY <1>1, <1>5, <1>6, <1>7, <1>8, InstrFacts DEF Instr

CaughtFrame(h) == [TopFrame EXCEPT !.pc = h, !.hasException = FALSE]

LEMMA AthrowCaughtFacts ==
  ASSUME Base, AthrowCaught
  PROVE  /\ HasFrame
         /\ ~TopFrame.lock /\ TopFrame.waitingObj = Null
         /\ \E h \in Nat :
              /\ h < Len(Code[TopFrame.method])
              /\ CaughtFrame(h) \in Frame
              /\ frame' = [frame EXCEPT ![TopAddr] = CaughtFrame(h)]
              /\ CaughtFrame(h).method = TopFrame.method
              /\ CaughtFrame(h).pc = h
              /\ CaughtFrame(h).lv0 = TopFrame.lv0
              /\ CaughtFrame(h).lock = TopFrame.lock
              /\ CaughtFrame(h).waitingObj = TopFrame.waitingObj
<1>1. At("athrow")
  BY DEF AthrowCaught
<1>2. TopFrame \in Frame /\ TopAddr \in Addr
  BY <1>1, InstrFacts, TopFacts DEF Base
<1>3. PICK i \in DOMAIN ExceptionTable[TopFrame.method] :
        frame' = [frame EXCEPT
                    ![TopAddr].pc = ExceptionTable[TopFrame.method][i].handler_pc,
                    ![TopAddr].hasException = FALSE]
  BY DEF AthrowCaught
<1> DEFINE h == ExceptionTable[TopFrame.method][i].handler_pc
<1>4. ExceptionTable[TopFrame.method] \in Seq(TableEntry(Classes))
  BY <1>1, InstrFacts, CodeAssumption
<1>5. h \in Nat
  <2>1. ExceptionTable[TopFrame.method][i] \in TableEntry(Classes)
    BY <1>4
  <2> QED
    BY <2>1 DEF TableEntry
<1>6. h < Len(Code[TopFrame.method])
  BY <1>1, InstrFacts, CodeAssumption
<1>7. frame' = [frame EXCEPT ![TopAddr] = CaughtFrame(h)]
  BY <1>2, <1>3 DEF CaughtFrame, TopFrame, Base, TypeOK
<1> HIDE DEF h
<1>8. /\ CaughtFrame(h) \in Frame
      /\ CaughtFrame(h).method = TopFrame.method
      /\ CaughtFrame(h).pc = h
      /\ CaughtFrame(h).lv0 = TopFrame.lv0
      /\ CaughtFrame(h).lock = TopFrame.lock
      /\ CaughtFrame(h).waitingObj = TopFrame.waitingObj
  BY <1>2, <1>5 DEF CaughtFrame, Frame
<1> QED
  BY <1>1, <1>5, <1>6, <1>7, <1>8 DEF At, CanExecute

LEMMA LocalBase ==
  ASSUME Base, Store0 \/ AthrowCaught
  PROVE  Base'
<1>1. UNCHANGED <<threads, current, stack, monitor, notify>> /\ vm' = "running"
  BY DEF Store0, AthrowCaught
<1>2. /\ threads' \in Seq(Threads)
      /\ current' \in Threads \cup {NoThread}
      /\ monitor' \in [Objects -> MinMonitor..MaxMonitor]
      /\ notify' \in [Objects -> SUBSET Addr]
  BY <1>1 DEF Base, TypeOK
<1>3. CASE Store0
  BY <1>1, <1>2, <1>3, Store0Facts, UpdateTopBase
<1>4. CASE AthrowCaught
  BY <1>1, <1>2, <1>4, AthrowCaughtFacts, UpdateTopBase
<1> QED
  BY <1>3, <1>4

-----------------------------------------------------------------------------
(* Base is inductive: monitorenter and monitorexit *)

EnteredFrame(owned) == [TopFrame EXCEPT !.objOwner = owned]

\* MonitorEnter either locks a free object or blocks the frame on a taken one.
LEMMA MonitorEnterFacts ==
  ASSUME Base, MonitorEnter
  PROVE  /\ HasFrame
         /\ ~TopFrame.lock /\ TopFrame.waitingObj = Null
         /\ UNCHANGED <<threads, current, stack>>
         /\ vm' = "running"
         /\ \E o \in Objects :
              \/ /\ CanLock(o) /\ Lock(o)
                 /\ UNCHANGED notify
                 /\ \E owned \in SUBSET Objects :
                      /\ frame' = [frame EXCEPT ![TopAddr] = EnteredFrame(owned)]
                      /\ EnteredFrame(owned) \in Frame
                      /\ EnteredFrame(owned).method = TopFrame.method
                      /\ EnteredFrame(owned).pc = TopFrame.pc
                      /\ EnteredFrame(owned).lv0 = TopFrame.lv0
                      /\ EnteredFrame(owned).lock = TopFrame.lock
                      /\ EnteredFrame(owned).waitingObj = TopFrame.waitingObj
              \/ /\ monitor[o] # 0
                 /\ Wait(o, TopAddr)
                 /\ UNCHANGED monitor
                 /\ frame' = [frame EXCEPT ![TopAddr] = BlockedFrame(o)]
<1>1. At("monitorenter")
  BY DEF MonitorEnter
<1>2. TopFrame \in Frame /\ TopAddr \in Addr
  BY <1>1, InstrFacts, TopFacts DEF Base
<1>3. PICK o \in Objects : o = Instr.obj
  BY <1>1, InstrFacts DEF Instruction, MonitorEnter
<1>4. PICK owned \in SUBSET Objects :
        owned = TopFrame.objOwner \cup ({TopFrame.lv0} \ {Null})
  BY <1>2 DEF Frame
<1>5. CASE monitor[o] = 0
  <2>1. /\ EnteredFrame(owned) \in Frame
        /\ EnteredFrame(owned).method = TopFrame.method
        /\ EnteredFrame(owned).pc = TopFrame.pc
        /\ EnteredFrame(owned).lv0 = TopFrame.lv0
        /\ EnteredFrame(owned).lock = TopFrame.lock
        /\ EnteredFrame(owned).waitingObj = TopFrame.waitingObj
    BY <1>2 DEF EnteredFrame, Frame
  <2>2. /\ frame' = [frame EXCEPT ![TopAddr].objOwner = @ \cup ({TopFrame.lv0} \ {Null})]
        /\ CanLock(o) /\ Lock(o)
        /\ UNCHANGED notify
    BY <1>3, <1>5 DEF MonitorEnter, CanLock
  <2>3. frame' = [frame EXCEPT ![TopAddr] = EnteredFrame(owned)]
    BY <1>2, <1>4, <2>2 DEF EnteredFrame, TopFrame, Base, TypeOK
  <2> QED
    BY <1>1, <2>1, <2>2, <2>3 DEF At, CanExecute, MonitorEnter
<1>6. CASE monitor[o] # 0
  <2>1. /\ frame' = [frame EXCEPT ![TopAddr].waitingObj = o, ![TopAddr].lock = TRUE]
        /\ Wait(o, TopAddr)
        /\ UNCHANGED monitor
    BY <1>3, <1>6 DEF MonitorEnter, CanLock
  <2>2. frame' = [frame EXCEPT ![TopAddr] = BlockedFrame(o)]
    BY <1>2, <2>1 DEF BlockedFrame, TopFrame, Base, TypeOK
  <2> QED
    BY <1>1, <1>6, <2>1, <2>2 DEF At, CanExecute, MonitorEnter
<1> QED
  BY <1>5, <1>6

LEMMA MonitorEnterBase ==
  ASSUME Base, MonitorEnter
  PROVE  Base'
<1>1. HasFrame /\ UNCHANGED <<threads, current, stack>> /\ vm' = "running"
  BY MonitorEnterFacts
<1>2. threads' \in Seq(Threads) /\ current' \in Threads \cup {NoThread} /\ TopAddr \in Addr
  BY <1>1, TopFacts DEF Base, TypeOK
<1>3. ASSUME NEW o \in Objects, CanLock(o), Lock(o), UNCHANGED notify,
             NEW owned \in SUBSET Objects,
             frame' = [frame EXCEPT ![TopAddr] = EnteredFrame(owned)],
             EnteredFrame(owned) \in Frame,
             EnteredFrame(owned).method = TopFrame.method,
             EnteredFrame(owned).pc = TopFrame.pc
      PROVE  Base'
  <2>1. monitor' \in [Objects -> MinMonitor..MaxMonitor] /\ notify' \in [Objects -> SUBSET Addr]
    BY <1>3, LockTyping DEF Base, TypeOK
  <2> QED
    BY <1>1, <1>2, <1>3, <2>1, TopPc, UpdateTopBase
<1>4. ASSUME NEW o \in Objects, Wait(o, TopAddr), UNCHANGED monitor,
             frame' = [frame EXCEPT ![TopAddr] = BlockedFrame(o)]
      PROVE  Base'
  <2>1. monitor' \in [Objects -> MinMonitor..MaxMonitor] /\ notify' \in [Objects -> SUBSET Addr]
    BY <1>2, <1>4, WaitTyping DEF Base, TypeOK
  <2> QED
    BY <1>1, <1>2, <1>4, <2>1, BlockedFrameFacts, TopPc, UpdateTopBase
<1> QED
  BY <1>3, <1>4, MonitorEnterFacts

\* MonitorExit counts down; the frames are those of notify when it reaches zero.
LEMMA MonitorExitFacts ==
  ASSUME Base, MonitorExit
  PROVE  /\ UNCHANGED <<threads, current, stack, notify>>
         /\ vm' \in {"running", "aborted"}
         /\ \E o \in Objects :
              /\ monitor' = [monitor EXCEPT ![o] = Decremented(@)]
              /\ \/ monitor[o] = 1 /\ frame' = Notified(o)
                 \/ monitor[o] # 1 /\ frame' = frame
<1>1. At("monitorexit") /\ Instr.obj # Null
  BY DEF MonitorExit
<1>2. PICK o \in Objects : o = Instr.obj
  BY <1>1, InstrFacts DEF Instruction
<1>3. /\ monitor' = [monitor EXCEPT ![o] = Decremented(@)]
      /\ \/ monitor[o] = 1 /\ frame' = Notified(o) /\ vm' \in NotifyOutcomes(o)
         \/ monitor[o] # 1 /\ vm' = "running" /\ frame' = frame
      /\ UNCHANGED <<threads, current, stack, notify>>
  BY <1>2 DEF MonitorExit
<1>4. NotifyOutcomes(o) \subseteq {"running", "aborted"}
  BY NotifiedFacts DEF Base
<1> QED
  BY <1>3, <1>4

LEMMA MonitorExitBase ==
  ASSUME Base, MonitorExit
  PROVE  Base'
<1>1. /\ UNCHANGED <<threads, current, stack, notify>>
      /\ vm' \in {"running", "aborted"}
  BY MonitorExitFacts
<1>2. PICK o \in Objects :
        /\ monitor' = [monitor EXCEPT ![o] = Decremented(@)]
        /\ \/ monitor[o] = 1 /\ frame' = Notified(o)
           \/ monitor[o] # 1 /\ frame' = frame
  BY MonitorExitFacts
<1>3. monitor' \in [Objects -> MinMonitor..MaxMonitor]
  BY <1>2, DecrementTyping DEF Base, TypeOK
<1>4. SetupOK'
  BY <1>1 DEF SetupOK
<1>5. CASE frame' = Notified(o)
  <2>1. /\ frame' \in [Addr -> Frame \cup {Freed}]
        /\ \A a \in Addr : Live(a)' <=> Live(a)
        /\ \A a \in Addr : Live(a) => /\ frame'[a].method = frame[a].method
                                    /\ frame'[a].pc = frame[a].pc
    BY <1>5, NotifiedFacts DEF Base, Live
  <2>2. FramesOnOneStack'
    BY <1>1, <2>1, SameLive
  <2>3. PcInCode'
    BY <2>1 DEF Base, PcInCode
  <2> QED
    BY <1>1, <1>3, <1>4, <2>1, <2>2, <2>3 DEF Base, TypeOK
<1>6. CASE frame' = frame
  BY <1>1, <1>3, <1>4, <1>6, FramesUnchangedBase DEF Base, TypeOK
<1> QED
  BY <1>2, <1>5, <1>6

-----------------------------------------------------------------------------
(* Base is inductive: calls and returns *)

LEMMA PushOwnership ==
  ASSUME Base, NEW t \in Threads, NEW b \in Addr, ~Live(b),
         stack' = [stack EXCEPT ![t] = Append(@, b)],
         \A a \in Addr : Live(a)' <=> a = b \/ Live(a)
  PROVE  FramesOnOneStack'
<1> DEFINE n == Len(stack[t])
<1>1. \A u \in Threads : stack[u] \in Seq(Addr)
  BY DEF Base, TypeOK
<1>2. /\ stack'[t] = Append(stack[t], b)
      /\ \A u \in Threads : u # t => stack'[u] = stack[u]
  BY DEF Base, TypeOK
<1>3. /\ n \in Nat
      /\ DOMAIN stack[t] = 1..n
      /\ DOMAIN stack'[t] = 1..(n + 1)
      /\ stack'[t][n + 1] = b
      /\ \A i \in 1..n : stack'[t][i] = stack[t][i]
  BY <1>1, <1>2
<1>4. \A u \in Threads : \A i \in DOMAIN stack[u] :
        stack[u][i] \in Addr /\ Live(stack[u][i]) /\ stack[u][i] # b
  BY <1>1 DEF Base, FramesOnOneStack
<1>5. \A u \in Threads : \A i \in DOMAIN stack'[u] : frame'[stack'[u][i]] # Freed
  <2> SUFFICES ASSUME NEW u \in Threads, NEW i \in DOMAIN stack'[u]
               PROVE  frame'[stack'[u][i]] # Freed
    OBVIOUS
  <2>1. CASE u = t /\ i = n + 1
    BY <1>3, <2>1 DEF Live
  <2>2. CASE ~(u = t /\ i = n + 1)
    <3>1. i \in DOMAIN stack[u] /\ stack'[u][i] = stack[u][i]
      BY <1>2, <1>3, <2>2
    <3> QED
      BY <1>4, <3>1 DEF Live
  <2> QED
    BY <2>1, <2>2
<1>6. \A u, v \in Threads : \A i \in DOMAIN stack'[u], j \in DOMAIN stack'[v] :
        stack'[u][i] = stack'[v][j] => u = v /\ i = j
  <2> SUFFICES ASSUME NEW u \in Threads, NEW v \in Threads,
                      NEW i \in DOMAIN stack'[u], NEW j \in DOMAIN stack'[v],
                      stack'[u][i] = stack'[v][j]
               PROVE  u = v /\ i = j
    OBVIOUS
  <2>1. \/ u = t /\ i = n + 1 /\ stack'[u][i] = b
        \/ i \in DOMAIN stack[u] /\ stack'[u][i] = stack[u][i]
    BY <1>2, <1>3
  <2>2. \/ v = t /\ j = n + 1 /\ stack'[v][j] = b
        \/ j \in DOMAIN stack[v] /\ stack'[v][j] = stack[v][j]
    BY <1>2, <1>3
  <2> QED
    BY <1>4, <2>1, <2>2 DEF Base, FramesOnOneStack
<1> QED
  BY <1>5, <1>6 DEF FramesOnOneStack, Live

LEMMA PopOwnership ==
  ASSUME Base, HasFrame, PopFrame,
         \A a \in Addr : Live(a)' <=> Live(a) /\ a # TopAddr
  PROVE  FramesOnOneStack'
<1> DEFINE n == Len(stack[current])
<1>1. /\ current \in Threads
      /\ n \in Nat \ {0}
      /\ TopAddr = stack[current][n]
      /\ \A u \in Threads : stack[u] \in Seq(Addr)
  BY TopFacts DEF Base, TypeOK
<1>2. /\ stack'[current] = SubSeq(stack[current], 1, n - 1)
      /\ \A u \in Threads : u # current => stack'[u] = stack[u]
  BY <1>1 DEF PopFrame, Front, Base, TypeOK
<1>3. /\ DOMAIN stack[current] = 1..n
      /\ DOMAIN stack'[current] = 1..(n - 1)
      /\ \A i \in 1..(n - 1) : stack'[current][i] = stack[current][i]
  BY <1>1, <1>2
<1>4. \A u \in Threads : \A i \in DOMAIN stack'[u] :
        /\ i \in DOMAIN stack[u]
        /\ stack'[u][i] = stack[u][i]
        /\ u = current => i # n
  <2> SUFFICES ASSUME NEW u \in Threads, NEW i \in DOMAIN stack'[u]
               PROVE  /\ i \in DOMAIN stack[u]
                      /\ stack'[u][i] = stack[u][i]
                      /\ u = current => i # n
    OBVIOUS
  <2>1. CASE u = current
    <3>1. i \in 1..(n - 1)
      BY <1>3, <2>1
    <3>2. i \in 1..n /\ i # n
      BY <1>1, <3>1
    <3> QED
      BY <1>3, <2>1, <3>1, <3>2
  <2>2. CASE u # current
    BY <1>2, <2>2
  <2> QED
    BY <2>1, <2>2
<1>5. \A u \in Threads : \A i \in DOMAIN stack'[u] : stack'[u][i] # TopAddr
  BY <1>1, <1>3, <1>4 DEF Base, FramesOnOneStack
<1>6. \A u \in Threads : \A i \in DOMAIN stack'[u] : frame'[stack'[u][i]] # Freed
  <2> SUFFICES ASSUME NEW u \in Threads, NEW i \in DOMAIN stack'[u]
               PROVE  frame'[stack'[u][i]] # Freed
    OBVIOUS
  <2>1. stack'[u][i] \in Addr /\ Live(stack'[u][i])
    BY <1>1, <1>4 DEF Base, FramesOnOneStack, Live
  <2> QED
    BY <1>5, <2>1 DEF Live
<1>7. \A u, v \in Threads : \A i \in DOMAIN stack'[u], j \in DOMAIN stack'[v] :
        stack'[u][i] = stack'[v][j] => u = v /\ i = j
  BY <1>4 DEF Base, FramesOnOneStack
<1> QED
  BY <1>6, <1>7 DEF FramesOnOneStack, Live

\* The three ways of pushNewFrame, and what they have in common.
LEMMA InvokeFacts ==
  ASSUME Base, NEW b \in Addr, Invoke(b)
  PROVE  /\ HasFrame
         /\ ~TopFrame.lock /\ TopFrame.waitingObj = Null
         /\ b # TopAddr /\ ~Live(b)
         /\ stack' = [stack EXCEPT ![current] = Append(@, b)]
         /\ UNCHANGED <<threads, current>> /\ vm' = "running"
         /\ TopFrame.pc + 1 \in Nat
         /\ TopFrame.pc + 1 < Len(Code[TopFrame.method])
         /\ frame' \in [Addr -> Frame \cup {Freed}]
         /\ frame'[TopAddr] = AtPc(TopFrame.pc + 1)
         /\ \A a \in Addr \ {b, TopAddr} : frame'[a] = frame[a]
         /\ frame'[b] \in Frame
         /\ frame'[b].method \in Methods \ AbstractMethods
         /\ frame'[b].pc = 0
         /\ \/ /\ frame'[b].method \notin SyncMethods
               /\ ~frame'[b].lock
               /\ frame'[b].waitingObj = Null
               /\ UNCHANGED <<monitor, notify>>
            \/ \E o \in Objects :
                 /\ frame'[b].method \in SyncMethods
                 /\ frame'[b].lv0 = o
                 /\ \/ /\ CanLock(o) /\ Lock(o)
                       /\ ~frame'[b].lock
                       /\ frame'[b].waitingObj = Null
                       /\ UNCHANGED notify
                    \/ /\ monitor[o] # 0
                       /\ Wait(o, b)
                       /\ frame'[b].lock
                       /\ frame'[b].waitingObj = o
                       /\ UNCHANGED monitor
<1>1. At("invoke") /\ ~Live(b)
  BY DEF Invoke
<1>2. TopFrame \in Frame /\ TopAddr \in Addr /\ Live(TopAddr) /\ HasFrame
  BY <1>1, InstrFacts, TopFacts DEF Base
<1>3. b # TopAddr
  BY <1>1, <1>2
<1>4. TopFrame.pc + 1 \in Nat /\ TopFrame.pc + 1 < Len(Code[TopFrame.method])
  BY <1>1, InstrFacts
<1>5. PICK o \in Objects \cup {Null}, m \in Methods \ AbstractMethods :
        o = Instr.obj /\ m = Instr.method
  BY <1>1, InstrFacts DEF Instruction, Invoke
<1>6. ASSUME NEW new \in Frame, frame' = Pushed(b, new)
      PROVE  /\ frame' \in [Addr -> Frame \cup {Freed}]
             /\ frame'[TopAddr] = AtPc(TopFrame.pc + 1)
             /\ \A a \in Addr \ {b, TopAddr} : frame'[a] = frame[a]
             /\ frame'[b] = new
  <2>1. AtPc(TopFrame.pc + 1) \in Frame
    BY <1>2, <1>4, AtPcFacts
  <2>2. Pushed(b, new) =
          [[frame EXCEPT ![TopAddr] = AtPc(TopFrame.pc + 1)] EXCEPT ![b] = new]
    BY <1>2, <1>3 DEF Pushed, AtPc, TopFrame, Base, TypeOK
  <2> QED
    BY <1>2, <1>3, <1>6, <2>1, <2>2 DEF Base, TypeOK
<1> DEFINE new == NewFrame(m, o)
           blocked == [new EXCEPT !.lock = TRUE, !.waitingObj = o]
<1>7. /\ new \in Frame
      /\ new.method = m /\ new.pc = 0 /\ new.lv0 = o
      /\ new.lock = FALSE /\ new.waitingObj = Null
  BY DEF NewFrame, Frame
<1>8. /\ blocked \in Frame
      /\ blocked.method = m /\ blocked.pc = 0 /\ blocked.lv0 = o
      /\ blocked.lock = TRUE /\ blocked.waitingObj = o
  BY DEF NewFrame, Frame
<1>9. \/ /\ m \notin SyncMethods
         /\ frame' = Pushed(b, new)
         /\ UNCHANGED <<monitor, notify>>
      \/ /\ m \in SyncMethods /\ o \in Objects
         /\ CanLock(o) /\ Lock(o)
         /\ frame' = Pushed(b, new)
         /\ UNCHANGED notify
      \/ /\ m \in SyncMethods /\ o \in Objects
         /\ monitor[o] # 0
         /\ frame' = Pushed(b, blocked)
         /\ Wait(o, b)
         /\ UNCHANGED monitor
  BY <1>5 DEF Invoke, CanLock
<1>10. /\ stack' = [stack EXCEPT ![current] = Append(@, b)]
       /\ UNCHANGED <<threads, current>> /\ vm' = "running"
       /\ ~TopFrame.lock /\ TopFrame.waitingObj = Null
  BY <1>1 DEF Invoke, At, CanExecute
<1> HIDE DEF new, blocked
<1>11. CASE frame' = Pushed(b, new) /\ m \notin SyncMethods /\ UNCHANGED <<monitor, notify>>
  BY <1>1, <1>2, <1>3, <1>4, <1>6, <1>7, <1>10, <1>11
<1>12. CASE /\ frame' = Pushed(b, new) /\ m \in SyncMethods /\ o \in Objects
            /\ CanLock(o) /\ Lock(o) /\ UNCHANGED notify
  BY <1>1, <1>2, <1>3, <1>4, <1>6, <1>7, <1>10, <1>12
<1>13. CASE /\ frame' = Pushed(b, blocked) /\ m \in SyncMethods /\ o \in Objects
            /\ monitor[o] # 0 /\ Wait(o, b) /\ UNCHANGED monitor
  BY <1>1, <1>2, <1>3, <1>4, <1>6, <1>8, <1>10, <1>13
<1> QED
  BY <1>9, <1>11, <1>12, <1>13

LEMMA InvokeBase ==
  ASSUME Base, NEW b \in Addr, Invoke(b)
  PROVE  Base'
<1>1. /\ HasFrame
      /\ b # TopAddr /\ ~Live(b)
      /\ stack' = [stack EXCEPT ![current] = Append(@, b)]
      /\ UNCHANGED <<threads, current>> /\ vm' = "running"
  BY InvokeFacts
<1>2. /\ TopFrame.pc + 1 \in Nat
      /\ TopFrame.pc + 1 < Len(Code[TopFrame.method])
      /\ frame' \in [Addr -> Frame \cup {Freed}]
      /\ frame'[TopAddr] = AtPc(TopFrame.pc + 1)
      /\ \A a \in Addr \ {b, TopAddr} : frame'[a] = frame[a]
      /\ frame'[b] \in Frame
      /\ frame'[b].method \in Methods \ AbstractMethods
      /\ frame'[b].pc = 0
  BY InvokeFacts
<1>3. /\ current \in Threads /\ TopAddr \in Addr /\ Live(TopAddr)
      /\ AtPc(TopFrame.pc + 1) \in Frame
      /\ AtPc(TopFrame.pc + 1).method = TopFrame.method
      /\ AtPc(TopFrame.pc + 1).pc = TopFrame.pc + 1
  BY <1>1, <1>2, TopFacts, AtPcFacts DEF Base
<1>4. \A a \in Addr : Live(a)' <=> a = b \/ Live(a)
  BY <1>2, <1>3, FreedAssumption DEF Live
<1>5. FramesOnOneStack'
  BY <1>1, <1>3, <1>4, PushOwnership
<1>6. PcInCode'
  <2> SUFFICES ASSUME NEW a \in Addr, Live(a)', frame'[a].method \notin NativeMethods
               PROVE  frame'[a].pc < Len(Code[frame'[a].method])
    BY DEF PcInCode
  <2>1. CASE a = b
    <3>1. Code[frame'[b].method] \in Seq(Instruction) /\ Code[frame'[b].method] # <<>>
      BY <1>2, <2>1, CodeAssumption
    <3> QED
      BY <1>2, <2>1, <3>1
  <2>2. CASE a = TopAddr
    BY <1>2, <1>3, <2>2
  <2>3. CASE a \notin {b, TopAddr}
    BY <1>2, <1>4, <2>3 DEF Base, PcInCode
  <2> QED
    BY <2>1, <2>2, <2>3
<1>7. monitor' \in [Objects -> MinMonitor..MaxMonitor] /\ notify' \in [Objects -> SUBSET Addr]
  <2>1. CASE UNCHANGED <<monitor, notify>>
    BY <2>1 DEF Base, TypeOK
  <2>2. ASSUME NEW o \in Objects, CanLock(o), Lock(o), UNCHANGED notify
        PROVE  monitor' \in [Objects -> MinMonitor..MaxMonitor] /\ notify' \in [Objects -> SUBSET Addr]
    BY <2>2, LockTyping DEF Base, TypeOK
  <2>3. ASSUME NEW o \in Objects, Wait(o, b), UNCHANGED monitor
        PROVE  monitor' \in [Objects -> MinMonitor..MaxMonitor] /\ notify' \in [Objects -> SUBSET Addr]
    BY <2>3, WaitTyping DEF Base, TypeOK
  <2> QED
    BY <2>1, <2>2, <2>3, InvokeFacts
<1>8. TypeOK'
  <2>1. stack' \in [Threads -> Seq(Addr)]
    BY <1>1, <1>3 DEF Base, TypeOK
  <2> QED
    BY <1>1, <1>2, <1>7, <2>1 DEF Base, TypeOK
<1>9. SetupOK'
  BY <1>1 DEF SetupOK
<1> QED
  BY <1>5, <1>6, <1>8, <1>9 DEF Base

\* The end of a method: its frame is gone, the others keep everything but a lock
\* that the release of its object may have cleared.
LEMMA MethodDoneFacts ==
  ASSUME Base, Return \/ AthrowUncaught
  PROVE  /\ HasFrame
         /\ ~TopFrame.lock /\ TopFrame.waitingObj = Null
         /\ PopFrame
         /\ UNCHANGED <<threads, current, notify>>
         /\ vm' \in {"running", "aborted"}
         /\ frame' \in [Addr -> Frame \cup {Freed}]
         /\ \A a \in Addr : Live(a)' <=> Live(a) /\ a # TopAddr
         /\ \A a \in Addr \ {TopAddr} : Live(a) =>
              /\ frame'[a].method = frame[a].method
              /\ frame'[a].pc = frame[a].pc
              /\ frame'[a].lv0 = frame[a].lv0
              /\ frame'[a].waitingObj = frame[a].waitingObj
              /\ frame'[a].lock => frame[a].lock
         /\ \/ /\ ~IsSync(TopAddr)
               /\ UNCHANGED monitor
            \/ /\ IsSync(TopAddr)
               /\ TopFrame.lv0 \in Objects
               /\ monitor' = [monitor EXCEPT ![TopFrame.lv0] = Decremented(@)]
               /\ \A a \in notify[TopFrame.lv0] : Live(a)' => ~frame'[a].lock
<1>1. /\ HasFrame
      /\ ~TopFrame.lock /\ TopFrame.waitingObj = Null
      /\ MethodDone
  BY DEF Return, AthrowUncaught, At, CanExecute
<1>2. TopFrame \in Frame /\ TopAddr \in Addr /\ Live(TopAddr)
  BY <1>1, TopFacts DEF Base
<1>3. PopFrame /\ UNCHANGED <<threads, current, notify>>
  BY <1>1 DEF MethodDone
<1>4. CASE ~IsSync(TopAddr)
  <2>1. frame' = [frame EXCEPT ![TopAddr] = Freed] /\ vm' = "running" /\ UNCHANGED monitor
    BY <1>1, <1>4 DEF MethodDone
  <2>2. frame' \in [Addr -> Frame \cup {Freed}]
    BY <2>1 DEF Base, TypeOK
  <2>3. \A a \in Addr : Live(a)' <=> Live(a) /\ a # TopAddr
    BY <1>2, <2>1 DEF Live, Base, TypeOK
  <2>4. \A a \in Addr \ {TopAddr} : frame'[a] = frame[a]
    BY <2>1 DEF Base, TypeOK
  <2> QED
    BY <1>1, <1>3, <1>4, <2>1, <2>2, <2>3, <2>4
<1>5. CASE IsSync(TopAddr)
  <2>1. PICK o \in Objects : o = TopFrame.lv0
    BY <1>1, <1>2, <1>5 DEF MethodDone, Frame
  <2>2. /\ frame' = [Notified(o) EXCEPT ![TopAddr] = Freed]
        /\ vm' \in NotifyOutcomes(o)
        /\ monitor' = [monitor EXCEPT ![o] = Decremented(@)]
    BY <1>1, <1>5, <2>1 DEF MethodDone
  <2>3. Notified(o) \in [Addr -> Frame \cup {Freed}]
    BY NotifiedFacts DEF Base
  <2>4. /\ frame' \in [Addr -> Frame \cup {Freed}]
        /\ frame'[TopAddr] = Freed
        /\ \A a \in Addr \ {TopAddr} : frame'[a] = Notified(o)[a]
    BY <1>2, <2>2, <2>3
  <2>5. \A a \in Addr : Live(a)' <=> Live(a) /\ a # TopAddr
    BY <2>4, NotifiedFacts DEF Base, Live
  <2>6. \A a \in Addr \ {TopAddr} : Live(a) =>
          /\ frame'[a].method = frame[a].method
          /\ frame'[a].pc = frame[a].pc
          /\ frame'[a].lv0 = frame[a].lv0
          /\ frame'[a].waitingObj = frame[a].waitingObj
          /\ frame'[a].lock => frame[a].lock /\ a \notin notify[o]
    BY <2>4, NotifiedFacts DEF Base
  <2>7. \A a \in notify[o] : Live(a)' => ~frame'[a].lock
    <3>1. notify[o] \subseteq Addr
      BY DEF Base, TypeOK
    <3> QED
      BY <2>5, <2>6, <3>1
  <2>8. vm' \in {"running", "aborted"}
    BY <2>2, NotifiedFacts DEF Base
  <2> QED
    BY <1>1, <1>3, <1>5, <2>1, <2>2, <2>4, <2>5, <2>6, <2>7, <2>8
<1> QED
  BY <1>4, <1>5

LEMMA MethodDoneBase ==
  ASSUME Base, Return \/ AthrowUncaught
  PROVE  Base'
<1>1. /\ HasFrame /\ PopFrame
      /\ UNCHANGED <<threads, current, notify>>
      /\ vm' \in {"running", "aborted"}
      /\ frame' \in [Addr -> Frame \cup {Freed}]
      /\ \A a \in Addr : Live(a)' <=> Live(a) /\ a # TopAddr
      /\ \A a \in Addr \ {TopAddr} : Live(a) => /\ frame'[a].method = frame[a].method
                                               /\ frame'[a].pc = frame[a].pc
  BY MethodDoneFacts
<1>2. FramesOnOneStack'
  BY <1>1, PopOwnership
<1>3. PcInCode'
  BY <1>1 DEF Base, PcInCode
<1>4. current \in Threads /\ stack[current] \in Seq(Addr) /\ Len(stack[current]) \in Nat \ {0}
  BY <1>1, TopFacts DEF Base, TypeOK
<1>5. Front(stack[current]) \in Seq(Addr)
  BY <1>4 DEF Front
<1>6. stack' \in [Threads -> Seq(Addr)]
  BY <1>1, <1>4, <1>5 DEF PopFrame, Base, TypeOK
<1>7. monitor' \in [Objects -> MinMonitor..MaxMonitor]
  BY MethodDoneFacts, DecrementTyping DEF Base, TypeOK
<1>8. SetupOK'
  BY <1>1 DEF SetupOK
<1> QED
  BY <1>1, <1>2, <1>3, <1>6, <1>7, <1>8 DEF Base, TypeOK

LEMMA BaseStep ==
  ASSUME Base, [Next]_vars
  PROVE  Base'
<1>1. CASE UNCHANGED vars
  BY <1>1 DEF vars, Base, TypeOK, PcInCode, FramesOnOneStack, SetupOK, Live
<1>2. ASSUME NEW t \in Threads, NEW a \in Addr, NEW m \in EntryMethods,
             AddNewThread(t, a, m)
      PROVE  Base'
  BY <1>2, AddNewThreadBase
<1>3. CASE ExecThreads \/ PopThread \/ PopNothing \/ SliceExpires \/ Yield \/ Drop \/ Abort
  BY <1>3, SchedulerBase
<1>4. CASE Acquire \/ Rewait
  BY <1>4, CheckFrameBase
<1>5. CASE NextInstruction \/ Branch
  BY <1>5, GotoBase
<1>6. CASE Store0 \/ AthrowCaught
  BY <1>6, LocalBase
<1>7. ASSUME NEW b \in Addr, Invoke(b)
      PROVE  Base'
  BY <1>7, InvokeBase
<1>8. CASE Return \/ AthrowUncaught
  BY <1>8, MethodDoneBase
<1>9. CASE MonitorEnter
  BY <1>9, MonitorEnterBase
<1>10. CASE MonitorExit
  BY <1>10, MonitorExitBase
<1> QED
  BY <1>1, <1>2, <1>3, <1>4, <1>5, <1>6, <1>7, <1>8, <1>9, <1>10
  DEF Next, CheckFrame, Execute

-----------------------------------------------------------------------------
(* No frame is lost *)

\* What a step does to the stacks and to the live frames.
KeepsFrames ==
  /\ UNCHANGED stack
  /\ \A a \in Addr : Live(a)' <=> Live(a)

PushesFrame(t, b) ==
  /\ ~Live(b)
  /\ stack' = [stack EXCEPT ![t] = Append(@, b)]
  /\ \A a \in Addr : Live(a)' <=> a = b \/ Live(a)

PopsFrame ==
  /\ HasFrame
  /\ PopFrame
  /\ \A a \in Addr : Live(a)' <=> Live(a) /\ a # TopAddr

LEMMA FrameStep ==
  ASSUME Base, [Next]_vars
  PROVE  \/ KeepsFrames
         \/ PopsFrame
         \/ \E t \in Threads, b \in Addr :
              PushesFrame(t, b) /\ (vm = "setup" \/ (HasFrame /\ t = current))
<1>1. CASE UNCHANGED vars
  BY <1>1 DEF vars, KeepsFrames, Live
<1>2. CASE ExecThreads \/ PopThread \/ PopNothing \/ SliceExpires \/ Yield \/ Drop \/ Abort
  BY <1>2 DEF KeepsFrames, Live,
     ExecThreads, PopThread, PopNothing, SliceExpires, Yield, Drop, Abort, vars
<1>3. ASSUME NEW t \in Threads, NEW b \in Addr, NEW m \in EntryMethods,
             AddNewThread(t, b, m)
      PROVE  PushesFrame(t, b) /\ vm = "setup"
  <2>1. /\ frame' = [frame EXCEPT ![b] = NewFrame(m, Null)]
        /\ stack' = [stack EXCEPT ![t] = <<b>>]
        /\ vm = "setup" /\ t \notin ToSet(threads) /\ ~Live(b)
    BY <1>3 DEF AddNewThread
  <2>2. stack[t] = <<>>
    BY <2>1 DEF Base, SetupOK
  <2>3. Append(stack[t], b) = <<b>>
    BY <2>2
  <2>4. NewFrame(m, Null) \in Frame
    BY MethodsAssumption DEF NewFrame, Frame
  <2>5. \A a \in Addr : Live(a)' <=> a = b \/ Live(a)
    BY <2>1, <2>4, FreedAssumption DEF Live, Base, TypeOK
  <2> QED
    BY <2>1, <2>3, <2>5 DEF PushesFrame, Base, TypeOK
<1>4. ASSUME NEW f \in Frame, HasFrame, UNCHANGED stack,
             frame' = [frame EXCEPT ![TopAddr] = f]
      PROVE  KeepsFrames
  BY <1>4, TopFacts, FreedAssumption DEF KeepsFrames, Live, Base, TypeOK
<1>5. CASE Acquire \/ Rewait
  <2>1. UNCHANGED stack
    BY <1>5 DEF Acquire, Rewait
  <2> QED
    BY <1>4, <1>5, <2>1, AcquireFacts, RewaitFacts, BlockedFrameFacts
<1>6. CASE NextInstruction \/ Branch
  <2>1. UNCHANGED stack
    BY <1>6 DEF NextInstruction, Branch, Goto
  <2> QED
    BY <1>4, <1>6, <2>1, GotoFacts, AtPcFacts
<1>7. CASE Store0 \/ AthrowCaught
  <2>1. UNCHANGED stack
    BY <1>7 DEF Store0, AthrowCaught
  <2> QED
    BY <1>4, <1>7, <2>1, Store0Facts, AthrowCaughtFacts
<1>8. CASE MonitorEnter
  BY <1>4, <1>8, MonitorEnterFacts, BlockedFrameFacts
<1>9. CASE MonitorExit
  <2>1. UNCHANGED stack
    BY <1>9, MonitorExitFacts
  <2>2. PICK o \in Objects : frame' = Notified(o) \/ frame' = frame
    BY <1>9, MonitorExitFacts
  <2> QED
    BY <2>1, <2>2, NotifiedFacts DEF KeepsFrames, Live, Base
<1>10. ASSUME NEW b \in Addr, Invoke(b)
       PROVE  PushesFrame(current, b) /\ HasFrame /\ current \in Threads
  <2>1. /\ HasFrame /\ ~Live(b) /\ b # TopAddr
        /\ stack' = [stack EXCEPT ![current] = Append(@, b)]
        /\ TopFrame.pc + 1 \in Nat
        /\ frame'[TopAddr] = AtPc(TopFrame.pc + 1)
        /\ \A a \in Addr \ {b, TopAddr} : frame'[a] = frame[a]
        /\ frame'[b] \in Frame
    BY <1>10, InvokeFacts
  <2>2. current \in Threads /\ Live(TopAddr) /\ AtPc(TopFrame.pc + 1) \in Frame
    BY <2>1, TopFacts, AtPcFacts DEF Base
  <2>3. \A a \in Addr : Live(a)' <=> a = b \/ Live(a)
    BY <2>1, <2>2, FreedAssumption DEF Live
  <2> QED
    BY <2>1, <2>2, <2>3 DEF PushesFrame
<1>11. CASE Return \/ AthrowUncaught
  BY <1>11, MethodDoneFacts DEF PopsFrame
<1> QED
  BY <1>1, <1>2, <1>3, <1>5, <1>6, <1>7, <1>8, <1>9, <1>10, <1>11
  DEF Next, CheckFrame, Execute

LEMMA NoFrameLostStep ==
  ASSUME Base, NoFrameLost, [Next]_vars
  PROVE  NoFrameLost'
<1> SUFFICES ASSUME NEW a \in Addr, Live(a)'
             PROVE  \E u \in Threads : \E i \in DOMAIN stack'[u] : stack'[u][i] = a
  BY DEF NoFrameLost
<1>1. \A u \in Threads : stack[u] \in Seq(Addr)
  BY DEF Base, TypeOK
<1>2. CASE KeepsFrames
  BY <1>2 DEF KeepsFrames, NoFrameLost
<1>3. ASSUME NEW t \in Threads, NEW b \in Addr, PushesFrame(t, b)
      PROVE  \E u \in Threads : \E i \in DOMAIN stack'[u] : stack'[u][i] = a
  <2> DEFINE n == Len(stack[t])
  <2>1. /\ stack'[t] = Append(stack[t], b)
        /\ \A u \in Threads : u # t => stack'[u] = stack[u]
    BY <1>3 DEF PushesFrame, Base, TypeOK
  <2>2. /\ n + 1 \in DOMAIN stack'[t] /\ stack'[t][n + 1] = b
        /\ \A i \in DOMAIN stack[t] : i \in DOMAIN stack'[t] /\ stack'[t][i] = stack[t][i]
    BY <1>1, <2>1
  <2>3. CASE a = b
    BY <2>2, <2>3
  <2>4. CASE a # b
    <3>1. PICK u \in Threads : \E i \in DOMAIN stack[u] : stack[u][i] = a
      BY <1>3, <2>4 DEF PushesFrame, NoFrameLost
    <3> QED
      BY <2>1, <2>2, <3>1
  <2> QED
    BY <2>3, <2>4
<1>4. CASE PopsFrame
  <2> DEFINE n == Len(stack[current])
  <2>1. /\ current \in Threads
        /\ n \in Nat \ {0}
        /\ TopAddr = stack[current][n]
    BY <1>4, TopFacts DEF PopsFrame, Base
  <2>2. /\ stack'[current] = SubSeq(stack[current], 1, n - 1)
        /\ \A u \in Threads : u # current => stack'[u] = stack[u]
    BY <1>4, <2>1 DEF PopsFrame, PopFrame, Front, Base, TypeOK
  <2>3. PICK u \in Threads : \E i \in DOMAIN stack[u] : stack[u][i] = a
    BY <1>4 DEF PopsFrame, NoFrameLost
  <2>4. PICK i \in DOMAIN stack[u] : stack[u][i] = a
    BY <2>3
  <2>5. CASE u # current
    BY <2>2, <2>4, <2>5
  <2>6. CASE u = current
    <3>1. i \in 1..n /\ i # n
      BY <1>1, <1>4, <2>1, <2>4, <2>6 DEF PopsFrame
    <3>2. i \in 1..(n - 1)
      BY <2>1, <3>1
    <3>3. DOMAIN stack'[current] = 1..(n - 1) /\ stack'[current][i] = stack[current][i]
      BY <1>1, <2>1, <2>2, <3>2
    <3> QED
      BY <2>1, <2>4, <2>6, <3>2, <3>3
  <2> QED
    BY <2>5, <2>6
<1> QED
  BY <1>2, <1>3, <1>4, FrameStep

\* Every reachable state has its types, keeps each pc inside its method and each
\* frame on exactly one place of one stack: execThread never works on a deleted
\* frame and methodSDone deletes each frame once.
THEOREM BaseInvariant == Spec => []Base
<1>1. Base /\ [Next]_vars => Base'
  BY BaseStep
<1> QED
  BY BaseInit, <1>1, PTL DEF Spec

\* The variables have their types in every reachable state.
THEOREM TypeCorrect == Spec => []TypeOK
<1>1. Base => TypeOK
  BY DEF Base
<1> QED
  BY BaseInvariant, <1>1, PTL

\* The interpreter never fetches behind the code of a method.
THEOREM PcStaysInCode == Spec => []PcInCode
<1>1. Base => PcInCode
  BY DEF Base
<1> QED
  BY BaseInvariant, <1>1, PTL

\* Frames belong to exactly one stack, and are live while they do.
THEOREM FramesAreOwned == Spec => []FrameOwnership
<1>1. Init => NoFrameLost
  BY DEF Init, NoFrameLost, Live
<1>2. Base /\ NoFrameLost /\ [Next]_vars => NoFrameLost'
  BY NoFrameLostStep
<1>3. Base /\ NoFrameLost => FrameOwnership
  BY DEF Base, FrameOwnership
<1> QED
  BY BaseInvariant, <1>1, <1>2, <1>3, PTL DEF Spec

-----------------------------------------------------------------------------
(* Monitors: no wake-up is lost *)

\* The part of NoLostWakeup that is about one frame.
WakesUp(a) ==
  Live(a) /\ frame[a].lock =>
    /\ frame[a].waitingObj # Null
    /\ monitor[frame[a].waitingObj] # 0
    /\ a \in notify[frame[a].waitingObj]

\* A frame that was locked before, while taken objects stay taken and callbacks
\* stay registered.
LEMMA StillWakesUp ==
  ASSUME Base, NoLostWakeup, NEW a \in Addr,
         Live(a)' /\ frame'[a].lock =>
           Live(a) /\ frame[a].lock /\ frame'[a].waitingObj = frame[a].waitingObj,
         \A o \in Objects : monitor[o] # 0 => monitor'[o] # 0,
         \A o \in Objects : notify[o] \subseteq notify'[o]
  PROVE  WakesUp(a)'
<1>1. SUFFICES ASSUME Live(a)', frame'[a].lock
               PROVE  /\ frame'[a].waitingObj # Null
                      /\ monitor'[frame'[a].waitingObj] # 0
                      /\ a \in notify'[frame'[a].waitingObj]
  BY DEF WakesUp
<1>2. Live(a) /\ frame[a].lock /\ frame'[a].waitingObj = frame[a].waitingObj
  BY <1>1
<1>3. frame[a] \in Frame
  BY <1>2 DEF Base, TypeOK, Live
<1>4. /\ frame[a].waitingObj \in Objects
      /\ monitor[frame[a].waitingObj] # 0
      /\ a \in notify[frame[a].waitingObj]
  BY <1>2, <1>3 DEF NoLostWakeup, Frame
<1> QED
  BY <1>2, <1>4, NamesAssumption

LEMMA AllWakeUp == (\A a \in Addr : WakesUp(a)) <=> NoLostWakeup
BY DEF WakesUp, NoLostWakeup

\* A step that puts f into the top frame and changes no other frame.
LEMMA TopStepWakes ==
  ASSUME Base, NoLostWakeup, HasFrame, NEW f \in Frame,
         frame' = [frame EXCEPT ![TopAddr] = f],
         \/ ~f.lock
         \/ /\ f.waitingObj \in Objects
            /\ monitor'[f.waitingObj] # 0
            /\ TopAddr \in notify'[f.waitingObj],
         \A o \in Objects : monitor[o] # 0 => monitor'[o] # 0,
         \A o \in Objects : notify[o] \subseteq notify'[o]
  PROVE  NoLostWakeup'
<1>1. TopAddr \in Addr
  BY TopFacts DEF Base
<1>2. /\ frame'[TopAddr] = f
      /\ \A a \in Addr : a # TopAddr => frame'[a] = frame[a]
  BY <1>1 DEF Base, TypeOK
<1>3. ASSUME NEW a \in Addr, a = TopAddr
      PROVE  WakesUp(a)'
  BY <1>2, <1>3, NamesAssumption DEF WakesUp
<1>4. ASSUME NEW a \in Addr, a # TopAddr
      PROVE  WakesUp(a)'
  BY <1>2, <1>4, StillWakesUp DEF Live
<1> QED
  BY <1>2, <1>3, <1>4 DEF WakesUp, NoLostWakeup

LEMMA WakeupInit == Init => NoLostWakeup
BY DEF Init, NoLostWakeup, Live

LEMMA WakeupStep ==
  ASSUME Base, NoLostWakeup, [Next]_vars
  PROVE  NoLostWakeup'
<1>1. CASE UNCHANGED <<frame, monitor, notify>>
  BY <1>1 DEF NoLostWakeup, Live
<1>2. ASSUME NEW t \in Threads, NEW a \in Addr, NEW m \in EntryMethods,
             AddNewThread(t, a, m)
      PROVE  NoLostWakeup'
  <2>1. /\ frame' = [frame EXCEPT ![a] = NewFrame(m, Null)]
        /\ UNCHANGED <<monitor, notify>>
    BY <1>2 DEF AddNewThread
  <2>2. /\ ~frame'[a].lock
        /\ \A b \in Addr : b # a => frame'[b] = frame[b]
    BY <2>1 DEF NewFrame, Base, TypeOK
  <2> QED
    BY <2>1, <2>2 DEF NoLostWakeup, Live
<1>3. CASE Acquire
  <2>1. UNCHANGED notify /\ ~TopFrame.lock
    BY <1>3 DEF Acquire
  <2>2. \A o \in Objects : monitor[o] # 0 => monitor'[o] # 0
    BY <1>3, AcquireFacts, LockTyping DEF Base
  <2> QED
    BY <1>3, <2>1, <2>2, AcquireFacts, TopStepWakes
<1>4. CASE Rewait
  <2>1. UNCHANGED monitor
    BY <1>4 DEF Rewait
  <2>2. TopAddr \in Addr
    BY <1>4, RewaitFacts, TopFacts DEF Base
  <2>3. /\ TopAddr \in notify'[TopFrame.waitingObj]
        /\ \A o \in Objects : notify[o] \subseteq notify'[o]
    BY <1>4, <2>2, RewaitFacts, WaitTyping DEF Base
  <2> QED
    BY <1>4, <2>1, <2>3, RewaitFacts, BlockedFrameFacts, TopStepWakes
<1>5. CASE NextInstruction \/ Branch
  <2>1. PICK pc \in Nat : frame' = [frame EXCEPT ![TopAddr] = AtPc(pc)] /\ Goto(pc)
    BY <1>5, GotoFacts
  <2>2. UNCHANGED <<monitor, notify>>
    BY <2>1 DEF Goto
  <2> QED
    BY <1>5, <2>1, <2>2, GotoFacts, AtPcFacts, TopStepWakes
<1>6. CASE Store0
  <2>1. UNCHANGED <<monitor, notify>> /\ ~TopFrame.lock
    BY <1>6 DEF Store0, At, CanExecute
  <2> QED
    BY <1>6, <2>1, Store0Facts, TopStepWakes
<1>7. CASE AthrowCaught
  <2>1. UNCHANGED <<monitor, notify>>
    BY <1>7 DEF AthrowCaught
  <2> QED
    BY <1>7, <2>1, AthrowCaughtFacts, TopStepWakes
<1>8. CASE MonitorEnter
  <2>1. HasFrame /\ ~TopFrame.lock /\ TopAddr \in Addr
    BY <1>8, MonitorEnterFacts, TopFacts DEF Base
  <2>2. ASSUME NEW o \in Objects, CanLock(o), Lock(o), UNCHANGED notify,
               NEW owned \in SUBSET Objects,
               frame' = [frame EXCEPT ![TopAddr] = EnteredFrame(owned)],
               EnteredFrame(owned) \in Frame,
               EnteredFrame(owned).lock = TopFrame.lock
        PROVE  NoLostWakeup'
    <3>1. \A p \in Objects : monitor[p] # 0 => monitor'[p] # 0
      BY <2>2, LockTyping DEF Base
    <3> QED
      BY <2>1, <2>2, <3>1, TopStepWakes
  <2>3. ASSUME NEW o \in Objects, monitor[o] # 0, Wait(o, TopAddr), UNCHANGED monitor,
               frame' = [frame EXCEPT ![TopAddr] = BlockedFrame(o)]
        PROVE  NoLostWakeup'
    <3>1. /\ TopAddr \in notify'[o]
          /\ \A p \in Objects : notify[p] \subseteq notify'[p]
      BY <2>1, <2>3, WaitTyping DEF Base
    <3> QED
      BY <2>1, <2>3, <3>1, BlockedFrameFacts, TopStepWakes
  <2> QED
    BY <1>8, <2>2, <2>3, MonitorEnterFacts
<1>9. CASE MonitorExit
  <2>1. PICK o \in Objects :
          /\ monitor' = [monitor EXCEPT ![o] = Decremented(@)]
          /\ \/ monitor[o] = 1 /\ frame' = Notified(o)
             \/ monitor[o] # 1 /\ frame' = frame
    BY <1>9, MonitorExitFacts
  <2>2. UNCHANGED notify
    BY <1>9, MonitorExitFacts
  <2>3. /\ monitor[o] # 1 => monitor'[o] # 0
        /\ \A p \in Objects : p # o => monitor'[p] = monitor[p]
    BY <2>1, DecrementTyping DEF Base
  <2>4. CASE monitor[o] # 1 /\ frame' = frame
    <3>1. \A p \in Objects : monitor[p] # 0 => monitor'[p] # 0
      BY <2>3, <2>4
    <3>2. \A a \in Addr : WakesUp(a)'
      BY <2>2, <2>4, <3>1, StillWakesUp DEF Live
    <3> QED
      BY <3>2 DEF WakesUp, NoLostWakeup
  <2>5. CASE monitor[o] = 1 /\ frame' = Notified(o)
    <3> SUFFICES ASSUME NEW a \in Addr, Live(a)', frame'[a].lock
                 PROVE  /\ frame'[a].waitingObj # Null
                        /\ monitor'[frame'[a].waitingObj] # 0
                        /\ a \in notify'[frame'[a].waitingObj]
      BY DEF NoLostWakeup
    <3>1. Live(a) /\ frame[a] \in Frame
      BY <2>5, NotifiedFacts DEF Base, TypeOK, Live
    <3>2. /\ frame'[a].waitingObj = frame[a].waitingObj
          /\ frame[a].lock /\ a \notin notify[o]
      BY <2>5, <3>1, NotifiedFacts DEF Base
    <3>3. /\ frame[a].waitingObj \in Objects
          /\ monitor[frame[a].waitingObj] # 0
          /\ a \in notify[frame[a].waitingObj]
      BY <3>1, <3>2 DEF NoLostWakeup, Frame
    <3>4. frame[a].waitingObj # o
      BY <3>2, <3>3
    <3> QED
      BY <2>2, <2>3, <3>2, <3>3, <3>4, NamesAssumption
  <2> QED
    BY <2>1, <2>4, <2>5
<1>10. ASSUME NEW b \in Addr, Invoke(b)
       PROVE  NoLostWakeup'
  <2>1. /\ HasFrame /\ ~TopFrame.lock
        /\ TopFrame.pc + 1 \in Nat
        /\ frame'[TopAddr] = AtPc(TopFrame.pc + 1)
        /\ \A a \in Addr \ {b, TopAddr} : frame'[a] = frame[a]
        /\ frame'[b] \in Frame
    BY <1>10, InvokeFacts
  <2>2. /\ TopAddr \in Addr
        /\ ~frame'[TopAddr].lock
    BY <2>1, TopFacts, AtPcFacts DEF Base
  <2>3. ASSUME \A o \in Objects : monitor[o] # 0 => monitor'[o] # 0,
               \A o \in Objects : notify[o] \subseteq notify'[o],
               WakesUp(b)'
        PROVE  NoLostWakeup'
    <3>1. ASSUME NEW a \in Addr, a = TopAddr
          PROVE  WakesUp(a)'
      BY <2>2, <3>1 DEF WakesUp
    <3>2. ASSUME NEW a \in Addr \ {b, TopAddr}
          PROVE  WakesUp(a)'
      BY <2>1, <2>3, <3>2, StillWakesUp DEF Live
    <3> QED
      BY <2>3, <3>1, <3>2 DEF WakesUp, NoLostWakeup
  <2>4. CASE ~frame'[b].lock /\ UNCHANGED <<monitor, notify>>
    BY <2>3, <2>4 DEF WakesUp
  <2>5. ASSUME NEW o \in Objects, CanLock(o), Lock(o), ~frame'[b].lock, UNCHANGED notify
        PROVE  NoLostWakeup'
    <3>1. \A p \in Objects : monitor[p] # 0 => monitor'[p] # 0
      BY <2>5, LockTyping DEF Base
    <3> QED
      BY <2>3, <2>5, <3>1 DEF WakesUp
  <2>6. ASSUME NEW o \in Objects, monitor[o] # 0, Wait(o, b),
               frame'[b].waitingObj = o, UNCHANGED monitor
        PROVE  NoLostWakeup'
    <3>1. b \in notify'[o] /\ \A p \in Objects : notify[p] \subseteq notify'[p]
      BY <2>6, WaitTyping DEF Base
    <3>2. WakesUp(b)'
      BY <2>6, <3>1, NamesAssumption DEF WakesUp
    <3> QED
      BY <2>3, <2>6, <3>1, <3>2
  <2> QED
    BY <1>10, <2>4, <2>5, <2>6, InvokeFacts
<1>11. CASE Return \/ AthrowUncaught
  <2>1. /\ UNCHANGED notify
        /\ \A a \in Addr : Live(a)' <=> Live(a) /\ a # TopAddr
        /\ \A a \in Addr \ {TopAddr} : Live(a) =>
             /\ frame'[a].waitingObj = frame[a].waitingObj
             /\ frame'[a].lock => frame[a].lock
    BY <1>11, MethodDoneFacts
  <2>2. CASE UNCHANGED monitor
    <3>1. \A a \in Addr : WakesUp(a)'
      BY <2>1, <2>2, StillWakesUp
    <3> QED
      BY <3>1 DEF WakesUp, NoLostWakeup
  <2>3. CASE /\ TopFrame.lv0 \in Objects
             /\ monitor' = [monitor EXCEPT ![TopFrame.lv0] = Decremented(@)]
             /\ \A a \in notify[TopFrame.lv0] : Live(a)' => ~frame'[a].lock
    <3> SUFFICES ASSUME NEW a \in Addr, Live(a)', frame'[a].lock
                 PROVE  /\ frame'[a].waitingObj # Null
                        /\ monitor'[frame'[a].waitingObj] # 0
                        /\ a \in notify'[frame'[a].waitingObj]
      BY DEF NoLostWakeup
    <3>1. Live(a) /\ a # TopAddr /\ frame[a] \in Frame
      BY <2>1 DEF Base, TypeOK, Live
    <3>2. /\ frame'[a].waitingObj = frame[a].waitingObj
          /\ frame[a].lock
          /\ a \notin notify[TopFrame.lv0]
      BY <2>1, <2>3, <3>1
    <3>3. /\ frame[a].waitingObj \in Objects
          /\ monitor[frame[a].waitingObj] # 0
          /\ a \in notify[frame[a].waitingObj]
      BY <3>1, <3>2 DEF NoLostWakeup, Frame
    <3>4. frame[a].waitingObj # TopFrame.lv0
      BY <3>2, <3>3
    <3>5. monitor'[frame[a].waitingObj] = monitor[frame[a].waitingObj]
      BY <2>3, <3>3, <3>4 DEF Base, TypeOK
    <3> QED
      BY <2>1, <3>2, <3>3, <3>5, NamesAssumption
  <2> QED
    BY <1>11, <2>2, <2>3, MethodDoneFacts
<1>12. CASE ExecThreads \/ PopThread \/ PopNothing \/ SliceExpires \/ Yield \/ Drop \/ Abort
  BY <1>1, <1>12
  DEF ExecThreads, PopThread, PopNothing, SliceExpires, Yield, Drop, Abort, vars
<1> QED
  BY <1>1, <1>2, <1>3, <1>4, <1>5, <1>6, <1>7, <1>8, <1>9, <1>10, <1>11, <1>12
  DEF Next, CheckFrame, Execute, vars

\* No wake-up is lost, in any program: a locked frame waits for an object that is
\* taken, and the list of that object holds its callback, through re-waits, clock
\* jumps, dropped threads, stale callbacks and unbalanced monitorexits.
THEOREM WakeupsAreKept == Spec => []NoLostWakeup
<1>1. Base /\ NoLostWakeup /\ Base' /\ [Next]_vars => NoLostWakeup'
  BY WakeupStep
<1> QED
  BY BaseInvariant, WakeupInit, <1>1, PTL DEF Spec

-----------------------------------------------------------------------------
(* Mutual exclusion *)

Exclusive == MutualExclusion /\ HeldIsLocked

\* Frame a was inside before the step, of the same object.
WasInside(a) == InMethod(a) /\ frame'[a].lv0 = frame[a].lv0

LEMMA InMethodTyping ==
  ASSUME TypeOK, NEW a \in Addr, InMethod(a)
  PROVE  frame[a].lv0 \in Objects
BY DEF TypeOK, InMethod, Live, Frame

\* Nobody enters, and the monitors of those inside stay at 1.
LEMMA NobodyEnters ==
  ASSUME Base, Exclusive,
         \A a \in Addr : InMethod(a)' =>
           WasInside(a) /\ monitor'[frame[a].lv0] = monitor[frame[a].lv0]
  PROVE  Exclusive'
<1>1. HeldIsLocked'
  BY DEF Exclusive, HeldIsLocked, WasInside
<1>2. MutualExclusion'
  BY DEF Exclusive, MutualExclusion, WasInside
<1> QED
  BY <1>1, <1>2 DEF Exclusive

\* At most frame e enters, and it enters an object that was free.
LEMMA OneEnters ==
  ASSUME Base, Exclusive, NEW e \in Addr, NEW o \in Objects, CanLock(o), Lock(o),
         \A a \in Addr : InMethod(a)' => WasInside(a) \/ (a = e /\ frame'[e].lv0 = o)
  PROVE  Exclusive'
<1>1. /\ monitor[o] = 0 /\ monitor'[o] = 1
      /\ \A p \in Objects : p # o => monitor'[p] = monitor[p]
  BY LockTyping DEF Base
<1>2. \A a \in Addr : InMethod(a) => frame[a].lv0 \in Objects \ {o}
  BY <1>1, InMethodTyping DEF Exclusive, HeldIsLocked, Base
<1>3. HeldIsLocked'
  <2> SUFFICES ASSUME NEW a \in Addr, InMethod(a)'
               PROVE  monitor'[frame'[a].lv0] = 1
    BY DEF HeldIsLocked
  <2>1. CASE WasInside(a)
    BY <1>1, <1>2, <2>1 DEF WasInside, Exclusive, HeldIsLocked
  <2>2. CASE a = e /\ frame'[e].lv0 = o
    BY <1>1, <2>2
  <2> QED
    BY <2>1, <2>2
<1>4. MutualExclusion'
  <2> SUFFICES ASSUME NEW a \in Addr, NEW b \in Addr, InMethod(a)', InMethod(b)',
                      frame'[a].lv0 = frame'[b].lv0
               PROVE  a = b
    BY DEF MutualExclusion
  <2>1. CASE WasInside(a) /\ WasInside(b)
    BY <2>1 DEF WasInside, Exclusive, MutualExclusion
  <2>2. CASE WasInside(a) /\ b = e /\ frame'[e].lv0 = o
    BY <1>2, <2>2 DEF WasInside
  <2>3. CASE WasInside(b) /\ a = e /\ frame'[e].lv0 = o
    BY <1>2, <2>3 DEF WasInside
  <2> QED
    BY <2>1, <2>2, <2>3
<1> QED
  BY <1>3, <1>4 DEF Exclusive

\* A step that puts f into the top frame: the others are inside when they were.
LEMMA TopStepInside ==
  ASSUME Base, HasFrame, NEW f, frame' = [frame EXCEPT ![TopAddr] = f]
  PROVE  /\ TopAddr \in Addr
         /\ frame'[TopAddr] = f
         /\ \A a \in Addr : a # TopAddr /\ InMethod(a)' => WasInside(a)
<1>1. TopAddr \in Addr
  BY TopFacts DEF Base
<1>2. frame'[TopAddr] = f /\ \A a \in Addr : a # TopAddr => frame'[a] = frame[a]
  BY <1>1 DEF Base, TypeOK
<1>3. ASSUME NEW a \in Addr, a # TopAddr, InMethod(a)'
      PROVE  WasInside(a)
  BY <1>2, <1>3 DEF InMethod, WasInside, Live, IsSync, Entering
<1> QED
  BY <1>1, <1>2, <1>3

\* The top frame is inside when its method is synchronized, its local 0 is an
\* object and it waits for nothing; then it stays inside while local 0 stays.
LEMMA TopWasInside ==
  ASSUME Base, HasFrame, TopFrame.waitingObj = Null,
         IsSync(TopAddr), TopFrame.lv0 # Null,
         frame'[TopAddr].lv0 = TopFrame.lv0
  PROVE  WasInside(TopAddr)
BY TopFacts DEF Base, WasInside, InMethod, Entering, TopFrame

LEMMA LocalStepInside ==
  ASSUME Base, HasFrame, TopFrame.waitingObj = Null, NEW f,
         frame' = [frame EXCEPT ![TopAddr] = f],
         f.method = TopFrame.method, f.lv0 = TopFrame.lv0
  PROVE  \A a \in Addr : InMethod(a)' => WasInside(a)
<1> SUFFICES ASSUME NEW a \in Addr, InMethod(a)'
             PROVE  WasInside(a)
  OBVIOUS
<1>1. CASE a # TopAddr
  BY <1>1, TopStepInside
<1>2. CASE a = TopAddr
  <2>1. frame'[TopAddr] = f
    BY TopStepInside
  <2>2. IsSync(TopAddr) /\ TopFrame.lv0 # Null
    BY <1>2, <2>1 DEF InMethod, IsSync, TopFrame
  <2> QED
    BY <1>2, <2>1, <2>2, TopWasInside
<1> QED
  BY <1>1, <1>2

LEMMA ExclusiveInit == Init => Exclusive
BY DEF Init, Exclusive, MutualExclusion, HeldIsLocked, InMethod, Live

LEMMA AcquireExclusive ==
  ASSUME Base, Exclusive, Acquire
  PROVE  Exclusive'
<1>1. /\ HasFrame
      /\ frame' = [frame EXCEPT ![TopAddr] = AcquiredFrame]
      /\ AcquiredFrame.method = TopFrame.method
      /\ AcquiredFrame.lv0 = TopFrame.lv0
      /\ TopFrame.waitingObj \in Objects
      /\ CanLock(TopFrame.waitingObj) /\ Lock(TopFrame.waitingObj)
  BY AcquireFacts
<1>2. TopAddr \in Addr /\ frame'[TopAddr] = AcquiredFrame /\ Live(TopAddr)
  BY <1>1, TopStepInside, TopFacts DEF Base
<1>3. ASSUME NEW a \in Addr, InMethod(a)'
      PROVE  WasInside(a) \/ (a = TopAddr /\ frame'[a].lv0 = TopFrame.waitingObj)
  <2>1. CASE a # TopAddr
    BY <1>1, <1>3, <2>1, TopStepInside
  <2>2. CASE a = TopAddr /\ Entering(a)
    BY <1>1, <1>2, <2>2 DEF Entering, TopFrame
  <2>3. CASE a = TopAddr /\ ~Entering(a)
    BY <1>1, <1>2, <1>3, <2>3 DEF InMethod, WasInside, IsSync, TopFrame
  <2> QED
    BY <2>1, <2>2, <2>3
<1> QED
  BY <1>1, <1>2, <1>3, OneEnters

LEMMA RewaitExclusive ==
  ASSUME Base, Exclusive, Rewait
  PROVE  Exclusive'
<1>1. /\ HasFrame
      /\ TopFrame.waitingObj \in Objects
      /\ frame' = [frame EXCEPT ![TopAddr] = BlockedFrame(TopFrame.waitingObj)]
  BY RewaitFacts
<1>2. /\ TopAddr \in Addr /\ Live(TopAddr)
      /\ frame'[TopAddr] = BlockedFrame(TopFrame.waitingObj)
      /\ BlockedFrame(TopFrame.waitingObj).method = TopFrame.method
      /\ BlockedFrame(TopFrame.waitingObj).pc = TopFrame.pc
      /\ BlockedFrame(TopFrame.waitingObj).lv0 = TopFrame.lv0
      /\ BlockedFrame(TopFrame.waitingObj).waitingObj = TopFrame.waitingObj
  BY <1>1, TopStepInside, TopFacts, BlockedFrameFacts DEF Base
<1>3. ASSUME NEW a \in Addr, InMethod(a)'
      PROVE  WasInside(a)
  <2>1. CASE a # TopAddr
    BY <1>1, <1>3, <2>1, TopStepInside
  <2>2. CASE a = TopAddr
    BY <1>2, <1>3, <2>2 DEF InMethod, WasInside, IsSync, Entering, TopFrame
  <2> QED
    BY <2>1, <2>2
<1>4. UNCHANGED monitor
  BY DEF Rewait
<1> QED
  BY <1>3, <1>4, NobodyEnters

LEMMA LocalExclusive ==
  ASSUME Structured, Base, Exclusive, NextInstruction \/ Branch \/ Store0 \/ AthrowCaught
  PROVE  Exclusive'
<1>1. UNCHANGED monitor
  BY DEF NextInstruction, Branch, Store0, AthrowCaught, Goto
<1>2. CASE NextInstruction \/ Branch
  <2>1. PICK pc \in Nat : frame' = [frame EXCEPT ![TopAddr] = AtPc(pc)]
    BY <1>2, GotoFacts
  <2>2. \A a \in Addr : InMethod(a)' => WasInside(a)
    BY <1>2, <2>1, GotoFacts, AtPcFacts, LocalStepInside
  <2> QED
    BY <1>1, <2>2, NobodyEnters
<1>3. CASE AthrowCaught
  <2>1. PICK h \in Nat : /\ frame' = [frame EXCEPT ![TopAddr] = CaughtFrame(h)]
                        /\ CaughtFrame(h).method = TopFrame.method
                        /\ CaughtFrame(h).lv0 = TopFrame.lv0
    BY <1>3, AthrowCaughtFacts
  <2>2. HasFrame /\ TopFrame.waitingObj = Null
    BY <1>3, AthrowCaughtFacts
  <2>3. \A a \in Addr : InMethod(a)' => WasInside(a)
    BY <2>1, <2>2, LocalStepInside
  <2> QED
    BY <1>1, <2>3, NobodyEnters
<1>4. CASE Store0
  <2>1. PICK o \in Objects \cup {Null}, pc \in Nat :
          /\ frame' = [frame EXCEPT ![TopAddr] = StoredFrame(o, pc)]
          /\ StoredFrame(o, pc).method = TopFrame.method
    BY <1>4, Store0Facts
  <2>2. /\ HasFrame
        /\ TopFrame.method \in Methods
        /\ Code[TopFrame.method][TopFrame.pc + 1].op = "store0"
        /\ TopFrame.pc + 1 \in DOMAIN Code[TopFrame.method]
    BY <1>4, Store0Facts
  <2>3. TopFrame.method \notin SyncMethods
    BY <2>2 DEF Structured
  <2>4. ASSUME NEW a \in Addr, InMethod(a)'
        PROVE  WasInside(a)
    <3>1. a # TopAddr
      BY <2>1, <2>2, <2>3, <2>4, TopStepInside DEF InMethod, IsSync
    <3> QED
      BY <2>1, <2>2, <2>4, <3>1, TopStepInside
  <2> QED
    BY <1>1, <2>4, NobodyEnters
<1> QED
  BY <1>2, <1>3, <1>4

LEMMA MonitorEnterExclusive ==
  ASSUME Base, Exclusive, MonitorEnter
  PROVE  Exclusive'
<1>1. HasFrame /\ TopFrame.waitingObj = Null /\ TopAddr \in Addr
  BY MonitorEnterFacts, TopFacts DEF Base
<1>2. ASSUME NEW o \in Objects, CanLock(o), Lock(o),
             NEW owned \in SUBSET Objects,
             frame' = [frame EXCEPT ![TopAddr] = EnteredFrame(owned)],
             EnteredFrame(owned).method = TopFrame.method,
             EnteredFrame(owned).lv0 = TopFrame.lv0
      PROVE  Exclusive'
  <2>1. \A a \in Addr : InMethod(a)' => WasInside(a)
    BY <1>1, <1>2, LocalStepInside
  <2> QED
    BY <1>1, <1>2, <2>1, OneEnters
<1>3. ASSUME NEW o \in Objects, UNCHANGED monitor,
             frame' = [frame EXCEPT ![TopAddr] = BlockedFrame(o)]
      PROVE  Exclusive'
  <2>1. /\ BlockedFrame(o).method = TopFrame.method
        /\ BlockedFrame(o).lv0 = TopFrame.lv0
    BY <1>1, BlockedFrameFacts
  <2>2. \A a \in Addr : InMethod(a)' => WasInside(a)
    BY <1>1, <1>3, <2>1, LocalStepInside
  <2> QED
    BY <1>3, <2>2, NobodyEnters
<1> QED
  BY <1>2, <1>3, MonitorEnterFacts

LEMMA NoMonitorExit ==
  ASSUME Structured, Base
  PROVE  ~MonitorExit
<1> SUFFICES ASSUME MonitorExit PROVE FALSE
  OBVIOUS
<1>1. At("monitorexit")
  BY DEF MonitorExit
<1>2. /\ TopFrame.method \in Methods
      /\ TopFrame.pc \in Nat /\ TopFrame.pc < Len(Code[TopFrame.method])
      /\ Instr.op = "monitorexit"
  BY <1>1, InstrFacts
<1>3. TopFrame.pc + 1 \in DOMAIN Code[TopFrame.method]
  BY <1>2, CodeAssumption
<1> QED
  BY <1>2, <1>3 DEF Structured, Instr

LEMMA InvokeExclusive ==
  ASSUME Base, Exclusive, NEW b \in Addr, Invoke(b)
  PROVE  Exclusive'
<1>1. /\ HasFrame /\ TopFrame.waitingObj = Null
      /\ b # TopAddr
      /\ TopFrame.pc + 1 \in Nat
      /\ frame'[TopAddr] = AtPc(TopFrame.pc + 1)
      /\ \A a \in Addr \ {b, TopAddr} : frame'[a] = frame[a]
      /\ frame'[b].pc = 0
  BY InvokeFacts
<1>2. /\ AtPc(TopFrame.pc + 1).method = TopFrame.method
      /\ AtPc(TopFrame.pc + 1).lv0 = TopFrame.lv0
  BY <1>1, AtPcFacts
<1>3. ASSUME NEW a \in Addr, a # b, InMethod(a)'
      PROVE  WasInside(a)
  <2>1. CASE a = TopAddr
    <3>1. IsSync(TopAddr) /\ TopFrame.lv0 # Null
      BY <1>1, <1>2, <1>3, <2>1 DEF InMethod, IsSync, TopFrame
    <3> QED
      BY <1>1, <1>2, <2>1, <3>1, TopWasInside
  <2>2. CASE a # TopAddr
    BY <1>1, <1>3, <2>2 DEF InMethod, WasInside, Live, IsSync, Entering
  <2> QED
    BY <2>1, <2>2
<1>4. ASSUME UNCHANGED monitor, ~InMethod(b)'
      PROVE  Exclusive'
  BY <1>3, <1>4, NobodyEnters
<1>5. CASE frame'[b].method \notin SyncMethods /\ UNCHANGED monitor
  BY <1>4, <1>5 DEF InMethod, IsSync
<1>6. ASSUME NEW o \in Objects, CanLock(o), Lock(o), frame'[b].lv0 = o
      PROVE  Exclusive'
  BY <1>3, <1>6, OneEnters
<1>7. ASSUME NEW o \in Objects, frame'[b].lv0 = o, frame'[b].waitingObj = o,
             UNCHANGED monitor
      PROVE  Exclusive'
  BY <1>1, <1>4, <1>7 DEF InMethod, Entering
<1> QED
  BY <1>5, <1>6, <1>7, InvokeFacts

LEMMA MethodDoneExclusive ==
  ASSUME Base, Exclusive, Return \/ AthrowUncaught
  PROVE  Exclusive'
<1>1. /\ HasFrame /\ TopFrame.waitingObj = Null
      /\ \A a \in Addr : Live(a)' <=> Live(a) /\ a # TopAddr
      /\ \A a \in Addr \ {TopAddr} : Live(a) =>
           /\ frame'[a].method = frame[a].method
           /\ frame'[a].pc = frame[a].pc
           /\ frame'[a].lv0 = frame[a].lv0
           /\ frame'[a].waitingObj = frame[a].waitingObj
  BY MethodDoneFacts
<1>2. ASSUME NEW a \in Addr, InMethod(a)'
      PROVE  WasInside(a) /\ a # TopAddr
  BY <1>1, <1>2 DEF InMethod, WasInside, IsSync, Entering
<1>3. CASE UNCHANGED monitor
  BY <1>2, <1>3, NobodyEnters
<1>4. CASE /\ IsSync(TopAddr)
           /\ TopFrame.lv0 \in Objects
           /\ monitor' = [monitor EXCEPT ![TopFrame.lv0] = Decremented(@)]
  <2>1. TopAddr \in Addr /\ InMethod(TopAddr)
    BY <1>1, <1>4, TopFacts, NamesAssumption
    DEF Base, InMethod, Entering, TopFrame
  <2>2. ASSUME NEW a \in Addr, InMethod(a)'
        PROVE  frame[a].lv0 \in Objects /\ frame[a].lv0 # TopFrame.lv0
    BY <1>2, <2>1, <2>2, InMethodTyping
    DEF Exclusive, MutualExclusion, WasInside, TopFrame, Base
  <2>3. \A a \in Addr : InMethod(a)' => monitor'[frame[a].lv0] = monitor[frame[a].lv0]
    BY <1>4, <2>2 DEF Base, TypeOK
  <2> QED
    BY <1>2, <2>3, NobodyEnters
<1> QED
  BY <1>3, <1>4, MethodDoneFacts

LEMMA ExclusiveStep ==
  ASSUME Structured, Base, Exclusive, [Next]_vars
  PROVE  Exclusive'
<1>1. CASE UNCHANGED <<frame, monitor>>
  BY <1>1 DEF Exclusive, MutualExclusion, HeldIsLocked, InMethod, Live, IsSync, Entering
<1>2. ASSUME NEW t \in Threads, NEW a \in Addr, NEW m \in EntryMethods,
             AddNewThread(t, a, m)
      PROVE  Exclusive'
  <2>1. frame' = [frame EXCEPT ![a] = NewFrame(m, Null)] /\ UNCHANGED monitor
    BY <1>2 DEF AddNewThread
  <2>2. /\ frame'[a].lv0 = Null
        /\ \A b \in Addr : b # a => frame'[b] = frame[b]
    BY <2>1 DEF NewFrame, Base, TypeOK
  <2>3. \A b \in Addr : InMethod(b)' => WasInside(b)
    BY <2>2 DEF InMethod, WasInside, Live, IsSync, Entering
  <2> QED
    BY <2>1, <2>3, NobodyEnters
<1>3. CASE ExecThreads \/ PopThread \/ PopNothing \/ SliceExpires \/ Yield \/ Drop \/ Abort
  BY <1>1, <1>3
  DEF ExecThreads, PopThread, PopNothing, SliceExpires, Yield, Drop, Abort, vars
<1>4. ASSUME NEW b \in Addr, Invoke(b)
      PROVE  Exclusive'
  BY <1>4, InvokeExclusive
<1> QED
  BY <1>1, <1>2, <1>3, <1>4, AcquireExclusive, RewaitExclusive, LocalExclusive,
     MonitorEnterExclusive, NoMonitorExit, MethodDoneExclusive
  DEF Next, CheckFrame, Execute, vars

LEMMA ExclusiveInvariant ==
  ASSUME Structured
  PROVE  Spec => []Exclusive
<1>1. Base /\ Exclusive /\ [Next]_vars => Exclusive'
  BY ExclusiveStep
<1> QED
  BY BaseInvariant, ExclusiveInit, <1>1, PTL DEF Spec

\* In a structured program two frames are never inside synchronized methods of
\* one object, whatever the number of threads, the schedule and the clock.
THEOREM SynchronizedMethodsExclude ==
  ASSUME Structured
  PROVE  Spec => []MutualExclusion
<1>1. Exclusive => MutualExclusion
  BY DEF Exclusive
<1> QED
  BY ExclusiveInvariant, <1>1, PTL

\* In a structured program the object of whoever is inside has count 1.
THEOREM InsideIsCounted ==
  ASSUME Structured
  PROVE  Spec => []HeldIsLocked
<1>1. Exclusive => HeldIsLocked
  BY DEF Exclusive
<1> QED
  BY ExclusiveInvariant, <1>1, PTL

-----------------------------------------------------------------------------
(* The run queue *)

LEMMA QueueInit == Init => OnePlacePerThread
BY DEF Init, OnePlacePerThread

\* pushThread puts the thread that ran in front of the others.
LEMMA PushKeepsPlaces ==
  ASSUME Base, OnePlacePerThread, current \in Threads, PushThread
  PROVE  OnePlacePerThread'
<1>1. threads \in Seq(Threads)
  BY DEF Base, TypeOK
<1>2. threads' = <<current>> \o threads /\ current' = NoThread
  BY DEF PushThread
<1>3. /\ Len(threads') = Len(threads) + 1
      /\ threads'[1] = current
      /\ \A i \in DOMAIN threads' \ {1} :
           /\ i - 1 \in DOMAIN threads
           /\ threads'[i] = threads[i - 1]
  BY <1>1, <1>2
<1>4. threads' \in Seq(Threads)
  BY <1>1, <1>2
<1>5. \A i, j \in DOMAIN threads' : threads'[i] = threads'[j] => i = j
  <2> SUFFICES ASSUME NEW i \in DOMAIN threads', NEW j \in DOMAIN threads',
                      threads'[i] = threads'[j]
               PROVE  i = j
    OBVIOUS
  <2>1. i \in Nat /\ j \in Nat
    BY <1>4
  <2>2. CASE i = 1 /\ j # 1
    BY <1>3, <2>2 DEF OnePlacePerThread
  <2>3. CASE i # 1 /\ j = 1
    BY <1>3, <2>3 DEF OnePlacePerThread
  <2>4. CASE i # 1 /\ j # 1
    <3>1. i - 1 = j - 1
      BY <1>3, <2>4 DEF OnePlacePerThread
    <3> QED
      BY <2>1, <3>1
  <2> QED
    BY <2>2, <2>3, <2>4
<1>6. \A i \in DOMAIN threads' : threads'[i] # current'
  BY <1>2, <1>4, NamesAssumption
<1> QED
  BY <1>5, <1>6 DEF OnePlacePerThread

\* popThread takes the last thread out of the queue.
LEMMA PopKeepsPlaces ==
  ASSUME Base, OnePlacePerThread, PopThread
  PROVE  OnePlacePerThread'
<1>1. /\ threads \in Seq(Threads) /\ threads # <<>>
      /\ current' = Last(threads) /\ threads' = Front(threads)
  BY DEF Base, TypeOK, PopThread
<1>2. Len(threads) \in Nat \ {0} /\ Last(threads) = threads[Len(threads)]
  BY <1>1 DEF Last
<1>3. \A i \in DOMAIN threads' :
        /\ i \in DOMAIN threads
        /\ i # Len(threads)
        /\ threads'[i] = threads[i]
  BY <1>1, <1>2 DEF Front
<1>4. Len(threads) \in DOMAIN threads
  BY <1>1, <1>2
<1> QED
  BY <1>1, <1>2, <1>3, <1>4 DEF OnePlacePerThread

\* Execute adds a thread that is not in the queue, while none is current.
LEMMA AddKeepsPlaces ==
  ASSUME Base, OnePlacePerThread,
         NEW t \in Threads, NEW a \in Addr, NEW m \in EntryMethods,
         AddNewThread(t, a, m)
  PROVE  OnePlacePerThread'
<1>1. /\ threads \in Seq(Threads)
      /\ t \notin ToSet(threads)
      /\ threads' = Append(threads, t)
      /\ current = NoThread /\ current' = NoThread
  BY DEF Base, TypeOK, SetupOK, AddNewThread
<1>2. \A i \in DOMAIN threads : threads[i] # t
  BY <1>1 DEF ToSet
<1>3. /\ DOMAIN threads' = DOMAIN threads \cup {Len(threads) + 1}
      /\ threads'[Len(threads) + 1] = t
      /\ \A i \in DOMAIN threads : threads'[i] = threads[i]
  BY <1>1
<1>4. \A i \in DOMAIN threads' : threads'[i] # current'
  BY <1>1, <1>3, NamesAssumption
<1> QED
  BY <1>2, <1>3, <1>4 DEF OnePlacePerThread

LEMMA QueueStep ==
  ASSUME Base, OnePlacePerThread, [Next]_vars
  PROVE  OnePlacePerThread'
<1>1. CASE UNCHANGED <<threads, current>>
  BY <1>1 DEF OnePlacePerThread
<1>2. CASE Yield \/ SliceExpires \/ Rewait
  <2>1. PushThread /\ current \in Threads
    BY <1>2, NamesAssumption
    DEF Yield, SliceExpires, Rewait, HasFrame, InSlice, Base, TypeOK
  <2> QED
    BY <2>1, PushKeepsPlaces
<1>3. CASE Drop
  <2>1. threads \in Seq(Threads) /\ threads' = threads /\ current' = NoThread
    BY <1>3 DEF Drop, Base, TypeOK
  <2> QED
    BY <2>1, NamesAssumption DEF OnePlacePerThread
<1>4. CASE ExecThreads \/ PopNothing \/ Abort \/ Acquire
  BY <1>1, <1>4 DEF ExecThreads, PopNothing, Abort, Acquire, vars
<1>5. CASE NextInstruction \/ Branch \/ Store0 \/ AthrowCaught
  BY <1>1, <1>5 DEF NextInstruction, Branch, Store0, AthrowCaught, Goto
<1>6. CASE MonitorEnter \/ MonitorExit
  BY <1>1, <1>6 DEF MonitorEnter, MonitorExit
<1>7. ASSUME NEW b \in Addr, Invoke(b)
      PROVE  OnePlacePerThread'
  BY <1>1, <1>7 DEF Invoke
<1>8. CASE Return \/ AthrowUncaught
  BY <1>1, <1>8 DEF Return, AthrowUncaught, MethodDone
<1> QED
  BY <1>1, <1>2, <1>3, <1>4, <1>5, <1>6, <1>7, <1>8, PopKeepsPlaces, AddKeepsPlaces
  DEF Next, CheckFrame, Execute, vars

\* popThread, pushThread and the drop of a thread keep each StackFrame at one place,
\* however many threads there are and whatever they run.
THEOREM ThreadsHaveOnePlace == Spec => []OnePlacePerThread
<1>1. Base /\ OnePlacePerThread /\ [Next]_vars => OnePlacePerThread'
  BY QueueStep
<1> QED
  BY BaseInvariant, QueueInit, <1>1, PTL DEF Spec

-----------------------------------------------------------------------------
(* Frames that are not on top *)

\* A live frame that is not the top frame of the current thread keeps all but its lock.
LEMMA OthersKeepTheirFrame ==
  ASSUME Base, vm # "setup", [Next]_vars,
         NEW a \in Addr, Live(a), HasFrame => a # TopAddr
  PROVE  /\ Live(a)'
         /\ frame'[a].method = frame[a].method
         /\ frame'[a].pc = frame[a].pc
         /\ frame'[a].lv0 = frame[a].lv0
         /\ frame'[a].waitingObj = frame[a].waitingObj
<1>1. frame \in [Addr -> Frame \cup {Freed}]
  BY DEF Base, TypeOK
<1>2. CASE frame'[a] = frame[a]
  BY <1>2 DEF Live
<1>3. ASSUME NEW f, HasFrame, frame' = [frame EXCEPT ![TopAddr] = f]
      PROVE  frame'[a] = frame[a]
  BY <1>1, <1>3
<1>4. CASE ExecThreads \/ PopThread \/ PopNothing \/ SliceExpires \/ Yield \/ Drop \/ Abort
  BY <1>2, <1>4
  DEF ExecThreads, PopThread, PopNothing, SliceExpires, Yield, Drop, Abort, vars
<1>5. CASE Acquire \/ Rewait
  BY <1>2, <1>3, <1>5, AcquireFacts, RewaitFacts
<1>6. CASE NextInstruction \/ Branch
  BY <1>2, <1>3, <1>6, GotoFacts
<1>7. CASE Store0 \/ AthrowCaught
  BY <1>2, <1>3, <1>7, Store0Facts, AthrowCaughtFacts
<1>8. CASE MonitorEnter
  BY <1>2, <1>3, <1>8, MonitorEnterFacts
<1>9. ASSUME NEW b \in Addr, Invoke(b)
      PROVE  frame'[a] = frame[a]
  BY <1>9, InvokeFacts
<1>10. CASE Return \/ AthrowUncaught
  BY <1>10, MethodDoneFacts
<1>11. CASE MonitorExit
  <2>1. PICK o \in Objects : frame' = Notified(o) \/ frame' = frame
    BY <1>11, MonitorExitFacts
  <2> QED
    BY <1>2, <2>1, NotifiedFacts DEF Base, Live
<1>12. ASSUME NEW t \in Threads, NEW b \in Addr, NEW m \in EntryMethods
       PROVE  ~AddNewThread(t, b, m)
  BY DEF AddNewThread
<1> QED
  BY <1>2, <1>4, <1>5, <1>6, <1>7, <1>8, <1>9, <1>10, <1>11, <1>12
  DEF Next, CheckFrame, Execute, vars

-----------------------------------------------------------------------------
(* Counts below zero *)

\* lockMonitor is the only place that adds, and it adds to a count of zero.
LEMMA BelowZeroStep ==
  ASSUME Base, [Next]_vars, NEW o \in Objects, monitor[o] < 0
  PROVE  monitor'[o] < 0 \/ (monitor[o] = MinMonitor /\ monitor'[o] = MaxMonitor)
<1> DEFINE Lower == \E p \in Objects : monitor' = [monitor EXCEPT ![p] = Decremented(@)]
           Higher == \E p \in Objects : CanLock(p) /\ Lock(p)
<1>1. monitor \in [Objects -> MinMonitor..MaxMonitor]
  BY DEF Base, TypeOK
<1>2. CASE UNCHANGED monitor
  BY <1>2
<1>3. CASE Lower
  <2>1. PICK p \in Objects : monitor' = [monitor EXCEPT ![p] = Decremented(@)]
    BY <1>3
  <2>2. CASE p = o
    <3>1. monitor'[o] = Decremented(monitor[o]) /\ monitor[o] \in MinMonitor..MaxMonitor
      BY <1>1, <2>1, <2>2
    <3> QED
      BY <3>1, MonitorAssumption DEF Decremented
  <2>3. CASE p # o
    BY <1>1, <2>1, <2>3
  <2> QED
    BY <2>2, <2>3
<1>4. CASE Higher
  <2>1. PICK p \in Objects : CanLock(p) /\ Lock(p)
    BY <1>4
  <2>2. monitor[p] = 0 /\ \A q \in Objects : q # p => monitor'[q] = monitor[q]
    BY <2>1, LockTyping DEF Base
  <2> QED
    BY <2>2
<1>5. ASSUME NEW t \in Threads, NEW a \in Addr, NEW m \in EntryMethods,
             AddNewThread(t, a, m)
      PROVE  UNCHANGED monitor
  BY <1>5 DEF AddNewThread
<1>6. CASE ExecThreads \/ PopThread \/ PopNothing \/ SliceExpires \/ Yield \/ Drop \/ Abort
  BY <1>2, <1>6
  DEF ExecThreads, PopThread, PopNothing, SliceExpires, Yield, Drop, Abort, vars
<1>7. CASE Rewait \/ NextInstruction \/ Branch \/ Store0 \/ AthrowCaught
  BY <1>2, <1>7 DEF Rewait, NextInstruction, Branch, Store0, AthrowCaught, Goto
<1>8. Acquire => Higher
  BY AcquireFacts
<1>9. MonitorEnter => Higher \/ UNCHANGED monitor
  BY MonitorEnterFacts
<1>10. MonitorExit => Lower
  BY MonitorExitFacts
<1>11. ASSUME NEW b \in Addr, Invoke(b)
       PROVE  Higher \/ UNCHANGED monitor
  BY <1>11, InvokeFacts
<1>12. Return \/ AthrowUncaught => Lower \/ UNCHANGED monitor
  BY MethodDoneFacts
<1> QED
  BY <1>2, <1>3, <1>4, <1>5, <1>6, <1>7, <1>8, <1>9, <1>10, <1>11, <1>12
  DEF Next, CheckFrame, Execute, vars

\* Whoever waits for an object whose count is not zero waits on: checkFrame is the
\* only place that ends the wait, and it locks the object first.
LEMMA TakenKeepsWaiting ==
  ASSUME Base, [Next]_vars, NEW a \in Addr, Live(a),
         frame[a].waitingObj \in Objects, monitor[frame[a].waitingObj] # 0
  PROVE  Live(a)' /\ frame'[a].waitingObj = frame[a].waitingObj
<1>1. frame \in [Addr -> Frame \cup {Freed}] /\ frame[a] \in Frame
  BY DEF Base, TypeOK, Live
<1>2. CASE frame'[a] = frame[a]
  BY <1>2 DEF Live
<1>3. CASE vm = "setup"
  <2>1. ~InSlice
    BY <1>3 DEF InSlice
  <2>2. CASE ExecThreads \/ UNCHANGED vars
    BY <1>2, <2>2 DEF ExecThreads, vars
  <2>3. ASSUME NEW t \in Threads, NEW b \in Addr, NEW m \in EntryMethods,
               AddNewThread(t, b, m)
        PROVE  frame'[a] = frame[a]
    BY <1>1, <2>3 DEF AddNewThread
  <2>4. ~PopThread /\ ~PopNothing /\ ~SliceExpires /\ ~CheckFrame
    BY <1>3 DEF PopThread, PopNothing, SliceExpires, CheckFrame, Yield, Acquire, Rewait
  <2>5. ~Execute
    BY <2>1 DEF Execute, NextInstruction, Branch, Store0, Invoke, Return, AthrowUncaught,
      AthrowCaught, Drop, MonitorEnter, MonitorExit, Abort, Fatal, At, CanExecute, HasFrame
  <2> QED
    BY <1>2, <2>2, <2>3, <2>4, <2>5 DEF Next
<1>4. CASE vm # "setup" /\ (HasFrame => a # TopAddr)
  BY <1>4, OthersKeepTheirFrame
<1>5. CASE vm # "setup" /\ HasFrame /\ a = TopAddr
  <2>1. TopFrame = frame[a] /\ TopFrame.waitingObj # Null
    BY <1>5, NamesAssumption DEF TopFrame
  <2>2. ~CanExecute
    BY <2>1 DEF CanExecute
  <2>3. ~Execute
    BY <2>2 DEF Execute, NextInstruction, Branch, Store0, Invoke, Return, AthrowUncaught,
      AthrowCaught, Drop, MonitorEnter, MonitorExit, Abort, Fatal, At
  <2>4. ~Acquire
    BY <2>1 DEF Acquire, CanLock
  <2>5. CASE Rewait
    <3>1. /\ TopFrame.waitingObj \in Objects
          /\ frame' = [frame EXCEPT ![TopAddr] = BlockedFrame(TopFrame.waitingObj)]
      BY <2>5, RewaitFacts
    <3>2. frame'[a] = BlockedFrame(TopFrame.waitingObj)
      BY <1>1, <1>5, <3>1
    <3>3. frame'[a] \in Frame /\ frame'[a].waitingObj = TopFrame.waitingObj
      BY <1>5, <3>1, <3>2, BlockedFrameFacts
    <3> QED
      BY <2>1, <3>3, FreedAssumption DEF Live
  <2>6. ASSUME NEW t \in Threads, NEW b \in Addr, NEW m \in EntryMethods
        PROVE  ~AddNewThread(t, b, m)
    BY <1>5 DEF AddNewThread
  <2>7. CASE ExecThreads \/ PopThread \/ PopNothing \/ SliceExpires \/ Yield \/ UNCHANGED vars
    BY <1>2, <2>7 DEF ExecThreads, PopThread, PopNothing, SliceExpires, Yield, vars
  <2> QED
    BY <2>3, <2>4, <2>5, <2>6, <2>7 DEF Next, CheckFrame
<1> QED
  BY <1>3, <1>4, <1>5

\* In every program, a count that one release too many took below zero comes back
\* only through the whole range of an int, by the overflow, and whoever waits for
\* that object waits until then.
THEOREM BelowZeroStays == Spec => BelowZeroUntilOverflow
<1>1. Base /\ [Next]_vars =>
        [\A o \in Objects : monitor[o] < 0 =>
           /\ monitor'[o] < 0 \/ (monitor[o] = MinMonitor /\ monitor'[o] = MaxMonitor)
           /\ \A a \in Addr : Live(a) /\ frame[a].waitingObj = o =>
                Live(a)' /\ frame'[a].waitingObj = o]_vars
  <2> SUFFICES ASSUME Base, [Next]_vars, NEW o \in Objects, monitor[o] < 0
               PROVE
                 /\ monitor'[o] < 0 \/ (monitor[o] = MinMonitor /\ monitor'[o] = MaxMonitor)
                 /\ \A a \in Addr : Live(a) /\ frame[a].waitingObj = o =>
                      Live(a)' /\ frame'[a].waitingObj = o
    OBVIOUS
  <2>1. monitor[o] # 0
    BY MonitorAssumption DEF Base, TypeOK
  <2> QED
    BY <2>1, BelowZeroStep, TakenKeepsWaiting
<1> QED
  BY BaseInvariant, <1>1, PTL DEF Spec, BelowZeroUntilOverflow

-----------------------------------------------------------------------------
(* The monitors of dropped threads *)

LEMMA AbandonedStep ==
  ASSUME Structured, Base, Exclusive, [Next]_vars,
         NEW t \in Threads, Dropped(t), NEW a \in ToSet(stack[t]), InMethod(a)
  PROVE  InMethod(a)' /\ monitor'[frame[a].lv0] = 1
<1>1. PICK i \in DOMAIN stack[t] : a = stack[t][i] /\ a \in Addr
  BY DEF Base, TypeOK, ToSet
<1>2. Live(a) /\ InMethod(a) /\ vm # "setup" /\ t # current
  BY <1>1 DEF InMethod, Dropped
<1>3. HasFrame => a # TopAddr
  <2> SUFFICES ASSUME HasFrame PROVE a # TopAddr
    OBVIOUS
  <2>1. /\ current \in Threads
        /\ Len(stack[current]) \in DOMAIN stack[current]
        /\ TopAddr = stack[current][Len(stack[current])]
    BY TopFacts DEF Base, TypeOK
  <2> QED
    BY <1>1, <1>2, <2>1 DEF Base, FramesOnOneStack
<1>4. /\ Live(a)'
      /\ frame'[a].method = frame[a].method
      /\ frame'[a].pc = frame[a].pc
      /\ frame'[a].lv0 = frame[a].lv0
      /\ frame'[a].waitingObj = frame[a].waitingObj
  BY <1>1, <1>2, <1>3, OthersKeepTheirFrame
<1>5. InMethod(a)'
  BY <1>2, <1>4 DEF InMethod, IsSync, Entering
<1>6. monitor'[frame'[a].lv0] = 1
  BY <1>1, <1>5, ExclusiveStep DEF Exclusive, HeldIsLocked
<1> QED
  BY <1>4, <1>5, <1>6

\* In a structured program a dropped thread keeps what it has locked: its frames stay
\* inside their synchronized methods, with count 1, whatever the others do.
THEOREM AbandonedMonitorsStay ==
  ASSUME Structured
  PROVE  Spec => AbandonedMonitorsStayLocked
<1>1. Base /\ Exclusive /\ [Next]_vars =>
        [\A t \in Threads : Dropped(t) =>
           \A a \in ToSet(stack[t]) :
             InMethod(a) => InMethod(a)' /\ monitor'[frame[a].lv0] = 1]_vars
  BY AbandonedStep
<1> QED
  BY BaseInvariant, ExclusiveInvariant, <1>1, PTL DEF Spec, AbandonedMonitorsStayLocked

-----------------------------------------------------------------------------
(* Locking with synchronized methods only *)

\* Programs that lock with synchronized methods only.
EntryOnly ==
  /\ Structured
  /\ \A m \in Methods : \A i \in DOMAIN Code[m] : Code[m][i].op # "monitorenter"

Inside(a, o) == InMethod(a) /\ frame[a].lv0 = o
Asleep(a) == Live(a) /\ frame[a].lock

\* Whoever waits, waits to enter its method.
WaitersEnter ==
  \A a \in Addr : Live(a) /\ frame[a].waitingObj # Null => IsSync(a) /\ Entering(a)

\* A counter that is not zero counts somebody.
LockedIsHeld ==
  \A o \in Objects : monitor[o] # 0 => \E a \in Addr : Inside(a, o)

\* What a step needs for its effect, and the invariant of the whole VM.
Orderly == Base /\ NoLostWakeup /\ WaitersEnter
EntryInv == Orderly /\ Exclusive

-----------------------------------------------------------------------------
(* The four effects of a step *)

Untouched(a) ==
  /\ Wanted(a)' = Wanted(a)
  /\ Asleep(a)' <=> Asleep(a)
  /\ \A o \in Objects : Inside(a, o)' <=> Inside(a, o)

Quiet == UNCHANGED monitor /\ \A a \in Addr : Untouched(a)

\* Frame c is awake, inside nothing, and wants no object but o.
Tries(c, o) ==
  /\ ~Asleep(c)
  /\ Wanted(c) \in {Null, o}
  /\ \A p \in Objects : ~Inside(c, p)

Enters(c, o) ==
  /\ Tries(c, o)
  /\ CanLock(o) /\ Lock(o)
  /\ Wanted(c)' = Null
  /\ ~Asleep(c)'
  /\ \A p \in Objects : Inside(c, p)' <=> p = o
  /\ \A a \in Addr \ {c} : Untouched(a)

Sleeps(c, o) ==
  /\ Tries(c, o)
  /\ monitor[o] # 0 /\ UNCHANGED monitor
  /\ Wanted(c)' = o
  /\ Asleep(c)'
  /\ \A p \in Objects : ~Inside(c, p)'
  /\ \A a \in Addr \ {c} : Untouched(a)

Leaves(c, o) ==
  /\ Inside(c, o)
  /\ monitor' = [monitor EXCEPT ![o] = Decremented(@)]
  /\ \A p \in Objects : ~Inside(c, p)'
  /\ \A a \in Addr \ {c}, p \in Objects : Inside(a, p)' <=> Inside(a, p)
  /\ \A a \in Addr : Wanted(a)' = Wanted(a)
  /\ \A a \in Addr : Asleep(a)' => Asleep(a) /\ Wanted(a) # o

Effect ==
  \/ Quiet
  \/ \E c \in Addr, o \in Objects : Enters(c, o) \/ Sleeps(c, o) \/ Leaves(c, o)

LEMMA SameFrameUntouched ==
  ASSUME NEW a \in Addr, frame'[a] = frame[a]
  PROVE  Untouched(a)
BY DEF Untouched, Wanted, Asleep, Inside, InMethod, Live, IsSync, Entering

LEMMA FramesUnchangedQuiet ==
  ASSUME UNCHANGED <<frame, monitor>>
  PROVE  Quiet
BY SameFrameUntouched DEF Quiet

\* A step that puts f into the top frame.
LEMMA OthersUntouched ==
  ASSUME Base, HasFrame, NEW f, frame' = [frame EXCEPT ![TopAddr] = f]
  PROVE  /\ TopAddr \in Addr
         /\ frame'[TopAddr] = f
         /\ \A a \in Addr \ {TopAddr} : Untouched(a)
<1>1. TopAddr \in Addr
  BY TopFacts DEF Base
<1>2. frame'[TopAddr] = f /\ \A a \in Addr \ {TopAddr} : frame'[a] = frame[a]
  BY <1>1 DEF Base, TypeOK
<1> QED
  BY <1>1, <1>2, SameFrameUntouched

-----------------------------------------------------------------------------
(* Every step has one of the effects *)

\* The top frame does something else than waiting, entering or leaving.
LEMMA TopUntouched ==
  ASSUME Base, HasFrame, TopFrame.waitingObj = Null,
         NEW f \in Frame, frame'[TopAddr] = f,
         f.method = TopFrame.method, f.lock = TopFrame.lock, f.waitingObj = Null,
         f.lv0 = TopFrame.lv0 \/ TopFrame.method \notin SyncMethods,
         NEW c \in Addr, c = TopAddr
  PROVE  Untouched(c)
<1>1. Live(c) /\ frame[c] = TopFrame
  BY TopFacts DEF Base, TopFrame
<1>2. frame'[c] = f /\ Live(c)'
  BY FreedAssumption DEF Live
<1>3. Wanted(c)' = Wanted(c) /\ (Asleep(c)' <=> Asleep(c))
  BY <1>1, <1>2 DEF Wanted, Asleep
<1>4. ~Entering(c) \/ frame[c].lv0 = Null
  BY <1>1 DEF Entering
<1>5. ~Entering(c)' \/ frame'[c].lv0 = Null
  BY <1>2 DEF Entering
<1>6. ASSUME NEW o \in Objects
      PROVE  Inside(c, o)' <=> Inside(c, o)
  BY <1>1, <1>2, <1>4, <1>5 DEF Inside, InMethod, IsSync
<1> QED
  BY <1>3, <1>6 DEF Untouched

LEMMA LocalQuiet ==
  ASSUME Base, HasFrame, TopFrame.waitingObj = Null, UNCHANGED monitor,
         NEW f \in Frame, frame' = [frame EXCEPT ![TopAddr] = f],
         f.method = TopFrame.method, f.lock = TopFrame.lock, f.waitingObj = Null,
         f.lv0 = TopFrame.lv0 \/ TopFrame.method \notin SyncMethods
  PROVE  Quiet
<1>1. frame'[TopAddr] = f /\ \A a \in Addr \ {TopAddr} : Untouched(a)
  BY OthersUntouched
<1> QED
  BY <1>1, TopUntouched DEF Quiet

LEMMA LocalEffect ==
  ASSUME EntryOnly, Orderly, NextInstruction \/ Branch \/ Store0 \/ AthrowCaught
  PROVE  Quiet
<1>1. Base /\ UNCHANGED monitor
  BY DEF Orderly, NextInstruction, Branch, Store0, AthrowCaught, Goto
<1>2. CASE NextInstruction \/ Branch
  <2>1. PICK pc \in Nat : frame' = [frame EXCEPT ![TopAddr] = AtPc(pc)]
    BY <1>1, <1>2, GotoFacts
  <2>2. HasFrame /\ TopFrame.waitingObj = Null
    BY <1>1, <1>2, GotoFacts
  <2>3. /\ AtPc(pc) \in Frame
        /\ AtPc(pc).method = TopFrame.method
        /\ AtPc(pc).lv0 = TopFrame.lv0
        /\ AtPc(pc).lock = TopFrame.lock
        /\ AtPc(pc).waitingObj = Null
    BY <1>1, <2>2, AtPcFacts
  <2> QED
    BY <1>1, <2>1, <2>2, <2>3, LocalQuiet
<1>3. CASE AthrowCaught
  BY <1>1, <1>3, AthrowCaughtFacts, LocalQuiet
<1>4. CASE Store0
  <2>1. /\ HasFrame
        /\ TopFrame.method \in Methods
        /\ Code[TopFrame.method][TopFrame.pc + 1].op = "store0"
        /\ TopFrame.pc + 1 \in DOMAIN Code[TopFrame.method]
    BY <1>1, <1>4, Store0Facts
  <2>2. TopFrame.method \notin SyncMethods
    BY <2>1 DEF EntryOnly, Structured
  <2>3. TopFrame.waitingObj = Null
    BY <1>4 DEF Store0, At, CanExecute
  <2> QED
    BY <1>1, <1>4, <2>1, <2>2, <2>3, Store0Facts, LocalQuiet
<1> QED
  BY <1>2, <1>3, <1>4

\* The top frame was waiting to enter its method.
LEMMA WaitingTop ==
  ASSUME Orderly, HasFrame, ~TopFrame.lock, TopFrame.waitingObj # Null,
         NEW c \in Addr, c = TopAddr
  PROVE  /\ frame[c] = TopFrame
         /\ TopFrame.method \in SyncMethods
         /\ TopFrame.pc = 0
         /\ TopFrame.lv0 = TopFrame.waitingObj
         /\ Tries(c, TopFrame.waitingObj)
<1>1. Live(c) /\ frame[c] = TopFrame
  BY TopFacts DEF Orderly, Base, TopFrame
<1>2. IsSync(c) /\ Entering(c)
  BY <1>1 DEF Orderly, WaitersEnter
<1>3. Tries(c, TopFrame.waitingObj)
  BY <1>1, <1>2 DEF Tries, Asleep, Wanted, Inside, InMethod
<1> QED
  BY <1>1, <1>2, <1>3 DEF IsSync, Entering

LEMMA AcquireEffect ==
  ASSUME Orderly, Acquire
  PROVE  \E c \in Addr, o \in Objects : c = TopAddr /\ Enters(c, o)
<1>1. /\ Base /\ HasFrame
      /\ frame' = [frame EXCEPT ![TopAddr] = AcquiredFrame]
      /\ AcquiredFrame \in Frame
      /\ AcquiredFrame.method = TopFrame.method
      /\ AcquiredFrame.lv0 = TopFrame.lv0
      /\ AcquiredFrame.lock = TopFrame.lock
      /\ AcquiredFrame.waitingObj = Null
      /\ ~TopFrame.lock
  BY AcquireFacts DEF Orderly, Acquire
<1>2. PICK o \in Objects : o = TopFrame.waitingObj /\ CanLock(o) /\ Lock(o)
  BY <1>1, AcquireFacts
<1>3. PICK c \in Addr : c = TopAddr
  BY <1>1, OthersUntouched
<1>4. /\ TopFrame.method \in SyncMethods
      /\ TopFrame.lv0 = o
      /\ Tries(c, o)
  BY <1>1, <1>2, <1>3, NamesAssumption, WaitingTop
<1>5. frame'[c] = AcquiredFrame /\ \A a \in Addr \ {c} : Untouched(a)
  BY <1>1, <1>3, OthersUntouched
<1>6. Wanted(c)' = Null /\ ~Asleep(c)'
  BY <1>1, <1>5 DEF Wanted, Asleep
<1>7. ASSUME NEW p \in Objects
      PROVE  Inside(c, p)' <=> p = o
  BY <1>1, <1>4, <1>5, FreedAssumption, NamesAssumption
  DEF Inside, InMethod, IsSync, Entering, Live
<1> QED
  BY <1>2, <1>3, <1>4, <1>5, <1>6, <1>7 DEF Enters

LEMMA RewaitEffect ==
  ASSUME Orderly, Rewait
  PROVE  \E c \in Addr, o \in Objects : c = TopAddr /\ Sleeps(c, o)
<1>1. Base /\ HasFrame /\ ~TopFrame.lock /\ UNCHANGED monitor
  BY DEF Orderly, Rewait
<1>2. PICK o \in Objects : /\ o = TopFrame.waitingObj
                           /\ monitor[o] # 0
                           /\ frame' = [frame EXCEPT ![TopAddr] = BlockedFrame(o)]
  BY <1>1, RewaitFacts
<1>3. PICK c \in Addr : c = TopAddr
  BY <1>1, <1>2, OthersUntouched
<1>4. /\ TopFrame.method \in SyncMethods
      /\ TopFrame.pc = 0
      /\ TopFrame.lv0 = o
      /\ Tries(c, o)
  BY <1>1, <1>2, <1>3, NamesAssumption, WaitingTop
<1>5. frame'[c] = BlockedFrame(o) /\ \A a \in Addr \ {c} : Untouched(a)
  BY <1>1, <1>2, <1>3, OthersUntouched
<1>6. /\ Live(c)'
      /\ frame'[c].waitingObj = o /\ frame'[c].lock
      /\ frame'[c].pc = 0 /\ frame'[c].lv0 = o
  BY <1>1, <1>4, <1>5, BlockedFrameFacts, FreedAssumption DEF Live
<1>7. Wanted(c)' = o /\ Asleep(c)' /\ Entering(c)'
  BY <1>6 DEF Wanted, Asleep, Entering
<1> QED
  BY <1>1, <1>2, <1>3, <1>4, <1>5, <1>7 DEF Sleeps, Inside, InMethod

LEMMA InvokeEffect ==
  ASSUME Orderly, NEW b \in Addr, Invoke(b)
  PROVE  Quiet \/ \E o \in Objects : Enters(b, o) \/ Sleeps(b, o)
<1>1. /\ Base /\ HasFrame /\ TopFrame.waitingObj = Null
      /\ b # TopAddr /\ ~Live(b)
      /\ TopFrame.pc + 1 \in Nat
      /\ frame'[TopAddr] = AtPc(TopFrame.pc + 1)
      /\ \A a \in Addr \ {b, TopAddr} : frame'[a] = frame[a]
      /\ frame'[b] \in Frame
      /\ frame'[b].pc = 0
  BY InvokeFacts DEF Orderly
<1>2. /\ AtPc(TopFrame.pc + 1) \in Frame
      /\ AtPc(TopFrame.pc + 1).method = TopFrame.method
      /\ AtPc(TopFrame.pc + 1).lv0 = TopFrame.lv0
      /\ AtPc(TopFrame.pc + 1).lock = TopFrame.lock
      /\ AtPc(TopFrame.pc + 1).waitingObj = Null
  BY <1>1, AtPcFacts
<1>3. \A a \in Addr \ {b} : Untouched(a)
  BY <1>1, <1>2, TopUntouched, SameFrameUntouched
<1>4. Live(b)'
  BY <1>1, FreedAssumption DEF Live
<1>5. \A o \in Objects : Tries(b, o)
  BY <1>1 DEF Tries, Asleep, Wanted, Inside, InMethod
<1>6. CASE /\ frame'[b].method \notin SyncMethods
           /\ ~frame'[b].lock
           /\ frame'[b].waitingObj = Null
           /\ UNCHANGED monitor
  <2>1. Untouched(b)
    BY <1>1, <1>4, <1>6
    DEF Untouched, Wanted, Asleep, Inside, InMethod, IsSync
  <2> QED
    BY <1>3, <1>6, <2>1 DEF Quiet
<1>7. ASSUME NEW o \in Objects,
             frame'[b].method \in SyncMethods, frame'[b].lv0 = o,
             CanLock(o), Lock(o), ~frame'[b].lock, frame'[b].waitingObj = Null
      PROVE  Enters(b, o)
  <2>1. Wanted(b)' = Null /\ ~Asleep(b)'
    BY <1>7 DEF Wanted, Asleep
  <2>2. \A p \in Objects : Inside(b, p)' <=> p = o
    BY <1>4, <1>7, NamesAssumption DEF Inside, InMethod, IsSync, Entering
  <2> QED
    BY <1>3, <1>5, <1>7, <2>1, <2>2 DEF Enters
<1>8. ASSUME NEW o \in Objects,
             frame'[b].lv0 = o, monitor[o] # 0, frame'[b].lock,
             frame'[b].waitingObj = o, UNCHANGED monitor
      PROVE  Sleeps(b, o)
  <2>1. Wanted(b)' = o /\ Asleep(b)' /\ Entering(b)'
    BY <1>1, <1>4, <1>8 DEF Wanted, Asleep, Entering
  <2> QED
    BY <1>3, <1>5, <1>8, <2>1 DEF Sleeps, Inside, InMethod
<1> QED
  BY <1>6, <1>7, <1>8, InvokeFacts DEF Orderly

LEMMA MethodDoneEffect ==
  ASSUME Orderly, Return \/ AthrowUncaught
  PROVE  Quiet \/ \E c \in Addr, o \in Objects : c = TopAddr /\ Leaves(c, o)
<1>1. /\ Base /\ HasFrame
      /\ ~TopFrame.lock /\ TopFrame.waitingObj = Null
      /\ MethodDone
  BY MethodDoneFacts DEF Orderly, Return, AthrowUncaught
<1>2. PICK c \in Addr : c = TopAddr /\ Live(c) /\ frame[c] = TopFrame
  BY <1>1, TopFacts DEF Base, TopFrame
<1>3. ~Live(c)'
  BY <1>1, <1>2, MethodDoneFacts
<1>4. /\ Wanted(c) = Null /\ Wanted(c)' = Null
      /\ ~Asleep(c) /\ ~Asleep(c)'
      /\ \A p \in Objects : ~Inside(c, p)'
  BY <1>1, <1>2, <1>3 DEF Wanted, Asleep, Inside, InMethod
<1>5. CASE ~IsSync(c)
  <2>1. frame' = [frame EXCEPT ![c] = Freed] /\ UNCHANGED monitor
    BY <1>1, <1>2, <1>5 DEF MethodDone
  <2>2. \A a \in Addr \ {c} : Untouched(a)
    BY <1>1, <2>1, SameFrameUntouched DEF Base, TypeOK
  <2>3. Untouched(c)
    BY <1>4, <1>5 DEF Untouched, Inside, InMethod
  <2> QED
    BY <2>1, <2>2, <2>3 DEF Quiet
<1>6. CASE IsSync(c)
  <2>1. PICK o \in Objects :
          /\ o = TopFrame.lv0
          /\ monitor' = [monitor EXCEPT ![o] = Decremented(@)]
          /\ \A a \in notify[o] : Live(a)' => ~frame'[a].lock
    BY <1>1, <1>2, <1>6, MethodDoneFacts
  <2>2. Inside(c, o)
    BY <1>1, <1>2, <1>6, <2>1, NamesAssumption DEF Inside, InMethod, Entering
  <2>3. ASSUME NEW a \in Addr \ {c}
        PROVE  /\ Live(a)' <=> Live(a)
               /\ Live(a) => /\ frame'[a].method = frame[a].method
                             /\ frame'[a].pc = frame[a].pc
                             /\ frame'[a].lv0 = frame[a].lv0
                             /\ frame'[a].waitingObj = frame[a].waitingObj
                             /\ frame'[a].lock => frame[a].lock
    BY <1>1, <1>2, MethodDoneFacts
  <2>4. \A a \in Addr \ {c}, p \in Objects : Inside(a, p)' <=> Inside(a, p)
    BY <2>3 DEF Inside, InMethod, IsSync, Entering
  <2>5. \A a \in Addr : Wanted(a)' = Wanted(a)
    BY <1>4, <2>3 DEF Wanted
  <2>6. ASSUME NEW a \in Addr, Asleep(a)'
        PROVE  Asleep(a) /\ Wanted(a) # o
    <3>1. Asleep(a) /\ a \notin notify[o]
      BY <1>4, <2>1, <2>3, <2>6 DEF Asleep
    <3>2. a \in notify[frame[a].waitingObj]
      BY <3>1 DEF Asleep, Orderly, NoLostWakeup
    <3> QED
      BY <3>1, <3>2 DEF Wanted, Asleep
  <2> QED
    BY <1>2, <1>4, <2>1, <2>2, <2>4, <2>5, <2>6 DEF Leaves
<1> QED
  BY <1>5, <1>6

LEMMA NoMonitorEnter ==
  ASSUME EntryOnly, Base
  PROVE  ~MonitorEnter
<1> SUFFICES ASSUME MonitorEnter PROVE FALSE
  OBVIOUS
<1>1. At("monitorenter")
  BY DEF MonitorEnter
<1>2. /\ TopFrame.method \in Methods
      /\ TopFrame.pc \in Nat /\ TopFrame.pc < Len(Code[TopFrame.method])
      /\ Instr.op = "monitorenter"
  BY <1>1, InstrFacts
<1>3. TopFrame.pc + 1 \in DOMAIN Code[TopFrame.method]
  BY <1>2, CodeAssumption
<1> QED
  BY <1>2, <1>3 DEF EntryOnly, Instr

\* The first frame of a thread has no object.
LEMMA AddNewThreadQuiet ==
  ASSUME Base, NEW t \in Threads, NEW b \in Addr, NEW m \in EntryMethods,
         AddNewThread(t, b, m)
  PROVE  Quiet
<1>1. frame' = [frame EXCEPT ![b] = NewFrame(m, Null)] /\ UNCHANGED monitor /\ ~Live(b)
  BY DEF AddNewThread
<1>2. /\ frame'[b] = NewFrame(m, Null)
      /\ \A a \in Addr \ {b} : frame'[a] = frame[a]
  BY <1>1 DEF Base, TypeOK
<1>3. /\ frame'[b].lv0 = Null
      /\ frame'[b].waitingObj = Null
      /\ ~frame'[b].lock
  BY <1>2 DEF NewFrame
<1>4. Untouched(b)
  BY <1>1, <1>3 DEF Untouched, Wanted, Asleep, Inside, InMethod
<1> QED
  BY <1>1, <1>2, <1>4, SameFrameUntouched DEF Quiet

LEMMA EffectStep ==
  ASSUME EntryOnly, Orderly, [Next]_vars
  PROVE  Effect
<1>1. Structured /\ Base
  BY DEF EntryOnly, Orderly
<1>2. CASE UNCHANGED vars
  BY <1>2, FramesUnchangedQuiet DEF vars, Effect
<1>3. CASE ExecThreads \/ PopThread \/ PopNothing \/ SliceExpires \/ Yield \/ Drop \/ Abort
  BY <1>3, FramesUnchangedQuiet
  DEF ExecThreads, PopThread, PopNothing, SliceExpires, Yield, Drop, Abort, vars, Effect
<1>4. ASSUME NEW t \in Threads, NEW a \in Addr, NEW m \in EntryMethods,
             AddNewThread(t, a, m)
      PROVE  Effect
  BY <1>1, <1>4, AddNewThreadQuiet DEF Effect
<1>5. CASE Acquire \/ Rewait
  BY <1>5, AcquireEffect, RewaitEffect DEF Effect
<1>6. CASE NextInstruction \/ Branch \/ Store0 \/ AthrowCaught
  BY <1>6, LocalEffect DEF Effect
<1>7. ASSUME NEW b \in Addr, Invoke(b)
      PROVE  Effect
  BY <1>7, InvokeEffect DEF Effect
<1>8. CASE Return \/ AthrowUncaught
  BY <1>8, MethodDoneEffect DEF Effect
<1>9. ~MonitorEnter /\ ~MonitorExit
  BY <1>1, NoMonitorEnter, NoMonitorExit
<1> QED
  BY <1>2, <1>3, <1>4, <1>5, <1>6, <1>7, <1>8, <1>9 DEF Next, CheckFrame, Execute

-----------------------------------------------------------------------------
(* The two invariants beyond those of the monitors *)

LEMMA WaitersEnterStep ==
  ASSUME EntryOnly, Orderly, [Next]_vars
  PROVE  WaitersEnter'
<1>1. Structured /\ Base
  BY DEF EntryOnly, Orderly
<1>2. ASSUME NEW a \in Addr, frame'[a] = frame[a], Live(a)', frame'[a].waitingObj # Null
      PROVE  IsSync(a)' /\ Entering(a)'
  BY <1>2 DEF Orderly, WaitersEnter, IsSync, Entering, Live
<1>3. CASE UNCHANGED frame
  BY <1>2, <1>3 DEF WaitersEnter
<1>4. ASSUME NEW a \in Addr, NEW f, frame' = [frame EXCEPT ![a] = f], f.waitingObj = Null
      PROVE  WaitersEnter'
  <2>1. frame'[a] = f /\ \A b \in Addr \ {a} : frame'[b] = frame[b]
    BY <1>1, <1>4 DEF Base, TypeOK
  <2> QED
    BY <1>2, <1>4, <2>1 DEF WaitersEnter
<1>5. ASSUME NEW t \in Threads, NEW a \in Addr, NEW m \in EntryMethods,
             AddNewThread(t, a, m)
      PROVE  WaitersEnter'
  <2>1. frame' = [frame EXCEPT ![a] = NewFrame(m, Null)]
    BY <1>5 DEF AddNewThread
  <2>2. NewFrame(m, Null).waitingObj = Null
    BY DEF NewFrame
  <2> QED
    BY <1>4, <2>1, <2>2
<1>6. HasFrame => TopAddr \in Addr
  BY <1>1, TopFacts DEF Base
<1>7. CASE Acquire
  BY <1>1, <1>4, <1>6, <1>7, AcquireFacts
<1>8. CASE NextInstruction \/ Branch
  <2>1. HasFrame /\ TopFrame.waitingObj = Null
    BY <1>1, <1>8, GotoFacts
  <2>2. PICK pc \in Nat : frame' = [frame EXCEPT ![TopAddr] = AtPc(pc)]
    BY <1>1, <1>8, GotoFacts
  <2>3. AtPc(pc).waitingObj = Null
    BY <1>1, <2>1, AtPcFacts
  <2> QED
    BY <1>4, <1>6, <2>1, <2>2, <2>3
<1>9. CASE Store0
  <2>1. TopFrame.waitingObj = Null
    BY <1>9 DEF Store0, At, CanExecute
  <2> QED
    BY <1>1, <1>4, <1>6, <1>9, <2>1, Store0Facts
<1>10. CASE AthrowCaught
  BY <1>1, <1>4, <1>6, <1>10, AthrowCaughtFacts
<1>11. CASE Rewait
  <2>1. Base /\ HasFrame /\ ~TopFrame.lock
    BY <1>1, <1>11 DEF Rewait
  <2>2. PICK o \in Objects : /\ o = TopFrame.waitingObj
                             /\ frame' = [frame EXCEPT ![TopAddr] = BlockedFrame(o)]
    BY <1>1, <1>11, RewaitFacts
  <2>3. PICK c \in Addr : c = TopAddr
    BY <1>6, <2>1
  <2>4. frame'[c] = BlockedFrame(o) /\ \A b \in Addr \ {c} : frame'[b] = frame[b]
    BY <2>1, <2>2, <2>3 DEF Base, TypeOK
  <2>5. /\ TopFrame.method \in SyncMethods
        /\ TopFrame.pc = 0 /\ TopFrame.lv0 = o
    BY <2>1, <2>2, <2>3, NamesAssumption, WaitingTop
  <2>6. IsSync(c)' /\ Entering(c)'
    BY <2>1, <2>4, <2>5, BlockedFrameFacts DEF IsSync, Entering
  <2> QED
    BY <1>2, <2>4, <2>6 DEF WaitersEnter
<1>12. ASSUME NEW b \in Addr, Invoke(b)
       PROVE  WaitersEnter'
  <2>1. /\ HasFrame /\ TopFrame.waitingObj = Null
        /\ TopFrame.pc + 1 \in Nat
        /\ frame'[TopAddr] = AtPc(TopFrame.pc + 1)
        /\ \A a \in Addr \ {b, TopAddr} : frame'[a] = frame[a]
        /\ frame'[b].pc = 0
        /\ frame'[b].waitingObj # Null =>
             frame'[b].method \in SyncMethods /\ frame'[b].lv0 = frame'[b].waitingObj
    BY <1>1, <1>12, InvokeFacts
  <2>2. frame'[TopAddr].waitingObj = Null
    BY <1>1, <2>1, AtPcFacts
  <2>3. frame'[b].waitingObj # Null => IsSync(b)' /\ Entering(b)'
    BY <2>1 DEF IsSync, Entering
  <2> QED
    BY <1>2, <2>1, <2>2, <2>3 DEF WaitersEnter
<1>13. CASE Return \/ AthrowUncaught
  <2>1. /\ \A a \in Addr : Live(a)' <=> Live(a) /\ a # TopAddr
        /\ \A a \in Addr \ {TopAddr} : Live(a) =>
             /\ frame'[a].method = frame[a].method
             /\ frame'[a].pc = frame[a].pc
             /\ frame'[a].lv0 = frame[a].lv0
             /\ frame'[a].waitingObj = frame[a].waitingObj
    BY <1>1, <1>13, MethodDoneFacts
  <2> QED
    BY <2>1 DEF Orderly, WaitersEnter, IsSync, Entering
<1>14. CASE ExecThreads \/ PopThread \/ PopNothing \/ SliceExpires \/ Yield \/ Drop \/ Abort
  BY <1>3, <1>14
  DEF ExecThreads, PopThread, PopNothing, SliceExpires, Yield, Drop, Abort, vars
<1>15. ~MonitorEnter /\ ~MonitorExit
  BY <1>1, NoMonitorEnter, NoMonitorExit
<1> QED
  BY <1>3, <1>5, <1>7, <1>8, <1>9, <1>10, <1>11, <1>12, <1>13, <1>14, <1>15
  DEF Next, CheckFrame, Execute, vars

LEMMA LockedIsHeldStep ==
  ASSUME EntryInv, LockedIsHeld, Effect
  PROVE  LockedIsHeld'
<1> SUFFICES ASSUME NEW p \in Objects, monitor'[p] # 0
             PROVE  \E a \in Addr : Inside(a, p)'
  BY DEF LockedIsHeld
<1>1. monitor \in [Objects -> MinMonitor..MaxMonitor]
  BY DEF EntryInv, Orderly, Base, TypeOK
<1>2. CASE Quiet
  BY <1>2 DEF Quiet, Untouched, LockedIsHeld
<1>3. ASSUME NEW c \in Addr, NEW o \in Objects, Enters(c, o)
      PROVE  \E a \in Addr : Inside(a, p)'
  <2>1. p # o => monitor'[p] = monitor[p]
    BY <1>3, LockTyping DEF Enters, EntryInv, Orderly, Base
  <2> QED
    BY <1>3, <2>1 DEF Enters, Tries, Untouched, LockedIsHeld
<1>4. ASSUME NEW c \in Addr, NEW o \in Objects, Sleeps(c, o)
      PROVE  \E a \in Addr : Inside(a, p)'
  BY <1>4 DEF Sleeps, Tries, Untouched, LockedIsHeld
<1>5. ASSUME NEW c \in Addr, NEW o \in Objects, Leaves(c, o)
      PROVE  \E a \in Addr : Inside(a, p)'
  <2>1. monitor[o] = 1
    BY <1>5 DEF Leaves, Inside, EntryInv, Exclusive, HeldIsLocked
  <2>2. p # o /\ monitor'[p] = monitor[p]
    BY <1>5, <2>1, DecrementTyping DEF Leaves, EntryInv, Orderly, Base
  <2>3. PICK a \in Addr : Inside(a, p)
    BY <2>2 DEF LockedIsHeld
  <2>4. a # c
    BY <1>5, <2>2, <2>3 DEF Leaves, Inside
  <2> QED
    BY <1>5, <2>3, <2>4 DEF Leaves
<1> QED
  BY <1>2, <1>3, <1>4, <1>5 DEF Effect

\* In a program that locks with synchronized methods only, whoever waits is at the
\* entry of its method, and an object is locked only while a frame is inside.
THEOREM CountersCountEntries ==
  ASSUME EntryOnly
  PROVE  Spec => [](EntryInv /\ LockedIsHeld)
<1>1. Init => EntryInv /\ LockedIsHeld
  <2> SUFFICES ASSUME Init PROVE EntryInv /\ LockedIsHeld
    OBVIOUS
  <2>1. WaitersEnter /\ LockedIsHeld
    BY DEF Init, WaitersEnter, LockedIsHeld, Live
  <2> QED
    BY <2>1, BaseInit, WakeupInit, ExclusiveInit DEF EntryInv, Orderly
<1>2. EntryInv /\ LockedIsHeld /\ [Next]_vars => EntryInv' /\ LockedIsHeld'
  <2> SUFFICES ASSUME EntryInv, LockedIsHeld, [Next]_vars
               PROVE  EntryInv' /\ LockedIsHeld'
    OBVIOUS
  <2>1. Base' /\ NoLostWakeup' /\ Exclusive'
    BY BaseStep, WakeupStep, ExclusiveStep DEF EntryOnly, EntryInv, Orderly
  <2>2. LockedIsHeld'
    BY EffectStep, LockedIsHeldStep DEF EntryInv
  <2> QED
    BY <2>1, <2>2, WaitersEnterStep DEF EntryInv, Orderly
<1> QED
  BY <1>1, <1>2, PTL DEF Spec

-----------------------------------------------------------------------------
(* Each effect is a step of EntryMonitor, or none *)

LEMMA OwnerFacts ==
  ASSUME Exclusive, NEW o \in Objects
  PROVE  /\ \A a \in Addr : Inside(a, o) => Owner(o) = a
         /\ (\A a \in Addr : ~Inside(a, o)) => Owner(o) = Null
<1>1. ASSUME NEW a \in Addr, Inside(a, o)
      PROVE  Owner(o) = a
  <2>1. \A b \in Addr : InMethod(b) /\ frame[b].lv0 = o => b = a
    BY <1>1 DEF Exclusive, MutualExclusion, Inside
  <2> QED
    BY <1>1, <2>1 DEF Owner, Inside
<1>2. ASSUME \A a \in Addr : ~Inside(a, o)
      PROVE  Owner(o) = Null
  BY <1>2 DEF Owner, Inside
<1> QED
  BY <1>1, <1>2

\* The same of the next state.
LEMMA NextOwnerFacts ==
  ASSUME Exclusive', NEW o \in Objects
  PROVE  /\ \A a \in Addr : Inside(a, o)' => Owner(o)' = a
         /\ (\A a \in Addr : ~Inside(a, o)') => Owner(o)' = Null
<1>1. ASSUME NEW a \in Addr, Inside(a, o)'
      PROVE  Owner(o)' = a
  <2>1. \A b \in Addr : InMethod(b)' /\ frame'[b].lv0 = o => b = a
    BY <1>1 DEF Exclusive, MutualExclusion, Inside
  <2> QED
    BY <1>1, <2>1 DEF Owner, Inside
<1>2. ASSUME \A a \in Addr : ~Inside(a, o)'
      PROVE  Owner(o)' = Null
  BY <1>2 DEF Owner, Inside
<1> QED
  BY <1>1, <1>2

\* An object keeps its owner when the same frames are inside of it.
LEMMA SameOwner ==
  ASSUME Exclusive, Exclusive', NEW o \in Objects,
         \A a \in Addr : Inside(a, o)' <=> Inside(a, o)
  PROVE  Owner(o)' = Owner(o)
BY OwnerFacts, NextOwnerFacts

LEMMA EntryInit == Init => Entry!Init
<1> SUFFICES ASSUME Init PROVE Entry!Init
  OBVIOUS
<1>1. \A a \in Addr : ~Live(a)
  BY DEF Init, Live
<1>2. \A o \in Objects : Owner(o) = Null
  BY <1>1 DEF Owner, InMethod
<1>3. \A a \in Addr : Wanted(a) = Null
  BY <1>1 DEF Wanted
<1> QED
  BY <1>1, <1>2, <1>3 DEF Entry!Init

LEMMA QuietStutters ==
  ASSUME Exclusive, Exclusive', Quiet
  PROVE  UNCHANGED Entry!vars
<1>1. \A o \in Objects : Owner(o)' = Owner(o)
  BY SameOwner DEF Quiet, Untouched
<1>2. \A a \in Addr : Wanted(a)' = Wanted(a)
  BY DEF Quiet, Untouched
<1>3. \A a \in Addr : (Live(a) /\ frame[a].lock)' <=> Live(a) /\ frame[a].lock
  BY DEF Quiet, Untouched, Asleep
<1> QED
  BY <1>1, <1>2, <1>3 DEF Entry!vars

LEMMA TriesMayTry ==
  ASSUME Exclusive, NEW c \in Addr, NEW o \in Objects, Tries(c, o)
  PROVE  Entry!MayTry(c, o)
<1>1. \A p \in Objects : Owner(p) # c
  <2> SUFFICES ASSUME NEW p \in Objects PROVE Owner(p) # c
    OBVIOUS
  <2>1. CASE \E a \in Addr : Inside(a, p)
    BY <2>1, OwnerFacts DEF Tries
  <2>2. CASE \A a \in Addr : ~Inside(a, p)
    BY <2>2, OwnerFacts, AddrAssumption
  <2> QED
    BY <2>1, <2>2
<1> QED
  BY <1>1 DEF Entry!MayTry, Tries, Asleep

LEMMA EntersIsEnter ==
  ASSUME EntryInv, Exclusive', NEW c \in Addr, NEW o \in Objects, Enters(c, o)
  PROVE  Entry!Enter(c, o)
<1>1. Exclusive /\ Base
  BY DEF EntryInv, Orderly
<1>2. Entry!MayTry(c, o)
  BY <1>1, TriesMayTry DEF Enters
<1>3. Owner(o) = Null
  <2>1. \A a \in Addr : ~Inside(a, o)
    BY <1>1 DEF Enters, CanLock, Exclusive, HeldIsLocked, Inside
  <2> QED
    BY <1>1, <2>1, OwnerFacts
<1>4. \A p \in Objects : Owner(p)' = IF p = o THEN c ELSE Owner(p)
  <2>1. Owner(o)' = c
    BY NextOwnerFacts DEF Enters
  <2>2. ASSUME NEW p \in Objects, p # o
        PROVE  Owner(p)' = Owner(p)
    <3>1. \A a \in Addr : Inside(a, p)' <=> Inside(a, p)
      BY <2>2 DEF Enters, Tries, Untouched
    <3> QED
      BY <1>1, <3>1, SameOwner
  <2> QED
    BY <2>1, <2>2
<1>5. \A a \in Addr : Wanted(a)' = IF a = c THEN Null ELSE Wanted(a)
  BY DEF Enters, Untouched
<1>6. \A a \in Addr : (Live(a) /\ frame[a].lock)' <=> Live(a) /\ frame[a].lock
  BY DEF Enters, Tries, Untouched, Asleep
<1> QED
  BY <1>2, <1>3, <1>4, <1>5, <1>6 DEF Entry!Enter

LEMMA SleepsIsSleep ==
  ASSUME EntryInv, LockedIsHeld, Exclusive',
         NEW c \in Addr, NEW o \in Objects, Sleeps(c, o)
  PROVE  Entry!Sleep(c, o)
<1>1. Exclusive /\ Base
  BY DEF EntryInv, Orderly
<1>2. Entry!MayTry(c, o)
  BY <1>1, TriesMayTry DEF Sleeps
<1>3. Owner(o) # Null
  <2>1. PICK a \in Addr : Inside(a, o)
    BY DEF Sleeps, LockedIsHeld
  <2> QED
    BY <1>1, <2>1, OwnerFacts, AddrAssumption
<1>4. \A p \in Objects : Owner(p)' = Owner(p)
  BY <1>1, SameOwner DEF Sleeps, Tries, Untouched
<1>5. \A a \in Addr : Wanted(a)' = IF a = c THEN o ELSE Wanted(a)
  BY DEF Sleeps, Untouched
<1>6. \A a \in Addr : (Live(a) /\ frame[a].lock)' <=> a = c \/ (Live(a) /\ frame[a].lock)
  BY DEF Sleeps, Untouched, Asleep
<1> QED
  BY <1>2, <1>3, <1>4, <1>5, <1>6 DEF Entry!Sleep

LEMMA LeavesIsExit ==
  ASSUME EntryInv, Exclusive', NEW c \in Addr, NEW o \in Objects, Leaves(c, o)
  PROVE  Entry!Exit(o)
<1>1. Exclusive
  BY DEF EntryInv
<1>2. Owner(o) = c /\ c # Null
  BY <1>1, OwnerFacts, AddrAssumption DEF Leaves
<1>3. \A a \in Addr, p \in Objects : Inside(a, p)' <=> Inside(a, p) /\ a # c
  BY DEF Leaves
<1>4. \A p \in Objects : Owner(p)' = IF p = o THEN Null ELSE Owner(p)
  <2>1. Owner(o)' = Null
    <3>1. \A a \in Addr : ~Inside(a, o)'
      BY <1>1, <1>2, <1>3, OwnerFacts
    <3> QED
      BY <3>1, NextOwnerFacts
  <2>2. ASSUME NEW p \in Objects, p # o
        PROVE  Owner(p)' = Owner(p)
    <3>1. ~Inside(c, p)
      BY <2>2 DEF Leaves, Inside
    <3> QED
      BY <1>1, <1>3, <3>1, SameOwner
  <2> QED
    BY <2>1, <2>2
<1>5. \A a \in Addr : Wanted(a)' = Wanted(a)
  BY DEF Leaves
<1> DEFINE sleepers == {a \in Addr : Live(a) /\ frame[a].lock}
           woken == sleepers \ sleepers'
<1>6. /\ sleepers' \subseteq sleepers
      /\ \A a \in sleepers : Wanted(a) = o => a \in woken
  BY DEF Leaves, Asleep
<1>7. woken \in SUBSET sleepers /\ sleepers' = sleepers \ woken
  BY <1>6
<1> HIDE DEF woken
<1> QED
  BY <1>2, <1>4, <1>5, <1>6, <1>7 DEF Entry!Exit

LEMMA EntryStep ==
  ASSUME EntryInv, LockedIsHeld, Exclusive', Effect
  PROVE  [Entry!Next]_(Entry!vars)
<1>1. CASE Quiet
  BY <1>1, QuietStutters DEF EntryInv
<1>2. ASSUME NEW c \in Addr, NEW o \in Objects, Enters(c, o) \/ Sleeps(c, o) \/ Leaves(c, o)
      PROVE  Entry!Next
  BY <1>2, EntersIsEnter, SleepsIsSleep, LeavesIsExit DEF Entry!Next
<1> QED
  BY <1>1, <1>2 DEF Effect

\* Synchronized methods, as the scheduler and the interpreter run them, are an
\* EntryMonitor: in every program that locks with them only, with any number of
\* threads and objects, through clock jumps, dropped threads and stale callbacks.
THEOREM MonitorsAreImplemented ==
  ASSUME EntryOnly
  PROVE  Spec => ImplementsEntryMonitor
<1>1. /\ EntryInv /\ LockedIsHeld /\ (EntryInv /\ LockedIsHeld)' /\ [Next]_vars
        => [Entry!Next]_(Entry!vars)
  BY EffectStep, EntryStep DEF EntryInv
<1> QED
  BY CountersCountEntries, EntryInit, <1>1, PTL
  DEF Spec, ImplementsEntryMonitor, Entry!Spec

-----------------------------------------------------------------------------
Holds(t, o) == \E a \in Addr : a \in ToSet(stack[t]) /\ Inside(a, o)
TopAsleep(t) == stack[t] # <<>> /\ Asleep(Top(t))
WaitedFor(o) == \E a \in Addr : Wanted(a) = o

\* Nobody who waits has been woken.
WaitersSleep == \A a \in Addr : Wanted(a) # Null => Asleep(a)

\* No callback is stale.
CallbacksAreDue == \A o \in Objects : \A a \in notify[o] : Wanted(a) = o

\* The current thread holds nothing that somebody waits for, or is about to yield.
RunnerIsNotWaitedFor ==
  \A o \in Objects :
    current \in Threads /\ WaitedFor(o) /\ Holds(current, o) => TopAsleep(current)

\* A thread in the queue that holds anything sleeps.
QueuedHoldersSleep ==
  \A t \in ToSet(threads), o \in Objects : Holds(t, o) => TopAsleep(t)

Cooperative ==
  WaitersSleep /\ CallbacksAreDue /\ RunnerIsNotWaitedFor /\ QueuedHoldersSleep

BlockedInv == EntryInv /\ LockedIsHeld /\ OnePlacePerThread /\ Cooperative

-----------------------------------------------------------------------------
(* The current thread, about to execute its top frame *)

LEMMA StackTyping ==
  ASSUME Base, NEW t \in Threads
  PROVE  /\ stack[t] \in Seq(Addr)
         /\ \A a \in ToSet(stack[t]) : a \in Addr /\ Live(a)
         /\ stack[t] # <<>> => Top(t) \in ToSet(stack[t])
         /\ \A u \in Threads : \A a \in ToSet(stack[t]) : a \in ToSet(stack[u]) => t = u
<1>1. stack[t] \in Seq(Addr)
  BY DEF Base, TypeOK
<1>2. ASSUME stack[t] # <<>>
      PROVE  Top(t) \in ToSet(stack[t])
  <2>1. Len(stack[t]) \in DOMAIN stack[t]
    BY <1>1, <1>2
  <2> QED
    BY <2>1 DEF Top, Last, ToSet
<1>3. \A a \in ToSet(stack[t]) : a \in Addr /\ Live(a)
  BY <1>1 DEF ToSet, Base, FramesOnOneStack
<1>4. \A u \in Threads : \A a \in ToSet(stack[t]) : a \in ToSet(stack[u]) => t = u
  BY DEF ToSet, Base, FramesOnOneStack
<1> QED
  BY <1>1, <1>2, <1>3, <1>4

LEMMA RunnerFacts ==
  ASSUME BlockedInv, HasFrame, ~TopFrame.lock
  PROVE  /\ current \in Threads
         /\ current \notin ToSet(threads)
         /\ TopAddr \in Addr /\ TopAddr \in ToSet(stack[current])
         /\ TopFrame.waitingObj = Null
         /\ \A o \in Objects : Holds(current, o) => ~WaitedFor(o)
<1>1. /\ current \in Threads /\ TopAddr \in Addr /\ Live(TopAddr)
      /\ stack[current] # <<>> /\ TopAddr = Top(current)
  BY TopFacts DEF BlockedInv, EntryInv, Orderly, Base, TopAddr, HasFrame
<1>2. ~Asleep(TopAddr) /\ ~TopAsleep(current)
  BY <1>1 DEF Asleep, TopFrame, TopAsleep
<1>3. TopFrame.waitingObj = Null
  BY <1>1, <1>2 DEF BlockedInv, Cooperative, WaitersSleep, Wanted, TopFrame
<1>4. current \notin ToSet(threads)
  BY DEF BlockedInv, OnePlacePerThread, ToSet
<1>5. TopAddr \in ToSet(stack[current])
  BY <1>1, StackTyping DEF BlockedInv, EntryInv, Orderly
<1> QED
  BY <1>1, <1>2, <1>3, <1>4, <1>5 DEF BlockedInv, Cooperative, RunnerIsNotWaitedFor

\* Whoever is waited for is locked.
LEMMA WaitedForIsLocked ==
  ASSUME BlockedInv, NEW o \in Objects, WaitedFor(o)
  PROVE  monitor[o] # 0
<1>1. PICK a \in Addr : Wanted(a) = o
  BY DEF WaitedFor
<1>2. Asleep(a)
  BY <1>1, NamesAssumption DEF BlockedInv, Cooperative, WaitersSleep
<1> QED
  BY <1>1, <1>2, NamesAssumption DEF BlockedInv, EntryInv, Orderly, NoLostWakeup, Asleep, Wanted

\* The frames of other threads that the current one leaves alone.
OthersStay ==
  \A t \in Threads \ {current} :
    stack'[t] = stack[t] /\ \A a \in ToSet(stack[t]) : Untouched(a)

\* What a thread holds and whether it sleeps is in its stack and frames.
LEMMA SameThread ==
  ASSUME Base, NEW t \in Threads, stack'[t] = stack[t],
         \A a \in ToSet(stack[t]) : Untouched(a)
  PROVE  /\ TopAsleep(t)' <=> TopAsleep(t)
         /\ \A o \in Objects : Holds(t, o)' <=> Holds(t, o)
<1>1. \A o \in Objects : Holds(t, o)' <=> Holds(t, o)
  BY DEF Holds, Untouched
<1>2. TopAsleep(t)' <=> TopAsleep(t)
  <2>1. CASE stack[t] = <<>>
    BY <2>1 DEF TopAsleep
  <2>2. CASE stack[t] # <<>>
    <3>1. PICK a \in ToSet(stack[t]) : a = Top(t)
      BY <2>2, StackTyping
    <3>2. Top(t)' = a
      BY <3>1 DEF Top
    <3>3. Asleep(a)' <=> Asleep(a)
      BY DEF Untouched
    <3>4. Asleep(Top(t))' <=> Asleep(a)'
      BY <3>2 DEF Asleep, Live
    <3> QED
      BY <2>2, <3>1, <3>3, <3>4 DEF TopAsleep
  <2> QED
    BY <2>1, <2>2
<1> QED
  BY <1>1, <1>2

LEMMA QueueUndisturbed ==
  ASSUME BlockedInv, HasFrame, ~TopFrame.lock, UNCHANGED threads, OthersStay
  PROVE  QueuedHoldersSleep'
<1> SUFFICES ASSUME NEW t \in ToSet(threads), NEW o \in Objects, Holds(t, o)'
             PROVE  TopAsleep(t)'
  BY DEF QueuedHoldersSleep
<1>1. t \in Threads \ {current}
  BY RunnerFacts DEF BlockedInv, EntryInv, Orderly, Base, TypeOK, ToSet
<1>2. /\ TopAsleep(t)' <=> TopAsleep(t)
      /\ Holds(t, o)' <=> Holds(t, o)
  BY <1>1, SameThread DEF OthersStay, BlockedInv, EntryInv, Orderly
<1> QED
  BY <1>2 DEF BlockedInv, Cooperative, QueuedHoldersSleep

-----------------------------------------------------------------------------
(* Cooperative is inductive *)

\* Steps of the scheduler: the frames stay, and only who sleeps or has ended is queued.
LEMMA SchedulerCooperative ==
  ASSUME BlockedInv, ExecThreads \/ PopThread \/ PopNothing \/ Yield \/ Drop \/ Abort
  PROVE  Cooperative'
<1>1. UNCHANGED <<stack, frame, monitor, notify>>
  BY DEF ExecThreads, PopThread, PopNothing, Yield, Drop, Abort, vars
<1>2. Base /\ threads \in Seq(Threads)
  BY DEF BlockedInv, EntryInv, Orderly, Base, TypeOK
<1>3. \A a \in Addr : Untouched(a)
  BY <1>1, SameFrameUntouched
<1>4. \A t \in Threads : TopAsleep(t)' <=> TopAsleep(t)
  BY <1>1, <1>2, <1>3, SameThread, StackTyping
<1>5. \A t \in Threads, o \in Objects : Holds(t, o)' <=> Holds(t, o)
  BY <1>1, <1>2, <1>3, SameThread, StackTyping
<1>6. \A o \in Objects : WaitedFor(o)' <=> WaitedFor(o)
  BY <1>3 DEF WaitedFor, Untouched
<1>7. WaitersSleep' /\ CallbacksAreDue'
  <2>1. \A o \in Objects : notify[o] \subseteq Addr
    BY <1>2 DEF Base, TypeOK
  <2> QED
    BY <1>1, <1>3, <2>1 DEF Untouched, WaitersSleep, CallbacksAreDue, BlockedInv, Cooperative
<1>8. CASE ExecThreads \/ PopNothing \/ Abort
  <2>1. UNCHANGED <<threads, current>>
    BY <1>8 DEF ExecThreads, PopNothing, Abort, vars
  <2>2. \A t \in ToSet(threads) : t \in Threads
    BY <1>2 DEF ToSet
  <2> QED
    BY <1>4, <1>5, <1>6, <1>7, <2>1, <2>2
    DEF BlockedInv, Cooperative, RunnerIsNotWaitedFor, QueuedHoldersSleep
<1>9. CASE PopThread
  <2>1. threads # <<>> /\ current' = Last(threads) /\ threads' = Front(threads)
    BY <1>9 DEF PopThread
  <2>2. /\ current' \in ToSet(threads)
        /\ ToSet(threads') \subseteq ToSet(threads)
        /\ ToSet(threads) \subseteq Threads
    BY <1>2, <2>1 DEF Last, Front, ToSet
  <2>3. \A t \in ToSet(threads), o \in Objects : Holds(t, o)' => TopAsleep(t)'
    BY <1>4, <1>5, <2>2 DEF BlockedInv, Cooperative, QueuedHoldersSleep
  <2>4. PICK r \in ToSet(threads) : r = current'
    BY <2>2
  <2>5. RunnerIsNotWaitedFor'
    BY <2>3, <2>4 DEF RunnerIsNotWaitedFor, Holds, TopAsleep, Top
  <2>6. QueuedHoldersSleep'
    BY <2>2, <2>3 DEF QueuedHoldersSleep
  <2> QED
    BY <1>7, <2>5, <2>6 DEF Cooperative
<1>10. CASE Drop
  <2>1. threads' = threads /\ current' \notin Threads
    BY <1>10, NamesAssumption DEF Drop
  <2>2. \A t \in ToSet(threads) : t \in Threads
    BY <1>2 DEF ToSet
  <2> QED
    BY <1>4, <1>5, <1>7, <2>1, <2>2
    DEF BlockedInv, Cooperative, RunnerIsNotWaitedFor, QueuedHoldersSleep
<1>11. CASE Yield
  <2>1. /\ current \in Threads
        /\ threads' = <<current>> \o threads
        /\ current' \notin Threads
        /\ stack[current] # <<>> => TopFrame.lock
    BY <1>2, <1>11, NamesAssumption DEF Yield, PushThread, Base, TypeOK
  <2>2. stack[current] # <<>> => TopAsleep(current)
    <3>1. stack[current] # <<>> => Live(TopAddr)
      BY <1>2, <2>1, StackTyping DEF TopAddr
    <3> QED
      BY <2>1, <3>1 DEF TopAsleep, Asleep, TopAddr, TopFrame
  <2>3. \A t \in ToSet(threads') : t = current \/ t \in ToSet(threads)
    BY <1>2, <2>1 DEF ToSet
  <2>4. \A t \in ToSet(threads) : t \in Threads
    BY <1>2 DEF ToSet
  <2>5. \A o \in Objects : Holds(current, o) => stack[current] # <<>>
    BY <1>2, <2>1 DEF Holds, ToSet
  <2>6. \A t \in ToSet(threads'), o \in Objects : Holds(t, o) => TopAsleep(t)
    BY <2>2, <2>3, <2>5 DEF BlockedInv, Cooperative, QueuedHoldersSleep
  <2>7. QueuedHoldersSleep'
    BY <1>4, <1>5, <2>1, <2>3, <2>4, <2>6 DEF QueuedHoldersSleep
  <2> QED
    BY <1>7, <2>1, <2>7 DEF Cooperative, RunnerIsNotWaitedFor
<1> QED
  BY <1>8, <1>9, <1>10, <1>11

\* Before execThreads starts: the new frame is the first of its thread, and holds nothing.
LEMMA SetupCooperative ==
  ASSUME BlockedInv,
         NEW n \in Threads, NEW b \in Addr, NEW m \in EntryMethods, AddNewThread(n, b, m)
  PROVE  Cooperative'
<1>1. Base /\ threads \in Seq(Threads)
  BY DEF BlockedInv, EntryInv, Orderly, Base, TypeOK
<1>2. /\ UNCHANGED <<current, notify>>
      /\ current = NoThread
      /\ threads' = Append(threads, n)
      /\ stack' = [stack EXCEPT ![n] = <<b>>]
      /\ frame' = [frame EXCEPT ![b] = NewFrame(m, Null)]
      /\ n \notin ToSet(threads)
  BY <1>1 DEF AddNewThread, Base, SetupOK
<1>3. \A a \in Addr : Untouched(a)
  BY <1>1, AddNewThreadQuiet DEF Quiet
<1>4. WaitersSleep' /\ CallbacksAreDue'
  <2>1. \A o \in Objects : notify[o] \subseteq Addr
    BY <1>1 DEF Base, TypeOK
  <2> QED
    BY <1>2, <1>3, <2>1 DEF Untouched, WaitersSleep, CallbacksAreDue, BlockedInv, Cooperative
<1>5. RunnerIsNotWaitedFor'
  BY <1>2, NamesAssumption DEF RunnerIsNotWaitedFor
<1>6. QueuedHoldersSleep'
  <2> SUFFICES ASSUME NEW t \in ToSet(threads'), NEW o \in Objects, Holds(t, o)'
               PROVE  TopAsleep(t)'
    BY DEF QueuedHoldersSleep
  <2>1. stack \in [Threads -> Seq(Addr)]
    BY <1>1 DEF Base, TypeOK
  <2>2. t # n
    <3> SUFFICES ASSUME t = n PROVE FALSE
      OBVIOUS
    <3>1. stack'[t] = <<b>>
      BY <1>2, <2>1
    <3>2. Inside(b, o)'
      BY <3>1 DEF Holds, ToSet
    <3>3. frame'[b] = NewFrame(m, Null)
      BY <1>1, <1>2 DEF Base, TypeOK
    <3> QED
      BY <3>2, <3>3 DEF Inside, InMethod, NewFrame
  <2>3. t \in ToSet(threads) /\ t \in Threads
    BY <1>1, <1>2, <2>2 DEF ToSet
  <2>4. stack'[t] = stack[t]
    BY <1>2, <2>1, <2>2, <2>3
  <2>5. /\ TopAsleep(t)' <=> TopAsleep(t)
        /\ Holds(t, o)' <=> Holds(t, o)
    BY <1>1, <1>3, <2>3, <2>4, StackTyping, SameThread
  <2> QED
    BY <2>3, <2>5 DEF BlockedInv, Cooperative, QueuedHoldersSleep
<1> QED
  BY <1>4, <1>5, <1>6 DEF Cooperative

\* Steps inside the top frame.
LEMMA LocalCooperative ==
  ASSUME EntryOnly, BlockedInv, NextInstruction \/ Branch \/ Store0 \/ AthrowCaught
  PROVE  Cooperative'
<1>1. Base
  BY DEF BlockedInv, EntryInv, Orderly
<1>2. UNCHANGED <<threads, current, stack, notify>>
  BY DEF NextInstruction, Branch, Store0, AthrowCaught, Goto
<1>3. HasFrame /\ ~TopFrame.lock
  BY DEF NextInstruction, Branch, Store0, AthrowCaught, At, CanExecute
<1>4. \A a \in Addr : Untouched(a)
  BY LocalEffect DEF BlockedInv, EntryInv, Quiet
<1>5. OthersStay
  BY <1>1, <1>2, <1>4, StackTyping DEF OthersStay
<1>6. QueuedHoldersSleep'
  BY <1>2, <1>3, <1>5, QueueUndisturbed
<1>7. WaitersSleep' /\ CallbacksAreDue'
  <2>1. \A o \in Objects : notify[o] \subseteq Addr
    BY <1>1 DEF Base, TypeOK
  <2> QED
    BY <1>2, <1>4, <2>1 DEF Untouched, WaitersSleep, CallbacksAreDue, BlockedInv, Cooperative
<1>8. PICK r \in Threads : r = current /\ r = current'
  BY <1>2, <1>3, RunnerFacts
<1>9. \A o \in Objects : (Holds(r, o)' <=> Holds(r, o)) /\ (WaitedFor(o)' <=> WaitedFor(o))
  BY <1>1, <1>2, <1>4, StackTyping, SameThread DEF WaitedFor, Untouched
<1>10. \A o \in Objects : ~(WaitedFor(o)' /\ Holds(r, o)')
  BY <1>3, <1>8, <1>9, RunnerFacts
<1>11. RunnerIsNotWaitedFor'
  BY <1>8, <1>10 DEF RunnerIsNotWaitedFor, Holds
<1> QED
  BY <1>6, <1>7, <1>11 DEF Cooperative

\* Nobody waits for what the top frame releases: its notify list is empty.
LEMMA NobodyIsWoken ==
  ASSUME BlockedInv, Return \/ AthrowUncaught, NEW c \in Addr, c = TopAddr
  PROVE  /\ \A a \in Addr \ {c} : Untouched(a)
         /\ Wanted(c) = Null /\ Wanted(c)' = Null
         /\ \A o \in Objects : ~Inside(c, o)'
<1>1. /\ Base /\ HasFrame /\ MethodDone
      /\ ~TopFrame.lock /\ TopFrame.waitingObj = Null
      /\ ~Live(c)'
  BY MethodDoneFacts DEF BlockedInv, EntryInv, Orderly, Return, AthrowUncaught
<1>2. Live(c) /\ frame[c] = TopFrame
  BY <1>1, TopFacts DEF Base, TopFrame
<1>3. Wanted(c) = Null /\ Wanted(c)' = Null /\ \A o \in Objects : ~Inside(c, o)'
  BY <1>1, <1>2 DEF Wanted, Inside, InMethod
<1>4. frame' = [frame EXCEPT ![c] = Freed]
  <2>1. CASE ~IsSync(c)
    BY <1>1, <2>1 DEF MethodDone
  <2>2. CASE IsSync(c)
    <3>1. PICK o \in Objects : o = TopFrame.lv0
      BY <1>1, <2>2, MethodDoneFacts
    <3>2. Inside(c, o)
      BY <1>1, <1>2, <2>2, <3>1, NamesAssumption DEF Inside, InMethod, Entering
    <3>3. ~WaitedFor(o)
      BY <1>1, <3>2, RunnerFacts DEF Holds
    <3>4. notify[o] = {}
      <4>1. notify[o] \subseteq Addr
        BY <1>1 DEF Base, TypeOK
      <4> QED
        BY <3>3, <4>1 DEF BlockedInv, Cooperative, CallbacksAreDue, WaitedFor
    <3>5. Notified(o) = frame
      BY <1>1, <3>4 DEF Notified, Base, TypeOK
    <3> QED
      BY <1>1, <2>2, <3>1, <3>5 DEF MethodDone
  <2> QED
    BY <2>1, <2>2
<1>5. \A a \in Addr \ {c} : frame'[a] = frame[a]
  BY <1>1, <1>4 DEF Base, TypeOK
<1> QED
  BY <1>3, <1>5, SameFrameUntouched

LEMMA MethodDoneCooperative ==
  ASSUME BlockedInv, Return \/ AthrowUncaught
  PROVE  Cooperative'
<1>1. /\ Base /\ HasFrame /\ ~TopFrame.lock
      /\ UNCHANGED <<threads, current, notify>>
      /\ stack' = [stack EXCEPT ![current] = Front(@)]
  BY MethodDoneFacts DEF BlockedInv, EntryInv, Orderly, PopFrame
<1>2. PICK r \in Threads : r = current /\ r = current'
  BY <1>1, RunnerFacts
<1>3. PICK c \in Addr : c = TopAddr
  BY <1>1, RunnerFacts
<1>4. \A a \in Addr \ {c} : Untouched(a)
  BY <1>3, NobodyIsWoken
<1>5. Wanted(c) = Null /\ Wanted(c)' = Null /\ \A o \in Objects : ~Inside(c, o)'
  BY <1>3, NobodyIsWoken
<1>6. \A a \in Addr : Wanted(a)' = Wanted(a)
  BY <1>4, <1>5 DEF Untouched
<1>7. OthersStay
  <2> SUFFICES ASSUME NEW t \in Threads \ {r}
               PROVE  stack'[t] = stack[t] /\ \A a \in ToSet(stack[t]) : Untouched(a)
    BY <1>2 DEF OthersStay
  <2>1. stack'[t] = stack[t]
    BY <1>1, <1>2 DEF Base, TypeOK
  <2>2. c \notin ToSet(stack[t])
    BY <1>1, <1>2, <1>3, RunnerFacts, StackTyping
  <2> QED
    BY <1>1, <1>4, <2>1, <2>2, StackTyping
<1>8. QueuedHoldersSleep'
  BY <1>1, <1>7, QueueUndisturbed
<1>9. WaitersSleep'
  <2> SUFFICES ASSUME NEW a \in Addr, Wanted(a)' # Null
               PROVE  Asleep(a)'
    BY DEF WaitersSleep
  <2>1. a # c /\ Wanted(a) # Null
    BY <1>5, <1>6
  <2> QED
    BY <1>4, <2>1 DEF Untouched, BlockedInv, Cooperative, WaitersSleep
<1>10. CallbacksAreDue'
  <2>1. \A o \in Objects : notify[o] \subseteq Addr
    BY <1>1 DEF Base, TypeOK
  <2> QED
    BY <1>1, <1>6, <2>1 DEF CallbacksAreDue, BlockedInv, Cooperative
<1>11. ASSUME NEW o \in Objects, WaitedFor(o)', Holds(r, o)'
       PROVE  FALSE
  <2>1. WaitedFor(o)
    BY <1>6, <1>11 DEF WaitedFor
  <2>2. stack[r] \in Seq(Addr) /\ stack'[r] = Front(stack[r]) /\ stack[r] # <<>>
    BY <1>1, <1>2 DEF Base, TypeOK, HasFrame
  <2>3. ToSet(stack'[r]) \subseteq ToSet(stack[r])
    BY <2>2 DEF Front, ToSet
  <2>4. PICK a \in Addr : a \in ToSet(stack'[r]) /\ Inside(a, o)'
    BY <1>11 DEF Holds
  <2>5. a # c /\ Inside(a, o)
    BY <1>4, <1>5, <2>4 DEF Untouched
  <2>6. Holds(r, o)
    BY <2>3, <2>4, <2>5 DEF Holds
  <2> QED
    BY <1>1, <1>2, <2>1, <2>6, RunnerFacts
<1>12. RunnerIsNotWaitedFor'
  BY <1>2, <1>11 DEF RunnerIsNotWaitedFor, Holds
<1> QED
  BY <1>8, <1>9, <1>10, <1>12 DEF Cooperative

\* A call: the new frame enters an object nobody waits for, or sleeps at once.
LEMMA InvokeCooperative ==
  ASSUME BlockedInv, NEW b \in Addr, Invoke(b)
  PROVE  /\ Cooperative'
         /\ \A a \in Addr \ {b} : Untouched(a)
<1>1. /\ Base /\ HasFrame /\ ~TopFrame.lock
      /\ b # TopAddr /\ ~Live(b)
      /\ UNCHANGED <<threads, current>>
      /\ stack' = [stack EXCEPT ![current] = Append(@, b)]
  BY InvokeFacts DEF BlockedInv, EntryInv, Orderly
<1>2. PICK r \in Threads : r = current /\ r = current'
  BY <1>1, RunnerFacts
<1>3. /\ stack[r] \in Seq(Addr)
      /\ stack'[r] = Append(stack[r], b)
      /\ \A t \in Threads \ {r} : stack'[t] = stack[t]
  BY <1>1, <1>2 DEF Base, TypeOK
<1>4. \A t \in Threads : b \notin ToSet(stack[t])
  BY <1>1, StackTyping
<1>5. Wanted(b) = Null /\ \A o \in Objects : ~Inside(b, o)
  BY <1>1 DEF Wanted, Inside, InMethod
<1>6. \A a \in Addr \ {b} : Untouched(a)
  BY InvokeEffect DEF BlockedInv, EntryInv, Quiet, Enters, Sleeps
<1>7. OthersStay
  <2> SUFFICES ASSUME NEW t \in Threads \ {r}
               PROVE  stack'[t] = stack[t] /\ \A a \in ToSet(stack[t]) : Untouched(a)
    BY <1>2 DEF OthersStay
  <2> QED
    BY <1>1, <1>3, <1>4, <1>6, StackTyping
<1>8. QueuedHoldersSleep'
  BY <1>1, <1>7, QueueUndisturbed
<1>9. \/ /\ Wanted(b)' = Null /\ UNCHANGED notify
         /\ \A o \in Objects : Inside(b, o)' => monitor[o] = 0
      \/ /\ Asleep(b)'
         /\ \A o \in Objects : ~Inside(b, o)'
         /\ \E o \in Objects : Wait(o, b) /\ Wanted(b)' = o
  <2>1. /\ frame'[b] \in Frame /\ frame'[b].pc = 0
    BY <1>1, InvokeFacts
  <2>2. Live(b)'
    BY <2>1, FreedAssumption DEF Live
  <2>3. CASE /\ frame'[b].method \notin SyncMethods
             /\ frame'[b].waitingObj = Null /\ UNCHANGED notify
    BY <2>2, <2>3 DEF Wanted, Inside, InMethod, IsSync
  <2>4. ASSUME NEW o \in Objects, frame'[b].lv0 = o, CanLock(o),
               frame'[b].waitingObj = Null, UNCHANGED notify
        PROVE  /\ Wanted(b)' = Null
               /\ \A p \in Objects : Inside(b, p)' => monitor[p] = 0
    BY <2>4 DEF Wanted, Inside, CanLock
  <2>5. ASSUME NEW o \in Objects, frame'[b].lv0 = o, Wait(o, b),
               frame'[b].lock, frame'[b].waitingObj = o
        PROVE  Asleep(b)' /\ Wanted(b)' = o /\ \A p \in Objects : ~Inside(b, p)'
    BY <2>1, <2>2, <2>5 DEF Wanted, Asleep, Inside, InMethod, Entering
  <2> QED
    BY <1>1, <2>3, <2>4, <2>5, InvokeFacts
<1>10. WaitersSleep'
  <2> SUFFICES ASSUME NEW a \in Addr, Wanted(a)' # Null
               PROVE  Asleep(a)'
    BY DEF WaitersSleep
  <2> QED
    BY <1>6, <1>9 DEF Untouched, BlockedInv, Cooperative, WaitersSleep
<1>11. CallbacksAreDue'
  <2> SUFFICES ASSUME NEW o \in Objects, NEW a \in notify'[o]
               PROVE  Wanted(a)' = o
    BY DEF CallbacksAreDue
  <2>1. notify \in [Objects -> SUBSET Addr]
    BY <1>1 DEF Base, TypeOK
  <2>2. a \in notify[o] \/ (a = b /\ Wanted(b)' = o)
    BY <1>9, <2>1 DEF Wait
  <2>3. CASE a \in notify[o]
    <3>1. a \in Addr /\ Wanted(a) = o
      BY <2>1, <2>3 DEF BlockedInv, Cooperative, CallbacksAreDue
    <3> QED
      BY <1>5, <1>6, <3>1, NamesAssumption DEF Untouched
  <2> QED
    BY <2>2, <2>3
<1>12. ASSUME NEW o \in Objects, WaitedFor(o)', Holds(r, o)'
       PROVE  TopAsleep(r)'
  <2>1. PICK w \in Addr : Wanted(w)' = o
    BY <1>12 DEF WaitedFor
  <2>2. PICK a \in Addr : a \in ToSet(stack'[r]) /\ Inside(a, o)'
    BY <1>12 DEF Holds
  <2>3. CASE Asleep(b)'
    <3>1. stack'[r] # <<>> /\ Top(r)' = b
      BY <1>3 DEF Top, Last
    <3>2. Asleep(Top(r))'
      BY <2>3, <3>1 DEF Asleep, Live
    <3> QED
      BY <3>1, <3>2 DEF TopAsleep
  <2>4. CASE ~Asleep(b)'
    <3>1. w # b /\ WaitedFor(o)
      BY <1>6, <1>9, <2>1, <2>4, NamesAssumption DEF WaitedFor, Untouched
    <3>2. a # b
      BY <1>9, <2>2, <2>4, <3>1, WaitedForIsLocked
    <3>3. a \in ToSet(stack[r]) /\ Inside(a, o)
      BY <1>3, <1>6, <2>2, <3>2 DEF ToSet, Untouched
    <3> QED
      BY <1>1, <1>2, <3>1, <3>3, RunnerFacts DEF Holds
  <2> QED
    BY <2>3, <2>4
<1>13. RunnerIsNotWaitedFor'
  BY <1>2, <1>12 DEF RunnerIsNotWaitedFor, Holds, TopAsleep, Top
<1> QED
  BY <1>6, <1>8, <1>10, <1>11, <1>13 DEF Cooperative

\* Nobody who waits is woken and scheduled: the two continuations of a sleeper are out.
LEMMA NobodyGoesOn ==
  ASSUME BlockedInv
  PROVE  ~Acquire /\ ~Rewait
<1> SUFFICES ASSUME Acquire \/ Rewait PROVE FALSE
  OBVIOUS
<1>1. HasFrame /\ ~TopFrame.lock /\ TopFrame.waitingObj # Null
  BY DEF Acquire, Rewait
<1> QED
  BY <1>1, RunnerFacts

LEMMA CooperativeStep ==
  ASSUME EntryOnly, ~TimeJumps, BlockedInv, [Next]_vars
  PROVE  Cooperative'
<1>1. CASE UNCHANGED vars
  BY <1>1 DEF vars, BlockedInv, Cooperative, WaitersSleep, CallbacksAreDue,
    RunnerIsNotWaitedFor, QueuedHoldersSleep, Wanted, Asleep, Live, WaitedFor, Holds,
    TopAsleep, Top, Inside, InMethod, IsSync, Entering
<1>2. ~SliceExpires
  BY DEF SliceExpires
<1>3. ~MonitorEnter /\ ~MonitorExit
  BY NoMonitorEnter, NoMonitorExit DEF EntryOnly, BlockedInv, EntryInv, Orderly
<1>4. CASE ExecThreads \/ PopThread \/ PopNothing \/ Yield \/ Drop \/ Abort
  BY <1>4, SchedulerCooperative
<1>5. CASE NextInstruction \/ Branch \/ Store0 \/ AthrowCaught
  BY <1>5, LocalCooperative
<1>6. CASE Return \/ AthrowUncaught
  BY <1>6, MethodDoneCooperative
<1> QED
  BY <1>1, <1>2, <1>3, <1>4, <1>5, <1>6, SetupCooperative, InvokeCooperative, NobodyGoesOn
  DEF Next, CheckFrame, Execute

LEMMA BlockedInvariant ==
  ASSUME EntryOnly, ~TimeJumps
  PROVE  Spec => []BlockedInv
<1>1. Init => Cooperative
  BY NamesAssumption
  DEF Init, Cooperative, WaitersSleep, CallbacksAreDue, RunnerIsNotWaitedFor,
    QueuedHoldersSleep, Wanted, Live, ToSet
<1>2. BlockedInv /\ [Next]_vars => Cooperative'
  BY CooperativeStep
<1> QED
  BY CountersCountEntries, ThreadsHaveOnePlace, <1>1, <1>2, PTL DEF Spec, BlockedInv

-----------------------------------------------------------------------------
(* A sleeper keeps waiting *)

LEMMA BlockedStep ==
  ASSUME EntryOnly, ~TimeJumps, BlockedInv, [Next]_vars,
         NEW a \in Addr, Live(a), frame[a].waitingObj # Null
  PROVE  Live(a)' /\ frame'[a].waitingObj = frame[a].waitingObj
<1>1. Asleep(a) /\ Wanted(a) # Null
  BY DEF BlockedInv, Cooperative, WaitersSleep, Wanted
<1>2. Wanted(a)' = Wanted(a)
  <2>1. Effect
    BY EffectStep DEF BlockedInv, EntryInv
  <2> QED
    BY <1>1, <2>1 DEF Effect, Quiet, Enters, Sleeps, Leaves, Tries, Untouched
<1> QED
  BY <1>1, <1>2 DEF Wanted

\* While the clock does not jump, whoever finds a monitor taken waits for ever: no
\* waiter is ever released, in any program that locks with synchronized methods only.
THEOREM BlockedStayBlocked ==
  ASSUME EntryOnly
  PROVE  Spec => BlockedForEver
<1>1. CASE TimeJumps
  BY <1>1, PTL DEF BlockedForEver
<1>2. CASE ~TimeJumps
  <2>1. BlockedInv /\ [Next]_vars =>
          [~TimeJumps => \A a \in Addr : Live(a) /\ frame[a].waitingObj # Null =>
             Live(a)' /\ frame'[a].waitingObj = frame[a].waitingObj]_vars
    BY <1>2, BlockedStep
  <2> QED
    BY <1>2, <2>1, BlockedInvariant, PTL DEF Spec, BlockedForEver
<1> QED
  BY <1>1, <1>2
=============================================================================

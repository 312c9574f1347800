------------------------------- MODULE JavaVM -------------------------------
(***************************************************************************)
(* The thread scheduler and interpreter loop of e-jvm: the run queue, the  *)
(* stacks of frames, synchronized methods, the monitors with their notify  *)
(* lists, and athrow with the exception tables.  Source: src/JavaVM.cpp,   *)
(* src/Stack.cpp, the monitor opcodes of src/opcodes.cpp and the Frame     *)
(* class of src/JavaTypes.h.                                               *)
(*                                                                         *)
(* One operating-system thread runs the whole VM.  An action is one turn   *)
(* of the loop of execThread (checkFrame, then one instruction), or one    *)
(* step of execThreads between two slices.  A program is a constant: what  *)
(* an instruction does to operands is left out except where control        *)
(* depends on it, and instructions have length one.                        *)
(***************************************************************************)
EXTENDS Exceptions, SequencesExt

CONSTANTS
  Threads,        \* the StackFrame objects addNewThread can make
  Addr,           \* addresses that "new Frame()" can return
  Objects,        \* heap objects
  Classes,        \* classes of exceptions
  Lineage,        \* Lineage[c]: c and its superclasses
  Null,           \* the NULL object reference
  NoThread,       \* execThreads is between two slices
  Freed,          \* the content of an address that holds no live Frame
  Methods, EntryMethods, SyncMethods, NativeMethods,
  AbstractMethods, \* methods without a Code attribute that are not native
  Code,           \* Code[m]: the instructions of m; pc is 0-based
  ExceptionTable, \* ExceptionTable[m]: the entries, in table order
  TimeJumps,      \* TRUE: time(NULL) may jump 2000 s between its two reads
  DanglingOutcomes, \* what writing through a deleted Frame can do to the VM
  MinMonitor, MaxMonitor \* INT_MIN and INT_MAX: the range of _monitor

Ops == {"next", "branch", "store0", "invoke", "return", "athrow", "raise",
        "assert", "monitorenter", "monitorexit"}

\* obj: the reference on the operand stack (receiver, monitor operand, object thrown
\* or value stored in local 0); class: the class of a thrown object.
Instruction ==
  [op : Ops, obj : Objects \cup {Null}, method : Methods, target : Nat,
   class : Classes]

ASSUME NamesAssumption ==
  /\ Null \notin Objects
  /\ NoThread \notin Threads

ASSUME ClassesAssumption ==
  /\ AnyType \notin Classes
  /\ Lineage \in [Classes -> SUBSET Classes]

ASSUME MethodsAssumption ==
  /\ EntryMethods \subseteq Methods
  /\ SyncMethods \subseteq Methods
  /\ NativeMethods \subseteq Methods
  /\ AbstractMethods \subseteq Methods \ (EntryMethods \cup NativeMethods)

\* What a Java compiler guarantees: jumps and handlers stay inside the method,
\* and an instruction that continues is not the last one.
ASSUME CodeAssumption ==
  /\ Code \in [Methods -> Seq(Instruction)]
  /\ ExceptionTable \in [Methods -> Seq(TableEntry(Classes))]
  /\ \A m \in Methods \ (NativeMethods \cup AbstractMethods) :
       /\ Code[m] # <<>>
       /\ \A i \in DOMAIN Code[m] :
            /\ Code[m][i].target < Len(Code[m])
            /\ Code[m][i].op \in {"next", "branch", "store0", "invoke"}
                 => i < Len(Code[m])
       /\ \A i \in DOMAIN ExceptionTable[m] :
            ExceptionTable[m][i].handler_pc < Len(Code[m])

ASSUME EnvironmentAssumption ==
  /\ TimeJumps \in BOOLEAN
  /\ DanglingOutcomes \subseteq {"running", "aborted"}
  /\ DanglingOutcomes # {}

\* The width of an int matters only at its ends: the runs take narrow ones.
ASSUME MonitorAssumption ==
  /\ MinMonitor \in Int
  /\ MaxMonitor \in Int
  /\ MinMonitor < 0
  /\ 0 < MaxMonitor

VARIABLES
  vm,       \* "setup", "running", "granted" (checkFrame has just locked the
            \* object the frame waited for) or "aborted" (the process is dead)
  threads,  \* _threads: pushThread adds at the head, popThread takes the last
  current,  \* currentThread of execThreads
  stack,    \* stack[t]: the frames above the base frame of t, top last
  frame,    \* the Frame at each address, or Freed
  monitor,  \* Object::_monitor
  notify    \* _notify: the frames whose unlock is registered for an object

vars == <<vm, threads, current, stack, frame, monitor, notify>>

-----------------------------------------------------------------------------
(* Frames and stacks *)

Frame ==
  [method : Methods \ AbstractMethods, pc : Nat, lv0 : Objects \cup {Null}, hasException : BOOLEAN,
   lock : BOOLEAN, waitingObj : Objects \cup {Null}, objOwner : SUBSET Objects]

ASSUME FreedAssumption == Freed \notin Frame

NewFrame(m, ref) ==
  [method |-> m, pc |-> 0, lv0 |-> ref, hasException |-> FALSE, lock |-> FALSE,
   waitingObj |-> Null, objOwner |-> {}]

Live(a) == frame[a] # Freed

Top(t) == Last(stack[t])

\* The frame execThread works on, when it is not the base frame.
TopAddr == Top(current)
TopFrame == frame[TopAddr]

InSlice == vm \in {"running", "granted"} /\ current # NoThread
HasFrame == InSlice /\ stack[current] # <<>>

\* checkFrame answers true and the method has code to run.
CanExecute ==
  /\ HasFrame
  /\ ~TopFrame.lock
  /\ TopFrame.waitingObj = Null

Instr == Code[TopFrame.method][TopFrame.pc + 1]

At(op) ==
  /\ CanExecute
  /\ TopFrame.method \notin NativeMethods
  /\ Instr.op = op

IsSync(a) == frame[a].method \in SyncMethods

-----------------------------------------------------------------------------
(* Monitors and notify lists *)

\* Mutant: the test of _monitor is gone; a count below zero is taken for free.
CanLockAlways(o) == TRUE
CanLockBelowZero(o) == monitor[o] <= 0

\* lockMonitor: succeeds on a count of exactly zero, whoever asks.
CanLock(o) == monitor[o] = 0

\* Only a count of zero is raised.
Lock(o) == monitor' = [monitor EXCEPT ![o] = @ + 1]

\* _monitor-- of an int: the overflow, which C++ leaves undefined, wraps round in
\* the subtraction the build makes of it.
Decremented(n) == IF n = MinMonitor THEN MaxMonitor ELSE n - 1

\* Mutant: only the first waiter of an object is registered.
WaitFirst(o, a) == notify' = [notify EXCEPT ![o] = IF @ = {} THEN {a} ELSE @]

\* wait(o, unlock of a): the callback is appended to the list of o.  Calling it
\* twice is calling it once, so the list is a set.
Wait(o, a) == notify' = [notify EXCEPT ![o] = @ \cup {a}]

\* Mutant: the callbacks are not called.
NotifiedNobody(o) == frame

\* notify(o) calls every callback of the list and keeps the list.
Notified(o) ==
  [a \in Addr |-> IF a \in notify[o] /\ Live(a)
                  THEN [frame[a] EXCEPT !.lock = FALSE] ELSE frame[a]]

\* A callback bound to a deleted Frame writes to freed memory.
NotifyOutcomes(o) ==
  IF \A a \in notify[o] : Live(a) THEN {"running"} ELSE DanglingOutcomes

-----------------------------------------------------------------------------
(* Where catchException goes for the exception of the current athrow *)

\* A null thrown inherits from nothing: catchException reads the class of a NULL
\* object at the first entry that covers the pc.
Thrown ==
  LET ancestors == IF Instr.obj = Null THEN {} ELSE Lineage[Instr.class]
      found == CatchException(ExceptionTable[TopFrame.method], TopFrame.pc, ancestors)
  IN  IF Instr.obj = Null /\ found.outcome = "escaped"
      THEN [found EXCEPT !.outcome = "aborted"] ELSE found

-----------------------------------------------------------------------------
(* The scheduler *)

Init ==
  /\ vm = "setup"
  /\ threads = <<>>
  /\ current = NoThread
  /\ stack = [t \in Threads |-> <<>>]
  /\ frame = [a \in Addr |-> Freed]
  /\ monitor = [o \in Objects |-> 0]
  /\ notify = [o \in Objects |-> {}]

\* Execute makes the first frame of a thread.  Nothing initialises its locals:
\* Null stands for a reference to no object.
AddNewThread(t, a, m) ==
  /\ vm = "setup"
  /\ t \notin ToSet(threads)
  /\ ~Live(a)
  /\ frame' = [frame EXCEPT ![a] = NewFrame(m, Null)]
  /\ stack' = [stack EXCEPT ![t] = <<a>>]
  /\ threads' = Append(threads, t)
  /\ UNCHANGED <<vm, current, monitor, notify>>

ExecThreads ==
  /\ vm = "setup"
  /\ vm' = "running"
  /\ UNCHANGED <<threads, current, stack, frame, monitor, notify>>

\* Mutant: back() without pop_back().
PopThreadKeeping ==
  /\ vm = "running"
  /\ current = NoThread
  /\ threads # <<>>
  /\ current' = Last(threads)
  /\ UNCHANGED <<vm, threads, stack, frame, monitor, notify>>

PopThread ==
  /\ vm = "running"
  /\ current = NoThread
  /\ threads # <<>>
  /\ current' = Last(threads)
  /\ threads' = Front(threads)
  /\ UNCHANGED <<vm, stack, frame, monitor, notify>>

\* With no thread left, the loop of execThreads turns for ever.
PopNothing ==
  /\ vm = "running"
  /\ current = NoThread
  /\ threads = <<>>
  /\ UNCHANGED vars

\* Mutant: currentThread is cleared before it is pushed.
PushThreadLate == threads' = <<NoThread>> \o threads /\ current' = NoThread

\* execThread returned true.
PushThread ==
  /\ threads' = <<current>> \o threads
  /\ current' = NoThread

\* Mutant: checkFrame refuses a frame that can run.
YieldAnyway ==
  /\ vm = "running"
  /\ current # NoThread
  /\ PushThread
  /\ UNCHANGED <<vm, stack, frame, monitor, notify>>

\* checkFrame refuses the base frame and a locked frame.
Yield ==
  /\ vm = "running"
  /\ current # NoThread
  /\ stack[current] # <<>> => TopFrame.lock
  /\ PushThread
  /\ UNCHANGED <<vm, stack, frame, monitor, notify>>

\* time(NULL) + 2000 > time(NULL) fails only if the clock jumps in between.
SliceExpires ==
  /\ TimeJumps
  /\ vm = "running"
  /\ current # NoThread
  /\ PushThread
  /\ UNCHANGED <<vm, stack, frame, monitor, notify>>

\* Mutant: checkFrame takes the object without lockMonitor.
AcquireUncounted ==
  /\ vm = "running"
  /\ HasFrame
  /\ ~TopFrame.lock
  /\ TopFrame.waitingObj # Null
  /\ CanLock(TopFrame.waitingObj)
  /\ frame' = [frame EXCEPT ![TopAddr].waitingObj = Null]
  /\ vm' = "granted"
  /\ UNCHANGED <<threads, current, stack, monitor, notify>>

\* checkFrame: the frame was unlocked, and the object is free.
Acquire ==
  /\ vm = "running"
  /\ HasFrame
  /\ ~TopFrame.lock
  /\ TopFrame.waitingObj # Null
  /\ CanLock(TopFrame.waitingObj)
  /\ Lock(TopFrame.waitingObj)
  /\ frame' = [frame EXCEPT ![TopAddr].objOwner = @ \cup {TopFrame.waitingObj},
                            ![TopAddr].waitingObj = Null]
  /\ vm' = "granted"
  /\ UNCHANGED <<threads, current, stack, notify>>

\* checkFrame: someone else locked the object first.
Rewait ==
  /\ vm = "running"
  /\ HasFrame
  /\ ~TopFrame.lock
  /\ TopFrame.waitingObj # Null
  /\ ~CanLock(TopFrame.waitingObj)
  /\ frame' = [frame EXCEPT ![TopAddr].lock = TRUE]
  /\ Wait(TopFrame.waitingObj, TopAddr)
  /\ PushThread
  /\ UNCHANGED <<vm, stack, monitor>>

-----------------------------------------------------------------------------
(* One instruction *)

Goto(pc) ==
  /\ frame' = [frame EXCEPT ![TopAddr].pc = pc]
  /\ vm' = "running"
  /\ UNCHANGED <<threads, current, stack, monitor, notify>>

NextInstruction == At("next") /\ Goto(TopFrame.pc + 1)

\* Mutant: the jump lands one instruction too far.
BranchBehind == At("branch") /\ \E pc \in {TopFrame.pc + 1, Instr.target + 1} : Goto(pc)

Branch == At("branch") /\ \E pc \in {TopFrame.pc + 1, Instr.target} : Goto(pc)

Store0 ==
  /\ At("store0")
  /\ frame' = [frame EXCEPT ![TopAddr].lv0 = Instr.obj,
                            ![TopAddr].pc = @ + 1]
  /\ vm' = "running"
  /\ UNCHANGED <<threads, current, stack, monitor, notify>>

\* The frames after pushNewFrame put "new" at b and the opcode advanced the pc.
Pushed(b, new) == [frame EXCEPT ![TopAddr].pc = @ + 1, ![b] = new]

\* pushNewFrame and the invoke opcode.  The receiver becomes local 0; a
\* synchronized method locks it or starts to wait for it.
Invoke(b) ==
  /\ At("invoke")
  /\ Instr.method \notin AbstractMethods
  /\ ~Live(b)
  /\ LET new == NewFrame(Instr.method, Instr.obj) IN
     \/ /\ Instr.method \notin SyncMethods
        /\ frame' = Pushed(b, new)
        /\ UNCHANGED <<monitor, notify>>
     \/ /\ Instr.method \in SyncMethods
        /\ Instr.obj # Null
        /\ CanLock(Instr.obj)
        /\ Lock(Instr.obj)
        /\ frame' = Pushed(b, new)
        /\ UNCHANGED notify
     \/ /\ Instr.method \in SyncMethods
        /\ Instr.obj # Null
        /\ ~CanLock(Instr.obj)
        /\ frame' = Pushed(b, [new EXCEPT !.lock = TRUE, !.waitingObj = Instr.obj])
        /\ Wait(Instr.obj, b)
        /\ UNCHANGED monitor
  /\ stack' = [stack EXCEPT ![current] = Append(@, b)]
  /\ vm' = "running"
  /\ UNCHANGED <<threads, current>>

\* Mutant: the deleted frame stays on the stack.
PopNoFrame == UNCHANGED stack

PopFrame == stack' = [stack EXCEPT ![current] = Front(@)]

\* Mutant: nothing is released.
MethodDoneKeeping ==
  /\ frame' = [frame EXCEPT ![TopAddr] = Freed]
  /\ vm' = "running"
  /\ PopFrame
  /\ UNCHANGED <<threads, current, monitor, notify>>

\* The method is done: release and notify local 0 of a synchronized method,
\* then delete the frame.  The caller goes on behind its invoke.
MethodDone ==
  /\ \/ /\ ~IsSync(TopAddr)
        /\ frame' = [frame EXCEPT ![TopAddr] = Freed]
        /\ vm' = "running"
        /\ UNCHANGED monitor
     \/ /\ IsSync(TopAddr)
        /\ TopFrame.lv0 # Null
        /\ monitor' = [monitor EXCEPT ![TopFrame.lv0] = Decremented(@)]
        /\ frame' = [Notified(TopFrame.lv0) EXCEPT ![TopAddr] = Freed]
        /\ vm' \in NotifyOutcomes(TopFrame.lv0)
  /\ PopFrame
  /\ UNCHANGED <<threads, current, notify>>

Return == At("return") /\ MethodDone

\* executionEngine means to answer "indeterminate", but the enumerator it
\* returns converts to true: an exception without a handler ends the method
\* just as return does.
AthrowUncaught == At("athrow") /\ Thrown.outcome = "missed" /\ MethodDone

AthrowCaught ==
  /\ At("athrow")
  /\ \E i \in DOMAIN ExceptionTable[TopFrame.method] :
       LET h == ExceptionTable[TopFrame.method][i].handler_pc IN
       /\ Thrown = [pc |-> h, outcome |-> "caught"]
       /\ frame' = [frame EXCEPT ![TopAddr].pc = h,
                                 ![TopAddr].hasException = FALSE]
  /\ vm' = "running"
  /\ UNCHANGED <<threads, current, stack, monitor, notify>>

\* Mutant: the catch releases the monitor of the top frame.
DropReleasing ==
  /\ At("raise") \/ (At("athrow") /\ Thrown.outcome = "escaped")
  /\ IsSync(TopAddr)
  /\ monitor' = [monitor EXCEPT ![TopFrame.lv0] = Decremented(@)]
  /\ current' = NoThread
  /\ vm' = "running"
  /\ UNCHANGED <<threads, stack, frame, notify>>

\* A C++ exception reaches the catch of execThread: the thread is not pushed
\* back, and its frames are neither unwound nor deleted.
Drop ==
  /\ At("raise") \/ (At("athrow") /\ Thrown.outcome = "escaped")
  /\ current' = NoThread
  /\ vm' = "running"
  /\ UNCHANGED <<threads, stack, frame, monitor, notify>>

\* The opcode does not advance the pc, and records local 0 as the owned object.
MonitorEnter ==
  /\ At("monitorenter")
  /\ Instr.obj # Null
  /\ \/ /\ CanLock(Instr.obj)
        /\ Lock(Instr.obj)
        /\ frame' = [frame EXCEPT ![TopAddr].objOwner =
                                    @ \cup ({TopFrame.lv0} \ {Null})]
        /\ UNCHANGED notify
     \/ /\ ~CanLock(Instr.obj)
        /\ frame' = [frame EXCEPT ![TopAddr].waitingObj = Instr.obj,
                                  ![TopAddr].lock = TRUE]
        /\ Wait(Instr.obj, TopAddr)
        /\ UNCHANGED monitor
  /\ vm' = "running"
  /\ UNCHANGED <<threads, current, stack>>

\* The opcode does not advance the pc either, and does not ask who the owner is.
MonitorExit ==
  /\ At("monitorexit")
  /\ Instr.obj # Null
  /\ monitor' = [monitor EXCEPT ![Instr.obj] = Decremented(@)]
  /\ \/ /\ monitor[Instr.obj] = 1
        /\ frame' = Notified(Instr.obj)
        /\ vm' \in NotifyOutcomes(Instr.obj)
     \/ /\ monitor[Instr.obj] # 1
        /\ vm' = "running"
        /\ UNCHANGED frame
  /\ UNCHANGED <<threads, current, stack, notify>>

\* A failed assertion, a NULL object dereferenced, or the jException of
\* getMethodCodeAttribute, which is not a std::exception: no catch stops it.
Fatal ==
  \/ CanExecute /\ TopFrame.method \in NativeMethods
  \/ At("assert")
  \/ At("athrow") /\ Thrown.outcome = "aborted"
  \/ At("invoke") /\ Instr.method \in AbstractMethods
  \/ At("invoke") /\ Instr.method \in SyncMethods /\ Instr.obj = Null
  \/ At("monitorenter") /\ Instr.obj = Null
  \/ At("monitorexit") /\ Instr.obj = Null
  \/ /\ At("return") \/ (At("athrow") /\ Thrown.outcome = "missed")
     /\ IsSync(TopAddr)
     /\ TopFrame.lv0 = Null

Abort ==
  /\ Fatal
  /\ vm' = "aborted"
  /\ UNCHANGED <<threads, current, stack, frame, monitor, notify>>

Execute ==
  \/ NextInstruction \/ Branch \/ Store0
  \/ \E b \in Addr : Invoke(b)
  \/ Return \/ AthrowUncaught \/ AthrowCaught
  \/ Drop \/ MonitorEnter \/ MonitorExit \/ Abort

CheckFrame == Yield \/ Acquire \/ Rewait

Next ==
  \/ \E t \in Threads, a \in Addr, m \in EntryMethods : AddNewThread(t, a, m)
  \/ ExecThreads
  \/ PopThread \/ PopNothing
  \/ SliceExpires
  \/ CheckFrame
  \/ Execute

Spec == Init /\ [][Next]_vars

-----------------------------------------------------------------------------
(* Safety *)

\* Every variable keeps its type: the queue holds threads, the stacks addresses, and
\* an address holds a Frame of the code or a deleted one.
TypeOK ==
  /\ vm \in {"setup", "running", "granted", "aborted"}
  /\ threads \in Seq(Threads)
  /\ current \in Threads \cup {NoThread}
  /\ stack \in [Threads -> Seq(Addr)]
  /\ frame \in [Addr -> Frame \cup {Freed}]
  /\ monitor \in [Objects -> MinMonitor..MaxMonitor]
  /\ notify \in [Objects -> SUBSET Addr]

\* The interpreter never leaves the code of a method: no fetch reads behind it.
PcInCode ==
  \A a \in Addr : Live(a) /\ frame[a].method \notin NativeMethods
                   => frame[a].pc < Len(Code[frame[a].method])

\* A frame on a stack is live (top() never gives a deleted Frame), and no frame is
\* on two places (no double delete).
FramesOnOneStack ==
  /\ \A t \in Threads : \A i \in DOMAIN stack[t] : Live(stack[t][i])
  /\ \A t, u \in Threads : \A i \in DOMAIN stack[t], j \in DOMAIN stack[u] :
        stack[t][i] = stack[u][j] => t = u /\ i = j

\* Every live frame is on a stack: methodSDone deletes what it pops.
NoFrameLost ==
  \A a \in Addr : Live(a) =>
    \E t \in Threads : \E i \in DOMAIN stack[t] : stack[t][i] = a

\* Ownership of frames by stacks: the frames on the stacks are the live ones, each
\* on one place.
FrameOwnership == FramesOnOneStack /\ NoFrameLost

\* popThread, pushThread and the drop of a thread keep each StackFrame at one
\* place: at most once in the queue, and not there while it runs.
OnePlacePerThread ==
  /\ \A i, j \in DOMAIN threads : threads[i] = threads[j] => i = j
  /\ \A i \in DOMAIN threads : threads[i] # current

\* A frame that waits to enter its synchronized method is still at pc 0.
Entering(a) == frame[a].pc = 0 /\ frame[a].waitingObj = frame[a].lv0

\* Frame a is inside its synchronized method.
InMethod(a) ==
  /\ Live(a)
  /\ IsSync(a)
  /\ frame[a].lv0 # Null
  /\ ~Entering(a)

\* Programs whose monitors are those of synchronized methods and monitorenter:
\* no monitorexit, and no synchronized method that overwrites its local 0.
Structured ==
  \A m \in Methods : \A i \in DOMAIN Code[m] :
    /\ Code[m][i].op # "monitorexit"
    /\ m \in SyncMethods => Code[m][i].op # "store0"

\* The point of ACC_SYNCHRONIZED: at most one frame is inside a synchronized
\* method of an object, through blocking, spurious wake-ups, clock jumps, dropped
\* threads and callbacks that reach a reused address.
MutualExclusion ==
  \A a, b \in Addr :
    InMethod(a) /\ InMethod(b) /\ frame[a].lv0 = frame[b].lv0 => a = b

\* Whoever is inside is counted: the monitor is exactly 1, so that the release
\* makes it 0 and not less.
HeldIsLocked == \A a \in Addr : InMethod(a) => monitor[frame[a].lv0] = 1

\* No lost wake-up: a locked frame waits for an object that is not free, and
\* its unlock is registered there, so the release that frees it reaches the frame.
NoLostWakeup ==
  \A a \in Addr : Live(a) /\ frame[a].lock =>
    /\ frame[a].waitingObj # Null
    /\ monitor[frame[a].waitingObj] # 0
    /\ a \in notify[frame[a].waitingObj]

-----------------------------------------------------------------------------
(* What a step never does *)

\* A thread that is neither running nor in the queue: execThread returned false.
Dropped(t) ==
  /\ vm # "setup"
  /\ t # current
  /\ t \notin ToSet(threads)

\* The catch of execThread leaves the monitors of a dropped thread locked, and
\* nothing releases them later: no other frame ever enters.
AbandonedMonitorsStayLocked ==
  [][\A t \in Threads : Dropped(t) =>
       \A a \in ToSet(stack[t]) :
         InMethod(a) => InMethod(a)' /\ monitor'[frame[a].lv0] = 1]_vars

\* A count that one release too many took below zero comes back only through the
\* whole range of an int, when the decrements overflow: lockMonitor wants exactly
\* zero and nothing else adds.  Until then whoever waits for the object keeps waiting.
BelowZeroUntilOverflow ==
  [][\A o \in Objects : monitor[o] < 0 =>
       /\ monitor'[o] < 0 \/ (monitor[o] = MinMonitor /\ monitor'[o] = MaxMonitor)
       /\ \A a \in Addr : Live(a) /\ frame[a].waitingObj = o =>
            Live(a)' /\ frame'[a].waitingObj = o]_vars

\* Unless the clock jumps, a thread leaves the processor only when it blocks, finishes
\* or is dropped.  So whoever finds a monitor taken never gets it: the owner is a
\* caller on the same stack, is itself blocked for ever, or is dropped.
BlockedForEver ==
  [][~TimeJumps => \A a \in Addr : Live(a) /\ frame[a].waitingObj # Null =>
       Live(a)' /\ frame'[a].waitingObj = frame[a].waitingObj]_vars

-----------------------------------------------------------------------------
(* Liveness *)

\* The loops of execThreads and execThread keep turning, and the clock does not
\* jump in every slice of a thread.
Progress(t) == current = t /\ (Acquire \/ Rewait \/ Execute)

FairSpec ==
  /\ Spec
  /\ WF_vars(Next)
  /\ \A t \in Threads : SF_vars(Progress(t))

\* Programs that lock in one order and do not call a synchronized method of an
\* object from inside another one of it: every thread runs all of its frames, so
\* that no wake-up is lost and no waiter is passed over for ever.
AllThreadsFinish == <>[](\A t \in Threads : stack[t] = <<>>)
=============================================================================

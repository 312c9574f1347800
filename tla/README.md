# A verification of e-jvm

e-jvm is a small Java virtual machine in C++: it loads class files, keeps a heap of classes
and one of objects, and interprets the threads of a program with a scheduler of its own.
The TLA+ modules here model its scheduler, monitors, frames, exceptions, class and object
heaps and its class file parser. TLC checks them on small instances. TLAPS proves what matters most for
every instance: of the scheduler and its monitors, that they implement an abstract monitor; of calls from C++, what they
leave behind; of the class heap and the search for a handler, that they find what the files say; of the object heap,
what its counts and its collector are worth; of the frames, exactly where they part from those of the JVM specification; of
the parser, that it reads every class file as it was meant and which files it cannot. Paths below are those of
the repository under `src/` (so `JavaVM.cpp` is `src/src/JavaVM.cpp`).

Contents: [the system](#the-system), [modules](#modules-and-how-they-correspond-to-the-code),
[runs](#runs), [fairness](#fairness), [proofs](#proofs), [what the code does
otherwise](#where-the-code-leaves-the-specification), [what is not
modelled](#not-modelled), [plan](#plan).

## The system

| Component | Source | State | Operations |
|---|---|---|---|
| Scheduler and interpreter loop | `JavaVM.cpp`, `Stack.cpp` | `_threads`, the stacks of `Frame`s | `addNewThread`, `execThreads`, `execThread`, `checkFrame`, `executionEngine`, `methodSDone`, `invokeMethod` |
| Monitors | `JavaVM.cpp`, `JavaTypes.h`, `opcodes.cpp` | `Object::_monitor`, `_notify`, `Frame::_lock`, `_waitingObj`, `_objOwner` | `lockMonitor`, `unlockMonitor`, `wait`, `notify`, monitorenter, monitorexit |
| Exceptions | `JavaVM.cpp`, `JavaClass.cpp` | the pc of a frame, its `_hasException` | athrow, `Frame::catchException`, `isInheritFrom` |
| Frames | `opcodes.cpp`, `JavaVM.cpp` | operand stack, local variables | the int and float opcodes, `pushNewFrame`, `countMethodStack`, return |
| Class heap | `ClassHeap.cpp`, `JavaClass.cpp` | `_classMap`, `_staticClassMap` | `loadClass`, `getClass`, `addClass`, `getMethodID`, `getFieldCount` |
| Object heap | `ObjectHeap.h`, `opcodes.cpp` | `_objectMap`, fields, `_reference` | `createObject`, `createStringObject`, `createPrimitiveArray`, getfield, putfield, the stores, `garbageCollector` |
| Class file parser | `JavaClassParser.cpp` | `_byteCodeOffset`, the constant pool | `parseClass` and what it calls, `resolveConstPool` |
| Native methods | `Native.cpp` | a table of functions | none is ever reached |
| File paths, VM exceptions, `main` | `FilePathManager.cpp`, `jException.cpp`, `ejvm.cpp`, `main.cpp` | none of interest | |

**How they interact.** Everything runs in one operating-system thread. `execThreads` takes a
`StackFrame` from the back of `_threads`, lets `execThread` run instructions of its top frame
and puts it back at the front; the interleaving of Java threads is the interleaving of these
slices. An instruction calls into the other components: an invoke asks the class heap for
the class of the reference and climbs its superclasses for the method, which may parse class
files on the way; `new` does so for the fields; athrow asks the class of the thrown object
for its ancestors. A synchronized method locks its receiver at the call; if it is taken, the
new frame registers its own `unlock` as a callback with the object and marks itself locked,
and `checkFrame` keeps that thread from running until some return or monitorexit on the
same object calls the list of callbacks. The frame, the object's counter and the list are
the three pieces of state that must agree.

**What is hard about it.**

* *Interleaving.* A slice may end between any two instructions, including between the
  wake-up of a frame and the moment it looks at the object again.
* *Stale callbacks.* `notify` never clears its list. It holds frames that wait no more,
  frames that were deleted, and addresses a later `new Frame()` has been given again.
* *Partial failure.* A C++ exception in an instruction ends in the catch of `execThread`: the
  thread is gone, its frames, monitors and waiters stay as they are. Failed assertions end
  the process.
* *Calls from C++.* `invokeMethod` runs a method on a stack of its own for one slice and takes
  what is then on top for the answer; the method may be blocked, or cut off.
* *No real preemption.* The test that ends a slice compares two readings of `time(NULL)` made
  one after the other; it fires only if the clock jumps by 2000 s in between.
* *Counting.* The monitor is an integer without an owner; so is the reference count.
  Both are changed in several places, and not in all where they should be.
* *Index arithmetic.* Parameters are copied by a loop that counts two unsigned indices down at
  different speeds; the constant pool has slots without constants; two cursors move over
  the attributes of a class file.

**What makes each part correct.**

* Scheduler: a thread is at one place only; frames belong to exactly one stack and are never
  used after delete or lost; the pc stays in the code; runnable threads get to run.
* Monitors: one frame inside the synchronized methods of an object; whoever is inside is
  counted exactly once; a sleeping frame is registered with an object that is taken.
* Exceptions: the handler is the one the JVM specification names, and an exception without a
  handler reaches the caller.
* Frames: a program has the operands, locals and branches of the JVM specification.
* Class heap: one `JavaClass` per name, never replaced; the nearest declaration is found; no
  class is loaded that is not on the way.
* Object heap: a count is never below the number of holders; the collector frees garbage only.
* Calls from C++: a call that finishes leaves frames, monitors and lists as they were.
* Parser: indices lead to the constants that were meant; the cursors end where the file ends.

## Modules and how they correspond to the code

| Module | Models |
|---|---|
| `Exceptions` | `Frame::catchException`, entry by entry of an exception table, for a thrown object whose ancestors are a set |
| `Handlers` | `Exceptions` on top of `Classes`: a search for a handler that asks the class heap, and its properties |
| `JavaVM` | scheduler, slices, frames as the scheduler sees them, monitors, athrow |
| `EntryMonitor` | abstract: what synchronized methods promise (one at a time; sleepers of a released monitor wake) |
| `JavaVMEntry` | the refinement mapping from `JavaVM` to `EntryMonitor` |
| `JavaVMClaims` | what a comment says of uncaught exceptions, as a property the code violates |
| `JavaVMProofs` | TLAPS proofs about `JavaVM`: types and frames; monitors, the queue, negative counts and dropped threads; that it implements `EntryMonitor`, and that blocked threads stay blocked |
| `InvokeMethod` | `JavaVM` with calls from C++ (`invokeMethod`), on a stack of their own |
| `InvokeMethodProofs` | TLAPS proofs about `InvokeMethod`, on top of those about `JavaVM` |
| `Frames` | operand stacks, locals, parameters and return values of one thread |
| `JvmFrames` | `Frames` in lockstep with the frames of the JVM specification |
| `FramesProofs` | TLAPS proofs about `Frames` and `JvmFrames` |
| `Classes` | the class heap and the searches up the superclasses |
| `ObjectHeap` | objects, strings and arrays, their slots, reference counts, the collector |
| `ClassesProofs`, `HandlersProofs`, `ObjectHeapProofs` | TLAPS proofs about the module of that name |
| `ClassParser` | the cursors of the class file parser and the linking of the constant pool |
| `ClassFile` | what a class file is: where each part of a class stands; the properties of the parser |
| `ClassParserProofs` | TLAPS proofs about `ClassParser` on the files of `ClassFile` |
| `Numbers` | running sums and powers of two, as recursive functions |
| `Recursion` | lemmas for the proofs: induction over naturals, functions by recursion, sums, powers, flattened sequences |
| `MC*` | programs, tables, disks and files for TLC, and the properties that need a reference definition |

### JavaVM

A state holds `_threads` (`threads`), `currentThread` (`current`), every stack of frames
(`stack`), the `Frame` at each address (`frame`), `_monitor` and `_notify`. `vm` says whether
the process is being set up, runs or was aborted; `granted` marks the point in the middle of
`execThread` where `checkFrame` has just taken an object, so that the instruction follows in
the same slice.

| Action | Code |
|---|---|
| `AddNewThread`, `ExecThreads` | `addNewThread` and the first frame from `Execute`; the call of `execThreads` |
| `PopThread`, `PushThread`, `PopNothing` | the loop of `execThreads`, the last with an empty queue |
| `Yield`, `Acquire`, `Rewait` | the three outcomes of `checkFrame` that are not "run": locked or base frame; woken and the object is free; woken and it is taken again |
| `SliceExpires` | the end of a slice by the clock |
| `NextInstruction`, `Branch`, `Store0` | every opcode as far as the scheduler sees it: only the pc and local 0 matter |
| `Invoke(b)` | invokevirtual and invokespecial: `pushNewFrame`, the lock or wait, then `_pc += 3` |
| `Return`, `AthrowUncaught` | `methodSDone`: release and notify local 0, delete the frame |
| `AthrowCaught` | athrow with a handler |
| `MonitorEnter`, `MonitorExit` | the opcodes, which do not advance the pc |
| `Drop` | a C++ exception in the catch of `execThread` |
| `Abort` | a failed assertion or NULL dereferenced: native methods, unknown opcodes, synchronized calls on null, and an athrow of null that gets as far as its class; and a call of an abstract method, whose `jException` is no `std::exception` and so passes the catch |

A program is a constant `Code`, with instructions of length one: which bytes an instruction
has does not matter to the scheduler. Branches go either way. An address can be reused as soon as
its `Frame` is deleted, so stale callbacks reach new frames. A callback to a deleted frame
whose address is not in use again writes to freed memory: `DanglingOutcomes` gives what that
may do. `Finish` takes "nothing" only, since no thread need finish in a process that may abort; the other runs take "the process
aborts" too. `_monitor` is an int: `MinMonitor` and `MaxMonitor` are its limits, and `Decremented` wraps. Local 0 of a thread's first frame
is uninitialised in the code; `Null` stands for it, since no synchronized method is an entry
there except in `Raw`, where the NULL dereference at its return is meant.

### InvokeMethod

`invokeMethod` is called by nothing in the repository: a C++ program that embeds the VM calls it
before `execThreads`, or from an opcode it has put into the table with `replaceOPCodeFunction`.
`CallPossible` says so. `CallStack` is the `StackFrame` that `createStack` makes for the call; it is one of
`Threads` but never on the queue.

| Action | Code |
|---|---|
| `InvokeMethod(o, m, a)` | the frame with the receiver behind `max_locals` locals (`CallFrame`), its stack, the call of `execThread` |
| `CallStep` | one turn of the loop in `execThread`; `base` is the operand stack of the base frame, on which `methodSDone` leaves a value |
| `EndCall` | the end of the slice: `Answer` is the top operand of the top frame, "undefined" if it has none (`top()` of an empty stack), `Deleted` what `~StackFrame` frees |
| `Scheduler` | everything else, while no call is under way |

Calls are not nested in calls.

### Exceptions and Handlers

`Turns` has what the loop of `catchException` has found behind each entry of the table, `TryEntry` is one turn of it. The
answer of `isInheritFrom` comes as the set of ancestors: in `JavaVM` that is a constant, in `Handlers` it is asked of the class
heap. There an `athrow` runs the same loop with `TryOnHeap`: where an entry asks for the ancestors of the
thrown object (`Asks`), `InheritFrom` of `Classes` climbs and may load; its answer is handed to `TryEntry`.
`objects` are the `JavaClass`es that "new" has made objects of.

### Frames

`Exec` is one opcode, `CopyParameters` the loop of `pushNewFrame` (`Slot` solves the two indices
in closed form), `CountMethodStack` the string the loop runs over. `JvmFrames` runs the same
program on the frames of the JVM specification, in lockstep, and stops where they part. There a call on null throws, a
native method runs and returns or throws (`JvmCalls`), and invokevirtual runs the method that the class of the receiver selects
(`Selected`), invokespecial the method it names (`Targets` has both). `Deviates` and `CallOutcome` say
beforehand whether a step will "agree" or "differ". For two kinds of call it is "either". A method with a class, a long and an array-of-long
parameter may, like `(J, I, [J, L)`, get every argument into its right local by chance, because the character too many that a class
leaves makes up for the local that the array takes too many. And invokestatic, which leaves the arguments on the stack, may leave there what a native method would have
returned. The widths of int and
of a byte are constants, the byte the narrower (were they equal, bipush would agree with the specification, as `Wrap` would bring
the byte back below zero). Floats are the integers between two infinities, with `FloatSum` as IEEE 754 adds
them, and NaN; what a C++ cast makes of a float that is no int is any int. `ShortForms` is the number of
locals with opcodes of their own: the table has aload_0 to aload_3 but an assertion for aload with an
index. A store goes to a local that is unset or holds a value of the same kind.

### Classes

An action is one call from outside with all the loading it causes. `Climbed` gives what each
number of superclasses upward does to the heap, `FirstOf` where a search stops. The disk is a
variable that never changes: TLC tries every disk of three names, with a file that may hold
a class of another name.

### ObjectHeap

`New`, `LdcString`, `NewArray`, `ArrayLength`, `ALoad`, `AStore`, `IStore`, `AconstNull`, `Dup`, `Pop`, `GetField`, `PutField`, `Enter`
(an invoke) and `Leave` (a return) are the opcodes that move references, `BadAccess` the access
through null or through a freed object, `ElementAccess` what aaload and iastore do (no program survives them), `StaleStore` the stores over a reference to a freed
object, `CollectGarbage` the collector, which is public and
called by nothing in the repository; it is taken to run between two instructions. `Paths`
counts along how many paths the recursion of `unreferenceAttributes` reaches an object, which is
how often it discounts it. Endless recursion over a cycle, and a discount of a freed object, give
`"undefined"`, a NULL element in its way `"aborted"`. The collector also reads the count of every object it has freed before: where
that memory still reads as a positive count (`stale`) it is passed over, otherwise the outcome is `"undefined"`. `"undefined"` is where the model stops: the process may crash, hang or go on,
and no property says which. A reference to an array has the type of null, as the code leaves it
(`ArrayReference`), and so is counted nowhere. Strings come from ldc only, a new object every time; `String`'s
own methods touch no field and are not entered.

### ClassParser

A file is a function from offsets to the items that begin there; a cursor that is not on an
item of the expected kind enables nothing, so losing the way shows as a parser that never
ends. `calls` is the recursion of `parseAttributes`, with the two cursors over a `Code` attribute.
`ClassFile` describes a class by its tables, with constants that name each other by place, and says with `IsClassFile` at
which offset each constant, member and attribute of it stands and which number each constant has, wide constants included.
That is the format's definition, from sums of sizes, and not the parser's; sizes and slots come into it from the writer's side. `MCClassParser` has a writer
that makes such files, and TLC evaluates `ClassFileAssumption` on all of them.

## Runs

| Run | Asks | Bounds |
|---|---|---|
| `Nest` | Do synchronized methods exclude each other, and are they an `EntryMonitor`? | 3 threads, 6 addresses, 2 objects; nested calls in both orders; clock jumps |
| `Throw` | The same when methods end by exceptions; what remains of a dropped thread; what happens to whoever finds a monitor taken | 3 threads, 6 addresses; a throw that is caught, missed, and escapes; recursion; a clock that does not jump |
| `Raw` | What may monitorenter, monitorexit and local 0 do that synchronized methods do not? | 2 threads; an int of -2 to 2 that wraps; an abstract and a native method |
| `Finish` | Do all threads end when they lock in one order? | 2 threads, 5 addresses, fair slices |
| `Invoke` | What do calls from C++ leave behind? | 2 Java threads and the stack of the call, 2 calls, 6 addresses, 2 objects; methods that return, throw, block and nest; clock jumps |
| `Handlers` | Is `catchException` the search of the specification, also when it asks the class heap? | every table of up to 2 entries over 4 pcs, 3 catch types, 3 disks of 3 classes, classes loaded in any order |
| `Frames` | Do programs have the frames of the specification, and exactly until when? | 2-bit ints, 1-bit bytes, floats from -2 to 2 with both infinities and NaN, 1 short form, 3 operands, 2 frames, 17 methods of two classes, null and one object |
| `Classes` | Are classes loaded once, found where they should be, and never replaced? | every disk of 3 classes, 2 methods |
| `Heap` | Are counts and fields right, and when is the collector? | 2 classes with one constant pool each and String, arrays of length 1, 2 objects, 2 frames, 2 operands, counts up to 2 |
| `Parser` | Do the two cursors stay on the items, and do they and the links end up right? | every pool of up to 3 constants; up to 2 fields and methods, 2 levels of attributes |
| `Uncaught` | violated: an exception without a handler reaches the caller | 1 thread |
| `CountParams` | violated: a parameter counts once | as `Frames` |

**Why these bounds.** Contention on one object needs two threads, and a barging third thread
is what makes a woken frame register again. Two objects are needed for lock orders and for a
release of an object other than the one locked. With six addresses three threads can each have two
frames, and an address is deleted and reused while it is still on a notify list; nothing
is gained by more, as a frame can then only be reused later. For `Heap`, an object held by
fields and locals together and an object reachable through another need two objects; the
count of two paths to one object needs them too. What needs a third, an older object freed before the walk from its holder
gets to it, is in the theorems, which have no bound. For `Frames`, every opcode takes at most two
operands and the third shows that the rest stays; two-bit ints have sign, overflow and all order
relations; a one-bit byte has one negative value; a float beyond the ints, an infinity and
NaN are all reached by i2f and fadd. `B` overrides two of `A`'s methods, one by a native
one, and its object receives calls of both. For `Handlers`, two entries give every
overlap and order, the catch clauses of one try, which share a range, among them, and the second sees what the first did; four pcs leave room for two disjoint
ranges and a handler behind both. `Raw`'s int of five values lets a frame that counts down overflow and come back to zero within the run.

`CHECK_DEADLOCK FALSE` stands in the runs in which the system really may stop: the process can
abort, and the searches and parsers end; it says nothing on deadlock elsewhere. `Finish` checks deadlock: the VM
spins on an empty queue, it never stops.

Symmetry is taken over threads and addresses, in runs of safety and action properties only; the
run of liveness has none.

**What the runs show.**

* `MutualExclusion`, `HeldIsLocked`, `NoLostWakeup` hold through blocking, barging, clock jumps,
  stale callbacks and reused addresses. The stale callbacks only wake frames too early;
  `Rewait` puts them back. `ImplementsEntryMonitor` says the same as an implementation of an
  abstract monitor in which more sleepers may wake than necessary.
* `AbandonedMonitorsStayLocked`: the price of the catch in `execThread`. `Throw` checks it for a clock that does not jump,
  the theorem shows it for one that does.
* `BlockedForEver`: with a clock that does not jump, scheduling is cooperative, and a monitor that is found
  taken is never obtained, since its owner waits or is gone. The VM does not deadlock as a
  process, its threads do.
* `BelowZeroUntilOverflow`: a monitorexit too many makes an object unlockable until the decrements, which go on since the opcode does not
  advance the pc, overflow the int.
* `AllThreadsFinish`: with fair slices and one lock order, waiters are served.
* `FinishedCallsLeaveNoTrace`: a call from C++ that ends within its slice, by whatever way, leaves no frame and no
  lock, but releases once more than it locked if the method called is synchronized. `OwnerlessForEver`: one
  that does not end leaves its monitors taken by nobody who can run, and they stay so, unless such a release
  frees them. `NoLostWakeup` holds across both, with callbacks of deleted and leaked frames on the lists.
* `FirstEntryDecides`: on any table of named classes the first entry whose range has the pc, its end included, decides. A second catch clause of the same try is
  never reached: the first throws if it is for another class, and if it catches the search goes on at the handler. `LaterEntriesSeeTheHandler`: where it goes then.
  `HeapAnswersLikeLineage`: asking the class heap gives what fixed sets of ancestors give, which is what `JavaVM` uses;
  `SearchLoadsNothing` is why: `new` has loaded all ancestors to count their fields. Both need files that hold the class
  they are named for.
* `RunsLikeTheJvm`: an equivalence. Programs run like the specification *exactly* until the first
  of the instructions listed in `Deviates`, the calls that `CallOutcome` says "differ" of, among them calls on null, of native methods and
  of methods that the receiver's class overrides, and a return of a reference. Of calls that may fall out "either" way it says nothing.
* `ParsedOnce`, `ClassIdentity`, `NearestIsFound`, `LoadsOnlyItsPath`: the class heap is right where file
  names and class names agree. A misnamed file that is loaded twice is an assertion failure.
* `CountsCoverHolders`: before a collection counts are never too low, as long as no method takes a
  reference parameter (`Arguments = 0`: such a parameter is a local nobody counts). `OnlyCollectionsHealLeaks`: a surplus, as a
  returning method leaves it, remains through every instruction and every collection that frees nothing. One that frees something discounts whatever the
  freed objects led to, so it may take a surplus back, or more than that. `CollectsOnlyGarbage`: the first collection changes nothing that counted locals lead to, where each object is held at most
  once. `FirstCollectionReturns`: it comes back where references lead from older objects to younger ones. `CollectionsTakeArrays`: every collection that meets no
  freed memory frees all arrays, held or not, and one that
  meets an array of objects ends the process. `OwnFieldsAreRight`: fields of the object's own class are found
  where they were laid, whatever the pools number alike.
* `LinksReachWhatWasMeant`, `CursorsOnItems`, `ReadsTheWholeFile`, `RefusesExactlyTheUnloadable`: the parser is right on the files it accepts, and
  a list of what it does not accept.

## Fairness

`FairSpec` of `JavaVM` assumes weak fairness of `Next`: the two loops are C++ loops in one
operating-system thread, so some step happens as long as the process lives. It also assumes
`SF(Progress(t))` for each thread: if its turn comes again and again, then in some of its turns
it executes something. In the code a slice ends early only if the clock jumps by 2000 s between two
readings, and no clock does so in every slice. That turns come again and again is not
assumed; it follows from the queue. `ClassParser` assumes weak fairness of `Next` only. All other
runs check safety and assume none; so do the theorems.

## Proofs

Assumptions on the constants, each evaluated by TLC in the runs. `JavaVM`: `NamesAssumption` (null and
"no thread" are not objects and threads), `MethodsAssumption`, `ClassesAssumption`, `CodeAssumption` (what a Java
compiler guarantees: jumps and handlers stay inside a method, and the last instruction does
not fall through), `EnvironmentAssumption`, `MonitorAssumption` (the limits of the int lie on both sides of zero), `FreedAssumption`; `AddrAssumption` of `JavaVMEntry` (no frame is where NULL
points); `CallAssumption` of `InvokeMethod`; `ClassesNamesAssumption` of `Classes` (finitely many names); `HandlersAssumption`
of `Handlers`; `HeapAssumption` and `ClassFileAssumption` of `ObjectHeap` (a pool numbers no two fields of a class alike); `FramesAssumption` of `Frames` (a byte is
narrower than an int, the infinities are beyond the ints); `SelectionAssumption` of `JvmFrames` (only methods of the same descriptor
override one another); `ClassFileAssumption` of `ClassFile` (every file is one of a class, of any size).

| Theorem | Says |
|---|---|
| `BaseInvariant` | `Spec => []Base` |
| `TypeCorrect` | `Spec => []TypeOK` |
| `PcStaysInCode` | `Spec => []PcInCode`: no fetch behind the code of a method |
| `FramesAreOwned` | `Spec => []FrameOwnership`: no double delete, no use of a deleted top frame, no lost frame |
| `WakeupsAreKept` | `Spec => []NoLostWakeup`, for every program |
| `SynchronizedMethodsExclude` | `Structured => (Spec => []MutualExclusion)` |
| `InsideIsCounted` | `Structured => (Spec => []HeldIsLocked)` |
| `ThreadsHaveOnePlace` | `Spec => []OnePlacePerThread` |
| `BelowZeroStays` | `Spec => BelowZeroUntilOverflow`, for every program and width of int |
| `AbandonedMonitorsStay` | `Structured => (Spec => AbandonedMonitorsStayLocked)` |
| `CountersCountEntries` | `EntryOnly => (Spec => [](EntryInv /\ LockedIsHeld))` |
| `MonitorsAreImplemented` | `EntryOnly => (Spec => ImplementsEntryMonitor)` |
| `BlockedStayBlocked` | `EntryOnly => (Spec => BlockedForEver)` |
| `CallsKeepTypes`, `CallsKeepFrames`, `CallsKeepWakeups` | `CallSpec => []TypeOK`, `[]FramesOnOneStack`, `[]NoLostWakeup`: with calls from C++, for every program |
| `OwnerlessStays` | `Structured => (CallSpec => OwnerlessForEver)` |
| `FinishedCallsAreClean` | `EntryOnly => (CallSpec => FinishedCallsLeaveNoTrace)` |
| `LoadingParsesOnce`, `LoadingKeepsClasses` | `ParsedOnce` and `ClassIdentity`, on every set of `Acyclic` disks |
| `SearchesFindTheNearest`, `SearchesLoadOnlyTheirPath` | `NearestIsFound` and `LoadsOnlyItsPath`, on such disks |
| `HeapSearchIsLineageSearch`, `ThrowsLoadNothing` | `HeapAnswersLikeLineage` and `SearchLoadsNothing`, on such disks, for every exception table |
| `FirstEntryDecidesEveryThrow`, `CaughtAtTheLastHandler` | `FirstEntryDecides` and `LaterEntriesSeeTheHandler`, likewise |
| `StatesAreOK` | `Spec => []StateOK` of the object heap |
| `CountsCover`, `LeaksStay` | `Arguments = 0 => (Spec => []CountsCoverHolders)`, and `OnlyCollectionsHealLeaks` likewise |
| `OwnFieldsStayRight` | `Spec => []OwnFieldsAreRight` |
| `OnlyGarbageIsCollected` | `Arguments = 0 => (Spec => CollectsOnlyGarbage)` |
| `FirstCollectionComesBack` | `Spec => FirstCollectionReturns` |
| `ArraysAreTaken` | `Spec => CollectionsTakeArrays` |
| `FramesStayWellFormed` | `Spec => []FramesOK` of the frames |
| `FramesRunLikeTheJvm` | `MCSpec => []RunsLikeTheJvm`, for every set of signatures, every choice of overriding methods and every width of int |
| `LinksLead` | `Spec => []LinksReachWhatWasMeant` of the parser, on every class file |
| `RefusesTheUnloadable` | `Spec => []RefusesExactlyTheUnloadable`, likewise |
| `CursorsStandOnItems` | `Spec => []CursorsOnItems`, likewise |

**Hypotheses.** `Structured` (no monitorexit, and no synchronized method stores to its local 0) and `EntryOnly` (and no
monitorenter) are needed: monitorexit decrements whoever owns the object, the release takes local 0 as it is at the return, and
a monitorenter is a lock that no `EntryMonitor` knows of (the run `Raw` has all three). `Acyclic`: no class is its own ancestor,
or the recursion of the code does not end. `Arguments = 0`: methods take no references. A reference parameter is a local that
nobody counted, so a store over it takes away a count that a field had put there, and counts fall below the holders; the
comment at `CountsCoverHolders` says so, and the theorems that do not rest on counts are without this hypothesis.

**Scheduler and monitors.**

*Base.* `TypeOK`, `PcInCode` and `FramesOnOneStack` need each other: the type of the top frame
follows from the frame being live, which is `FramesOnOneStack`; the instruction has a type because
the pc is in the code. One more part is needed, `SetupOK`: before `execThreads` there is no
current thread and a thread not yet added has no frame, or `AddNewThread` would overwrite one. The
proof sorts the actions into those that change frames in place, those that push a frame and
those that pop one. `FrameOwnership` is `FramesOnOneStack` and `NoFrameLost`; they are apart because a call from C++ keeps
the first only.

*NoLostWakeup* is inductive given `Base`. `StillWakesUp` is the frame that is not touched; what is left
is the frame that begins to wait, and the release, which may make a count zero only
together with the callbacks of the whole list.

*MutualExclusion* is not inductive: that at most one frame is inside an object does not say that
`lockMonitor` refuses the next one. `HeldIsLocked` does (the count is 1, not 0), and in turn
needs `MutualExclusion`: the release of one frame must not leave another inside with a count of 0.
The invariant is their conjunction `Exclusive`, on top of `Base`. Two lemmas carry it, `NobodyEnters` for a step in which nobody
enters and `OneEnters` for one in which a frame enters an object that was free.

*The queue.* `OnePlacePerThread` is inductive given `Base`: `SetupOK` says that nothing is current while threads are
added, and a thread that leaves the queue is current until it is pushed or dropped. *Counts below zero* stay because
`LockTyping` adds only to zero and `DecrementedFacts` wraps only the smallest int; a release never makes such a count zero, so nobody
is woken to it (`TakenKeepsWaiting`). *Dropped threads*: no frame of theirs is the top frame of the
current thread, so a step changes at most their `lock` (`OthersKeepTheirFrame`); they stay inside, and `Exclusive` after the step
gives the count.

*The abstract monitor.* In `EntryOnly` programs the only locks are those of
synchronized methods. `EffectStep` sorts every step of `JavaVM` by what it does to owners, wishes and sleepers: nothing
(`Quiet`), or one frame `Enters`, `Sleeps` or `Leaves`; each of these is then shown to be a stutter, `Enter`, `Sleep` or
`Exit` of `EntryMonitor`. The mapping has no owner variable to read, so two more invariants are needed.
`WaitersEnter`: whoever waits is at the entry of its synchronized method, or an acquired lock would not make it the owner.
`LockedIsHeld`: a count that is not zero has an owner, or a frame could sleep on a monitor that is free in the abstract.

*Blocked threads.* With a clock that does not jump, a thread leaves the processor only asleep, ended or dropped. The
invariant `Cooperative` says what follows: whoever waits sleeps; a callback on a list is that of somebody who waits for
that object; who is queued and holds something sleeps; and the current thread holds nothing anybody waits for, unless it
sleeps itself. So a release finds an empty list (`NobodyIsWoken`), `checkFrame` never meets a woken frame
(`NobodyGoesOn`), and by `EffectStep` no other step changes what a sleeper waits for. The run `Throw` checks
the property also with a monitorenter.

**Calls from C++.** A turn of a call and a step of the scheduler are steps of `JavaVM` with another current thread, so the
lemmas about its steps are used again; what is new is where the call puts the scheduler. `CallShape` says it: during a call
`CallStack` runs and is on no queue, the caller is where it was, at the invoke whose pc has not advanced; without one `CallStack` is
nowhere. With `Base` this is `CallBase`. For `FinishedCallsAreClean` the invariant `CallAccounts` keeps the
books of a call that is not over: the frames that were live before it are live and not on its stack, every other live
frame is on its stack (`FramesOfCall`); every monitor is as before, or was free and is held by exactly one of the
callees (`LocksOfCall`). `WaitersEnter` is carried along: a callee that goes on
from a wait is at the entry of its method, so what it takes then is its own.

**Class heap.** A climb is a recursive function over the number of superclasses, and a rank that falls along every
superclass (`Acyclic`) bounds its length: `ClimbSound` shows for each height that the heap is sound, and at the last that the climb
has ended, so that the search has a first end to find. `Sound` is the invariant for the middle of a call, `LoadInv` the one between calls. On a
disk with well-named files the climb follows the line of names that the files give (`ClimbFollowsLine`), which is the
reference of `NearestIsFound`.

**Search for a handler.** The searches over the class heap and over a fixed set of ancestors are compared turn by turn (`CatchFacts`). They
agree where the heap has all ancestors of the object (`Closed`), as then `isInheritFrom` moves nothing
(`ClimbOnClosed`) and answers what the files say; `TopLoadsAll` shows that `getFieldCount`, in the creation of the object, has left the
heap so, and the heap only grows. The invariant is `HandlersInv`. The two properties of tables are then about
the search over a set, by induction along the table: entries that do not have the pc are passed (`Passed`), the first that has it
decides (`FirstEntryIsRight`), and behind a catch the search is the same one with the handler for pc, from the next entry on; `CaughtFacts` says where it ends.

**Object heap.** `StateOK` is the type invariant with what the steps need: own fields come first in an object (`Laid`), every reference
leads to an object or to where one was (`Good`). `Worth` of an object is its count less the
places that hold it; every step of the running thread is shown to lose no worth (`SoundStep`): it moves operands, adds
an object that nothing holds, or changes one place and counts for it (`Replaced`, `CountedOver`). `CountsCover` and
`LeaksStay` follow, the latter also after collections, of which one that frees nothing changes nothing (`CollectionWithoutPrey`). A collection is a recursive function over the objects (`Run`) and an object of it a walk, a recursive sum over
paths. `PathsAvoid` (a walk never gets to objects that only they themselves hold) gives `OnlyGarbageIsCollected`, with the counting argument that
a reachable object held once is held from among the reachable; `PathsClimb` (where every object holds younger ones only, a walk of
k steps has come k objects further) gives `FirstCollectionComesBack`.

**Frames.** A step of the lockstep starts from equal frames, so what is to be shown is that one instruction, call or return gives equal
frames where "agree" is expected and different ones where "differ" is. `FramesOK` says what the comparison needs to know: a frame
has the locals its method was compiled for, no operand is a value nobody wrote, and operands and locals have values of their kinds. Instructions
are compared one by one (`ExecAgrees`). Calls are the loop of `pushNewFrame`: `SlotFacts` says what its closed form gives, in terms of
running sums of the characters that `countMethodStack` makes of the parameters (`CharactersBetween`) and of the locals they take
(`WidthGrows`). Without classes and wide types both sums count parameters, the loop is a shift, and the frames are equal
(`PlainCallsAgree`). With a class or a wide type alone, `MisplacedCallsDiffer` finds the argument that ends in a wrong local, or the operand that is
missing from the caller. A call on null, a native method and one that another class overrides are simpler: the frames differ in number, or in the method
on top. No proof says anything of the calls that are "either".

**Parser.** `ParserInv` is a map of the file. `Placed` says, for each section of the file, where the cursors stand in terms of `ClassFile`: in
the constants at the next one, with its slot number; in a list of attributes at the k-th, or, inside a Code attribute, the
inner cursor at the j-th of its attributes and the outer one still at the Code attribute, which its length will take past the end of the inner list
(`EndCodeReads`; the two sizes are equal by `BodySize`). Everything before the cursor is of a kind the parser knows (`Fine`). `PoolHolds` says
that the pool has exactly the constants before the cursor, each at its slot. Two facts carry `LinksLead`: different constants have
different slots, and a link therefore finds the constant that was meant. For `RefusesTheUnloadable`, every slot is that of a constant or the one behind a wide
constant (`SlotIsSomeones`), so the parser meets an empty slot exactly if there is a wide constant (`EmptySlotIsPhantom`); and
when it has come through all sections, everything in the file was `Fine` (`ParsedIsLoadable`). TLC had checked `ParserInv` on a
few of the writer's files before it was proved.

**Induction.** The provers cannot use the library's induction theorems, which take an operator. `Recursion` states induction over the
naturals for a set (`NaturalsInSet`, from well-founded orders on finite sets), that a recursive function exists, and is
what its definition says (`RecursionInSet`), and that a sum over a finite set is a sum (`SumFacts`). From these come the running sums (`SumToFacts`, `SumToGrows`, and
`SumToLocates`, which says between which two of them a number lies), the powers of two, and what `FlattenSeq` gives at each index. All proofs
about recursive functions rest on these.

**Only model-checked.** Liveness, for which the prover has no means: `AllThreadsFinish`, and `ReadsTheWholeFile`, which says that the
parser ends. Of the latter the theorems have the safety half: the cursors are never off the items. And what TLC finds violated, in the runs
`Uncaught` and `CountParams`. Every invariant and action property of the other runs is a theorem, some under the hypotheses above.

## Where the code leaves the specification

Two places where the code also leaves its own comments are findings, each with a run:

* `JavaVM.cpp:205`: `executionEngine` returns `tribool::indeterminate_value` for an exception
  without a handler. That enumerator converts to `true`, so the exception is taken for a return
  and the caller goes on behind its invoke. The comment at line 275 says "undefined if it thorws an exception", and
  `setException` would mark the caller. Run `Uncaught`.
* `JavaVM.cpp:340`: `countMethodStack` stops behind a class name on the `;` and appends it like
  a type, so a class parameter counts twice and a call takes an operand too many from the
  caller. The comment at line 330 says it counts "how much param methodDesc has". Run `CountParams`.

Deviations the passing runs pin down, as conditions inside their properties:

* monitorenter and monitorexit do not advance the pc (`opcodes.cpp:535`): the instruction runs again
  until its frame blocks on the object it owns, or counts down.
* A count that monitorexit has taken below zero can be locked again only when the int has overflowed.
* A synchronized method called by its owner waits for itself: monitors are not reentrant.
* An exception range includes its end; the search goes on behind a match, with the new pc; an
  entry that covers the pc for another class ends in a `std::runtime_error`, which drops the thread, also when the next catch clause of
  the same try is the right one;
  `finally` (catch type 0) dereferences NULL.
* bipush reads its byte as unsigned; the four ordered `if_icmp` compare turned round; invokestatic
  pushes no frame; class, long and array-of-long parameters, and parameters of native methods, are
  copied to the wrong local or behind the last.
* f2i of NaN or of a float that is no int gives what the C++ cast gives; fcmpl and fcmpg fail an assertion on NaN. aload, fload,
  astore and fstore with an index, and areturn, are assertions.
* Arrays: a reference to one has the type of null and is not counted; arraylength works, but iastore writes through a pointer
  nobody sets, aaload takes the index for the array (`opcodes.cpp:145`), and aastore and iaload are assertions.
* invokevirtual looks for the method in the class of the Methodref, not of the receiver (`JavaVM.cpp:103`), so an override in a subclass of that is not run. A call on
  null runs the method with null for `this` (`JavaVM.cpp:146`); a call of a native method fails an assertion.
* A call of an abstract method throws a `jException`, which nothing catches: the process ends.
* `invokeMethod` leaves local 0 to chance and pushes the receiver behind the locals, takes no lock for a synchronized
  method, and answers with the top of an empty stack, which is undefined, where its comment (`JavaVM.h:86`) says null; if the method
  does not end in its slice it answers with a stray operand.
* A class without methods throws instead of asking its superclass for one.
* A constant pool with a long or double cannot be resolved: the phantom slot is NULL. An attribute
  that is not one of five ends the process.
* Parameters, receivers and operands are not counted as references; returning methods do not
  discount their locals; the collector discounts along every path also behind objects that stay, reads what it has freed before, and a store over a dangling
  reference writes to freed memory.

## Not modelled

* `setException` and the branch on `_hasException` cannot be reached; `_hasException` is in the state since athrow
  resets it.
* Calls of `invokeMethod` inside one another, and deletions of the VM itself.
* Longs and doubles as operands: every opcode that makes one is an assertion ("unsupported"), so they exist as parameters and
  constants only. (lmul, opcode 105, is `f_isub` in the table at `JavaVM.cpp:545`; no long gets to it.)
* Negative array lengths: what `new[]` makes of four thousand million elements depends on the allocator.
* Object memory under the scheduler: `ObjectHeap` has one thread. `_notify` is keyed by the address of an object, which a
  later object may be given after a collection; `JavaVM`'s objects are never freed.
* `Native.cpp`: `invokeNativeMethod` asserts before it reaches the table. `FilePathManager`,
  `jException`, `main`: no state; what they cause is an outcome in the modules above.
* The Java sources and class files under `lib/`.

## Plan

Built in this order: `Exceptions`, `JavaVM` with its runs, `EntryMonitor` and the refinement, the
proofs of `Base` and the monitors, `Frames`, `Classes`, `ObjectHeap`, `ClassParser`; then abstract methods in
`JavaVM`, `InvokeMethod`, `Handlers`, floats in `Frames`, arrays and strings in `ObjectHeap`; the proofs of the queue, of
the refinement and of blocked threads; the proofs about `InvokeMethod`, `Classes`, `ObjectHeap` and `Handlers`; and, with `JvmFrames` and
`ClassFile`, those about the frames and the parser.

What would extend it, by weight:

1. `ObjectHeap` under the scheduler, so that two threads share objects, the frames of a dropped thread keep their counts,
   and an address on a notify list is given to another object.
2. Abstract specifications for the class heap (a partial function that only grows) and the object heap
   (reachability), with refinement.

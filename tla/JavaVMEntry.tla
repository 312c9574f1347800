---------------------------- MODULE JavaVMEntry -----------------------------
(***************************************************************************)
(* JavaVM implements EntryMonitor: a call is a frame of a synchronized     *)
(* method, its monitor the object in local 0.  The VM has no owner field:  *)
(* the owner is the frame inside the method.                               *)
(***************************************************************************)
EXTENDS JavaVM

\* No frame is where NULL points: Null may stand for "no call".
ASSUME AddrAssumption == Null \notin Addr

Owner(o) ==
  IF \E a \in Addr : InMethod(a) /\ frame[a].lv0 = o
  THEN CHOOSE a \in Addr : InMethod(a) /\ frame[a].lv0 = o
  ELSE Null

Wanted(a) == IF Live(a) THEN frame[a].waitingObj ELSE Null

Entry == INSTANCE EntryMonitor WITH
  Calls <- Addr, Monitors <- Objects, None <- Null,
  owner <- [o \in Objects |-> Owner(o)],
  wants <- [a \in Addr |-> Wanted(a)],
  asleep <- {a \in Addr : Live(a) /\ frame[a].lock}

\* Synchronized methods, as the scheduler and the interpreter run them with one
\* counter per object and notify lists that are never cleared, behave like the
\* abstract monitor (programs with neither monitorenter nor monitorexit).
ImplementsEntryMonitor == Entry!Spec
=============================================================================

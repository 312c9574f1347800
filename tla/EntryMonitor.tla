---------------------------- MODULE EntryMonitor ----------------------------
(***************************************************************************)
(* What synchronized methods promise their callers: calls enter a monitor  *)
(* one at a time, a call that finds it taken sleeps, and the exit of the   *)
(* owner wakes every sleeper of that monitor.  More sleepers may wake than *)
(* necessary: a woken call tries again.  Nothing is said of the order in   *)
(* which calls enter, and a call never enters a monitor twice.             *)
(***************************************************************************)
CONSTANTS Calls, Monitors, None

VARIABLES
  owner,   \* owner[o]: the call inside monitor o, or None
  wants,   \* wants[c]: the monitor that call c waits to enter, or None
  asleep   \* the calls that do nothing until an exit wakes them

vars == <<owner, wants, asleep>>

Init ==
  /\ owner = [o \in Monitors |-> None]
  /\ wants = [c \in Calls |-> None]
  /\ asleep = {}

\* c is awake, inside nothing, and wants no monitor other than o.
MayTry(c, o) ==
  /\ c \notin asleep
  /\ wants[c] \in {None, o}
  /\ \A p \in Monitors : owner[p] # c

Enter(c, o) ==
  /\ MayTry(c, o)
  /\ owner[o] = None
  /\ owner' = [owner EXCEPT ![o] = c]
  /\ wants' = [wants EXCEPT ![c] = None]
  /\ UNCHANGED asleep

Sleep(c, o) ==
  /\ MayTry(c, o)
  /\ owner[o] # None
  /\ wants' = [wants EXCEPT ![c] = o]
  /\ asleep' = asleep \cup {c}
  /\ UNCHANGED owner

Exit(o) ==
  /\ owner[o] # None
  /\ owner' = [owner EXCEPT ![o] = None]
  /\ \E woken \in SUBSET asleep :
       /\ \A c \in asleep : wants[c] = o => c \in woken
       /\ asleep' = asleep \ woken
  /\ UNCHANGED wants

Next ==
  \/ \E c \in Calls, o \in Monitors : Enter(c, o) \/ Sleep(c, o)
  \/ \E o \in Monitors : Exit(o)

Spec == Init /\ [][Next]_vars

\* Nobody sleeps in front of a free monitor.
SleepersHaveAnOwner == \A c \in asleep : wants[c] # None /\ owner[wants[c]] # None
=============================================================================

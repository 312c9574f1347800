----------------------------- MODULE MCClasses ------------------------------
(***************************************************************************)
(* The class heap on every disk of three classes, one of which may be kept *)
(* in a file of another class's name.                                      *)
(***************************************************************************)
EXTENDS Classes

\* A class is older than the classes that may extend it.
Age == [A |-> 1, B |-> 2, C |-> 3]
ClassNames == DOMAIN Age

Files(names) ==
  {f \in [this : names, super : ClassNames \cup {None},
          methods : {{}, {"init"}, {"init", "run"}}] :
     f.super # None => Age[f.super] < Age[f.this]}

Disks ==
  {d \in [ClassNames -> Files(ClassNames) \cup {None}] :
     \A n \in {"A", "B"} : d[n] # None => d[n].this = n}

ASSUME DisksAreAcyclic == \A d \in Disks : Acyclic(d)

Init == InitOn(Disks)

Spec == Init /\ [][Next]_vars
=============================================================================

---------------------------- MODULE MCObjectHeap ----------------------------
(***************************************************************************)
(* Two classes, B a subclass of A with a field of its own, with constant   *)
(* pools javac may give them, and String, whose methods read no field.     *)
(***************************************************************************)
EXTENDS ObjectHeap

Classes == {"A", "B", "String"}
SuperOf == [c \in Classes |-> IF c = "B" THEN "A" ELSE None]
FieldsOf == [c \in Classes |-> IF c = "A" THEN <<"next">> ELSE IF c = "B" THEN <<"other">> ELSE <<"text">>]

\* B's methods name their own field and the inherited one (through B, as javac writes
\* it); the index of the first stands for another field in A's pool.
PoolOfB == [ref \in {<<"B", "other">>, <<"B", "next">>} |-> IF ref[2] = "other" THEN 1 ELSE 2]
JavacPools ==
  {[c \in Classes |-> CASE c = "A" -> [ref \in {<<"A", "next">>} |-> 1]
                      [] c = "B" -> PoolOfB
                      [] c = "String" -> <<>>]}
=============================================================================

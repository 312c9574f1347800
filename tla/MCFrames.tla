------------------------------ MODULE MCFrames ------------------------------
(***************************************************************************)
(* The two frame machines on the methods of a small class.                 *)
(***************************************************************************)
EXTENDS JvmFrames

Method(params, result, static, native, extra) ==
  [class |-> "A", params |-> params, result |-> result, static |-> static,
   native |-> native, extra |-> extra]

\* Class B extends A and overrides two of its methods, one of them by a native one.
Plain == Method(<<>>, "void", FALSE, FALSE, 0)
Sum == Method(<<"I", "I">>, "int", FALSE, FALSE, 0)
PlainOfB == [Plain EXCEPT !.class = "B"]
SumOfB == [Sum EXCEPT !.class = "B", !.native = TRUE]

Methods ==
  {Plain, Sum, PlainOfB, SumOfB,
   Method(<<>>, "void", TRUE, FALSE, 0), Method(<<>>, "void", TRUE, TRUE, 0),
   Method(<<"F">>, "float", FALSE, FALSE, 0), Method(<<>>, "ref", FALSE, FALSE, 0),
   Method(<<"[I">>, "void", FALSE, FALSE, 0),
   Method(<<"L">>, "void", FALSE, FALSE, 0), Method(<<"L">>, "void", FALSE, FALSE, 1),
   Method(<<"J">>, "void", FALSE, FALSE, 1), Method(<<"I", "J">>, "void", FALSE, FALSE, 1),
   Method(<<"J", "I">>, "void", FALSE, FALSE, 1),
   Method(<<"[J">>, "void", FALSE, FALSE, 1), Method(<<>>, "int", FALSE, TRUE, 0),
   Method(<<"I">>, "int", FALSE, TRUE, 0)}

\* Object 1 is of class B.
Selection ==
  [m \in Methods |-> [r \in {1} |-> CASE m = Plain -> PlainOfB [] m = Sum -> SumOfB
                                      [] OTHER -> m]]

Main == Method(<<>>, "void", TRUE, FALSE, 0)

\* JavaVM.cpp on countMethodStack: "This method counts how much param methodDesc has",
\* and pushNewFrame takes so many operands.  A class parameter counts twice.
CountsEachParameterOnce ==
  frames # <<>> => Len(CountMethodStack(Current.sig.params)) = Len(Current.sig.params)
=============================================================================

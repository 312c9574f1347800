---------------------------- MODULE JavaVMClaims ----------------------------
(***************************************************************************)
(* What a comment of the repository says of exceptions, as a property of   *)
(* JavaVM.  The code does otherwise: it has a counterexample.              *)
(***************************************************************************)
EXTENDS JavaVMEntry

\* JavaVM.cpp on executionEngine: "undefined if it thorws an exception"; then
\* setException marks the caller.  An exception no entry covers reaches the caller.
ExceptionReachesCaller ==
  [][AthrowUncaught /\ stack'[current] # <<>> =>
       frame'[Last(stack'[current])].hasException]_vars
=============================================================================

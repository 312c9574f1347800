------------------------------ MODULE Numbers -------------------------------
(***************************************************************************)
(* Sums and powers as recursive functions, which the provers can reason    *)
(* about where they cannot about a fold or about the exponent of Integers. *)
(***************************************************************************)
EXTENDS Integers

\* w[1] + ... + w[n].
SumTo(w, n) ==
  LET sum[k \in 0..n] == IF k = 0 THEN 0 ELSE sum[k - 1] + w[k] IN sum[n]

TwoTo(n) ==
  LET power[k \in 0..n] == IF k = 0 THEN 1 ELSE 2 * power[k - 1] IN power[n]

=============================================================================

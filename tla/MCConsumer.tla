----------------------------- MODULE MCConsumer -----------------------------
(* A small instance of Consumer. *)
EXTENDS Consumer, TLC

\* Nothing tells browsers, or people, apart.
Symmetric == Permutations(Browsers) \cup Permutations(People)

=============================================================================

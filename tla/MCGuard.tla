------------------------------ MODULE MCGuard ------------------------------
(* A small instance of Guard. *)
EXTENDS Guard, TLC

\* Requests are interchangeable.
Symmetric == Permutations(Requests)

=============================================================================

--------------------------- MODULE MCSigningKeys ---------------------------
(* SigningKeys on small instances: the symmetry TLC may use for safety. *)
EXTENDS SigningKeys, TLC

Symmetry == Permutations(Kids) \cup Permutations(Operators)
=============================================================================

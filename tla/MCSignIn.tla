------------------------------ MODULE MCSignIn ------------------------------
(* SignIn on small instances: the symmetry TLC may use for safety (a cfg gives
   every account a phone or none does). *)
EXTENDS SignIn, TLC

Symmetry == Permutations(Accounts) \cup Permutations(Requests) \cup Permutations(Uids)
            \cup Permutations(ApprovalIds)
=============================================================================

----------------------------- MODULE MCAccounts -----------------------------
(* Accounts on small instances: the symmetry TLC may use for safety. *)
EXTENDS Accounts, TLC

Symmetry == Permutations(Ids) \cup Permutations(Emails) \cup Permutations(InviteIds)
            \cup Permutations(Tasks)
=============================================================================

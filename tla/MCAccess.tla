------------------------------ MODULE MCAccess ------------------------------
(* A small instance of Access: the native app and one app, and whoever may use *)
(* them.                                                                       *)
EXTENDS Access, TLC

\* Requests, and handlers, and ids of Grants are interchangeable.
Symmetric == Permutations(Requests) \cup Permutations(Admins) \cup Permutations(Families)

=============================================================================

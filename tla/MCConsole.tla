----------------------------- MODULE MCConsole -----------------------------
(* Every page of Console, with the one draft that changes nothing and one  *)
(* that does.                                                              *)
EXTENDS Console

MCPages == DOMAIN Page

=============================================================================

------------------------------ MODULE MCClient ------------------------------
(* The client on a small instance.                                         *)
EXTENDS Client
=============================================================================

----------------------------- MODULE MCSession -----------------------------
(* Two sessions of one user.                                               *)
EXTENDS Session

CONSTANTS s1, s2, p1
=============================================================================

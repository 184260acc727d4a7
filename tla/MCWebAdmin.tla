---------------------------- MODULE MCWebAdmin ----------------------------
(* The administration site with two requests in flight.                     *)
EXTENDS WebAdmin, TLC

Symmetry == Permutations(Slots) \cup Permutations(Browsers)
=============================================================================

------------------------------ MODULE MCRelay -------------------------------
(* The relays on a small instance.                                         *)
EXTENDS Relay

CONSTANTS c1, c2
=============================================================================

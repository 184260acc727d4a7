---------------------------- MODULE MCMemsocket -----------------------------
(* The in-memory socket on a small instance.                               *)
EXTENDS Memsocket
=============================================================================

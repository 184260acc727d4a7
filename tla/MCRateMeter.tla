---------------------------- MODULE MCRateMeter ----------------------------
(* The metered limiter on a small instance.                                *)
EXTENDS RateMeter

CONSTANTS c1, c2
=============================================================================

------------------------------ MODULE MCRouter ------------------------------
(* The router on a small instance: one address of each kind, two callers   *)
(* besides the one that serves the router's own requests.                  *)
EXTENDS Router

CONSTANTS c1, c2, self

Lan     == [fam |-> 4, private |-> TRUE,  country |-> ""]
China   == [fam |-> 4, private |-> FALSE, country |-> "CN"]
MaxMind == [fam |-> 4, private |-> FALSE, country |-> "US"]
Unknown == [fam |-> 4, private |-> FALSE, country |-> "error"]
Six     == [fam |-> 6, private |-> FALSE, country |-> "US"]

MCIPs == {Lan, China, MaxMind, Unknown, Six}
=============================================================================

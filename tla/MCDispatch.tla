----------------------------- MODULE MCDispatch -----------------------------
(* Connections to a reserved address, to China and elsewhere.              *)
EXTENDS Dispatch

CONSTANTS c1, c2, self

Lan     == [fam |-> 4, private |-> TRUE,  country |-> ""]
China   == [fam |-> 4, private |-> FALSE, country |-> "CN"]
MaxMind == [fam |-> 4, private |-> FALSE, country |-> "US"]

FewKinds == {Lan, China, MaxMind}
=============================================================================

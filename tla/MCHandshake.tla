---------------------------- MODULE MCHandshake -----------------------------
(***************************************************************************)
(* The handshake on a small instance.  The addresses, names and data hold  *)
(* bytes that look like the start of a SOCKS5 message, and the ports are   *)
(* the ends of each byte's range.                                          *)
(***************************************************************************)
EXTENDS Handshake

MCOffers == {<<0>>, <<2, 0>>, <<5, 1, 0>>, <<2>>}

Addrs ==
  {[aTyp |-> ATypeIPv4, dstAddr |-> <<5, 1, 0, 3>>],
   [aTyp |-> ATypeDomainName, dstAddr |-> <<1, 5>>],
   [aTyp |-> ATypeDomainName, dstAddr |-> <<3, 5, 1, 0>>],
   [aTyp |-> ATypeDomainName, dstAddr |-> <<1, 6>>],
   [aTyp |-> ATypeIPv6, dstAddr |-> <<32, 1, 5, 1, 0, 1, 10, 0, 0, 1, 0, 80, 0, 0, 0, 1>>]}

MCRequests ==
  {[cmd |-> c, aTyp |-> a.aTyp, dstAddr |-> a.dstAddr, dstPort |-> p] :
     c \in {1, 3}, a \in Addrs, p \in {0, 80, 256, 65535}}

(* One name has two addresses, one has one, <<6>> has none.                *)
MCResolves ==
  [name \in {<<5>>, <<5, 1, 0>>} |->
     IF name = <<5>> THEN {<<5, 1, 0, 3>>, <<10, 0, 0, 1>>} ELSE {<<10, 0, 0, 2>>}]

MCChunks == {<<5, 1, 0>>, <<7>>, <<5, 1, 0, 1>>}
=============================================================================

------------------------------- MODULE Socks5 -------------------------------
(***************************************************************************)
(* The SOCKS5 messages (pkg/socks5) as functions on byte sequences: the    *)
(* decoders of what an application sends and the encoders of the answers.  *)
(* A decoder returns a record whose field err is "nil" or not.             *)
(*                                                                         *)
(* bytes.Reader.Read fills a slice with what is left, reports a short read *)
(* by its count only, and an error when nothing is left, even if the slice *)
(* is empty.                                                               *)
(***************************************************************************)
EXTENDS Naturals, Sequences

Byte == 0 .. 255
Port == {p \in Nat : p < 65536}

NoAuthRequired == 0
ATypeIPv4 == 1
ATypeDomainName == 3
ATypeIPv6 == 4
Cmds == {1, 2, 3}

(* Fault: the count that Read returns is not compared with the length.     *)
ReadAny(b, i, k) == i < Len(b)

(* Read of k bytes at offset i succeeds and is complete.                   *)
Read(b, i, k) == i < Len(b) /\ i + k <= Len(b)

(* Bytes i + 1 .. i + k of b; a slice that Read left short is zeroes.      *)
Slice(b, i, k) == [j \in 1 .. k |-> IF i + j <= Len(b) THEN b[i + j] ELSE 0]

NewMethodRequestFrom(b) ==
  IF Read(b, 0, 1) /\ b[1] = 5 /\ Read(b, 1, 1) /\ Read(b, 2, b[2])
  THEN [err |-> "nil", methods |-> Slice(b, 2, b[2])]
  ELSE [err |-> "error", methods |-> <<>>]

(* Fault: the length byte of a domain name is counted twice.               *)
AddrLenTwice(b) ==
  IF b[4] = ATypeIPv4 THEN 4 ELSE IF b[4] = ATypeIPv6 THEN 16 ELSE 2 + b[5]

(* The length of DstAddr, whose domain names keep their length byte.       *)
AddrLen(b) ==
  IF b[4] = ATypeIPv4 THEN 4 ELSE IF b[4] = ATypeIPv6 THEN 16 ELSE 1 + b[5]

AddrRead(b) ==
  \/ b[4] \in {ATypeIPv4, ATypeIPv6} /\ Read(b, 4, AddrLen(b))
  \/ b[4] = ATypeDomainName /\ Read(b, 4, 1) /\ b[5] # 0 /\ Read(b, 5, b[5])

(* binary.BigEndian.Uint16                                                 *)
Uint16(p) == 256 * p[1] + p[2]

NewRequestFrom(b) ==
  IF /\ Read(b, 0, 1) /\ b[1] = 5
     /\ Read(b, 1, 1) /\ b[2] \in Cmds
     /\ Read(b, 2, 1)
     /\ Read(b, 3, 1) /\ AddrRead(b)
     /\ Read(b, 4 + AddrLen(b), 2)
  THEN [err |-> "nil", cmd |-> b[2], aTyp |-> b[4],
        dstAddr |-> Slice(b, 4, AddrLen(b)),
        dstPort |-> Uint16(Slice(b, 4 + AddrLen(b), 2))]
  ELSE [err |-> "error", cmd |-> 0, aTyp |-> 0, dstAddr |-> <<>>, dstPort |-> 0]

(* util.Uint16ToBytes                                                      *)
Uint16ToBytes(n) == <<n \div 256, n % 256>>

(* MethodReply.Encode                                                      *)
EncodeMethodReply(method) == <<5, method>>

(* Fault: the reserved byte is left out.                                   *)
PackReplyNoRsv(rep, aTyp, bndAddr, bndPort) ==
  <<5, rep, aTyp>> \o bndAddr \o Uint16ToBytes(bndPort)

(* Reply.Pack                                                              *)
PackReply(rep, aTyp, bndAddr, bndPort) ==
  <<5, rep, 0, aTyp>> \o bndAddr \o Uint16ToBytes(bndPort)
=============================================================================

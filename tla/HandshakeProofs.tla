-------------------------- MODULE HandshakeProofs ---------------------------
(***************************************************************************)
(* For any methods, requests and data an application may send, and however *)
(* TCP cuts them: a part of a SOCKS5 message never passes for a message,   *)
(* a whole one is always decoded to what it was made of, and the data that *)
(* follows reaches the link as it was sent, as far as the link takes it.   *)
(***************************************************************************)
EXTENDS Handshake, Integers, TLAPS

-----------------------------------------------------------------------------
(* The decoders on what the application lays out.                          *)

(* f is the first n bytes of b.                                            *)
Begins(f, b, n) ==
  f \in Seq(Byte) /\ n \in 1 .. Len(b) /\ Len(f) = n /\ \A i \in 1 .. n : f[i] = b[i]

(* b is a method message of k methods.                                     *)
IsOffer(b, k) ==
  b \in Seq(Byte) /\ k \in 1 .. 255 /\ Len(b) = 2 + k /\ b[1] = 5 /\ b[2] = k

(* a is an address of type y.                                              *)
IsAddress(y, a) ==
  /\ y \in {ATypeIPv4, ATypeDomainName, ATypeIPv6} /\ a \in Seq(Byte) /\ a # <<>>
  /\ y = ATypeIPv4 => Len(a) = 4
  /\ y = ATypeIPv6 => Len(a) = 16
  /\ y = ATypeDomainName => a[1] # 0 /\ Len(a) = 1 + a[1]

(* b is a request: command c, address a of type y, port bytes q and z.     *)
IsRequest(b, c, y, a, q, z) ==
  /\ b \in Seq(Byte) /\ Len(b) = 6 + Len(a)
  /\ b[1] = 5 /\ b[2] = c /\ b[4] = y
  /\ \A i \in 1 .. Len(a) : b[4 + i] = a[i]
  /\ b[5 + Len(a)] = q /\ b[6 + Len(a)] = z

(* The first n bytes of a message.                                         *)
LEMMA FirstBytes ==
  ASSUME NEW b \in Seq(Byte), NEW n \in 1 .. Len(b)
  PROVE  /\ SubSeq(b, 1, n) \in Seq(Byte) /\ Len(SubSeq(b, 1, n)) = n
         /\ \A i \in 1 .. n : SubSeq(b, 1, n)[i] = b[i]
         /\ SubSeq(b, n + 1, Len(b)) \in Seq(Byte)
         /\ SubSeq(b, 1, n) \o SubSeq(b, n + 1, Len(b)) = b
         /\ n = Len(b) => SubSeq(b, 1, n) = b /\ SubSeq(b, n + 1, Len(b)) = <<>>
  OBVIOUS

(* The layout of a method message.                                         *)
LEMMA MethodLayout ==
  ASSUME NEW ms \in Seq(Byte), Len(ms) \in 1 .. 255
  PROVE  /\ MethodMessage(ms) \in Seq(Byte)
         /\ Len(MethodMessage(ms)) = 2 + Len(ms)
         /\ MethodMessage(ms)[1] = 5 /\ MethodMessage(ms)[2] = Len(ms)
<1>1. <<5, Len(ms)>> \in Seq(Byte)
  BY DEF Byte
<1> QED
  BY <1>1 DEF MethodMessage

(* NewMethodRequestFrom takes the frame f, the first n bytes of a method   *)
(* message b of k methods, if and only if it is all of b.                  *)
LEMMA MethodFrame ==
  ASSUME NEW b, NEW k, IsOffer(b, k), NEW n, NEW f, Begins(f, b, n)
  PROVE  NewMethodRequestFrom(f).err = "nil" <=> n = 2 + k
<1>0. /\ b \in Seq(Byte) /\ k \in 1 .. 255 /\ Len(b) = 2 + k /\ b[1] = 5 /\ b[2] = k
      /\ f \in Seq(Byte) /\ n \in 1 .. Len(b) /\ Len(f) = n /\ \A i \in 1 .. n : f[i] = b[i]
  BY Zenon DEF IsOffer, Begins
<1> USE <1>0
<1>1. f[1] = 5 /\ (n >= 2 => f[2] = k)
  OBVIOUS
<1>2. Read(f, 0, 1)
  BY DEF Read
<1>3. Read(f, 1, 1) <=> n >= 2
  BY DEF Read
<1>4. n >= 2 => (Read(f, 2, f[2]) <=> n = 2 + k)
  BY <1>1 DEF Read
<1>5. NewMethodRequestFrom(f).err = "nil"
        <=> Read(f, 0, 1) /\ f[1] = 5 /\ Read(f, 1, 1) /\ Read(f, 2, f[2])
  BY DEF NewMethodRequestFrom
<1> QED
  BY <1>1, <1>2, <1>3, <1>4, <1>5

(* The bytes of two sequences joined.                                      *)
LEMMA JoinedBytes ==
  ASSUME NEW s \in Seq(Byte), NEW t \in Seq(Byte)
  PROVE  /\ s \o t \in Seq(Byte) /\ Len(s \o t) = Len(s) + Len(t)
         /\ \A i \in 1 .. Len(s) : (s \o t)[i] = s[i]
         /\ \A i \in 1 .. Len(t) : (s \o t)[Len(s) + i] = t[i]
  OBVIOUS

(* Joining is associative.                                                 *)
LEMMA JoinedTwice ==
  ASSUME NEW s \in Seq(Byte), NEW t \in Seq(Byte), NEW u \in Seq(Byte)
  PROVE  (s \o t) \o u = s \o (t \o u)
  OBVIOUS

(* A port as two bytes, high byte first, and back.                         *)
LEMMA PortBytes ==
  ASSUME NEW p \in Port
  PROVE  p \div 256 \in Byte /\ p % 256 \in Byte /\ 256 * (p \div 256) + (p % 256) = p
<1>1. p \in Int /\ 0 <= p /\ p <= 65535
  BY DEF Port
<1>2. p % 256 \in 0 .. 255
  BY <1>1
<1>3. 256 * (p \div 256) + (p % 256) = p
  BY <1>1
<1>4. p \div 256 \in Int
  BY <1>1
<1>5. ASSUME NEW q \in Int, NEW m \in Int, 0 <= m, m <= 255, 256 * q + m = p
      PROVE  q \in 0 .. 255
  BY <1>1, <1>5
<1>6. p \div 256 \in 0 .. 255
  <2>1. p % 256 \in Int /\ 0 <= p % 256 /\ p % 256 <= 255
    BY <1>2
  <2> QED
    BY <1>3, <1>4, <1>5, <2>1, Zenon
<1> QED
  BY <1>2, <1>3, <1>6, Zenon DEF Byte

(* The layout of a request: a header, the address and the port.            *)
LEMMA RequestBytes ==
  ASSUME NEW c \in Byte, NEW y \in Byte, NEW a \in Seq(Byte), NEW q \in Byte, NEW z \in Byte
  PROVE  IsRequest(<<5, c, 0, y>> \o a \o <<q, z>>, c, y, a, q, z)
<1>1. <<5, c, 0, y>> \in Seq(Byte) /\ <<q, z>> \in Seq(Byte)
  BY DEF Byte
<1>2. PICK h \in Seq(Byte) : h = <<5, c, 0, y>>
  BY <1>1
<1>3. PICK t \in Seq(Byte) : t = <<q, z>>
  BY <1>1
<1>4. Len(h) = 4 /\ h[1] = 5 /\ h[2] = c /\ h[4] = y
  BY <1>2
<1>5. Len(t) = 2 /\ t[1] = q /\ t[2] = z
  BY <1>3
<1>6. PICK g : g = h \o a
  OBVIOUS
<1>7. /\ g \in Seq(Byte) /\ Len(g) = 4 + Len(a)
      /\ \A i \in 1 .. 4 : g[i] = h[i]
      /\ \A i \in 1 .. Len(a) : g[4 + i] = a[i]
  <2>1. /\ g \in Seq(Byte) /\ Len(g) = Len(h) + Len(a)
        /\ \A i \in 1 .. Len(h) : g[i] = h[i]
        /\ \A i \in 1 .. Len(a) : g[Len(h) + i] = a[i]
    BY <1>6, JoinedBytes, Zenon
  <2> QED
    BY <1>4, <2>1
<1>8. PICK b : b = g \o t
  OBVIOUS
<1>9. /\ b \in Seq(Byte) /\ Len(b) = 6 + Len(a)
      /\ \A i \in 1 .. 4 + Len(a) : b[i] = g[i]
      /\ b[5 + Len(a)] = t[1] /\ b[6 + Len(a)] = t[2]
  <2>1. /\ b \in Seq(Byte) /\ Len(b) = Len(g) + Len(t)
        /\ \A i \in 1 .. Len(g) : b[i] = g[i]
        /\ \A i \in 1 .. Len(t) : b[Len(g) + i] = t[i]
    BY <1>7, <1>8, JoinedBytes, ZenonT(30)
  <2>2. 1 \in 1 .. 2 /\ 2 \in 1 .. 2 /\ Len(a) \in Nat
    OBVIOUS
  <2>3. b[4 + Len(a) + 1] = t[1] /\ b[4 + Len(a) + 2] = t[2]
    BY <1>5, <1>7, <2>1, <2>2
  <2> QED
    BY <1>5, <1>7, <2>1, <2>2, <2>3
<1>10. /\ b[1] = 5 /\ b[2] = c /\ b[4] = y
       /\ \A i \in 1 .. Len(a) : b[4 + i] = a[i]
       /\ b[5 + Len(a)] = q /\ b[6 + Len(a)] = z
  BY <1>4, <1>5, <1>7, <1>9
<1>11. b = <<5, c, 0, y>> \o a \o <<q, z>>
  BY <1>2, <1>3, <1>6, <1>8
<1>12. IsRequest(b, c, y, a, q, z)
  BY <1>9, <1>10, Zenon DEF IsRequest
<1> QED
  BY <1>11, <1>12, Zenon

(* The layout of the request r as the application sends it.                *)
LEMMA RequestLayout ==
  ASSUME NEW r \in Requests
  PROVE  /\ r.cmd \in Cmds /\ IsAddress(r.aTyp, r.dstAddr) /\ r.dstPort \in Port
         /\ r = [cmd |-> r.cmd, aTyp |-> r.aTyp, dstAddr |-> r.dstAddr, dstPort |-> r.dstPort]
<1>1. r \in [cmd : Cmds, aTyp : {ATypeIPv4, ATypeDomainName, ATypeIPv6},
             dstAddr : Seq(Byte), dstPort : Port]
  BY HandshakeAssumption, Zenon DEF HandshakeAssumption
<1>2. /\ r.dstAddr # <<>>
      /\ r.aTyp = ATypeIPv4 => Len(r.dstAddr) = 4
      /\ r.aTyp = ATypeIPv6 => Len(r.dstAddr) = 16
      /\ r.aTyp = ATypeDomainName => r.dstAddr[1] # 0 /\ Len(r.dstAddr) = 1 + r.dstAddr[1]
  BY HandshakeAssumption, Zenon DEF HandshakeAssumption
<1>3. r = [cmd |-> r.cmd, aTyp |-> r.aTyp, dstAddr |-> r.dstAddr, dstPort |-> r.dstPort]
  BY <1>1
<1>4. /\ r.cmd \in Cmds /\ r.aTyp \in {ATypeIPv4, ATypeDomainName, ATypeIPv6}
      /\ r.dstAddr \in Seq(Byte) /\ r.dstPort \in Port
  BY <1>1
<1> QED
  BY <1>2, <1>3, <1>4, Zenon DEF IsAddress

(* NewRequestFrom on the frame f, the first n bytes of a request b: it is  *)
(* taken if and only if it is all of b, and then read back.                *)
LEMMA RequestFrame ==
  ASSUME NEW c \in Cmds, NEW y, NEW a, IsAddress(y, a), NEW q \in Byte, NEW z \in Byte,
         NEW b, IsRequest(b, c, y, a, q, z), NEW n, NEW f, Begins(f, b, n)
  PROVE  /\ NewRequestFrom(f).err = "nil" <=> n = 6 + Len(a)
         /\ NewRequestFrom(f).err = "nil" =>
              /\ NewRequestFrom(f).cmd = c /\ NewRequestFrom(f).aTyp = y
              /\ NewRequestFrom(f).dstAddr = a
              /\ NewRequestFrom(f).dstPort = 256 * q + z
<1>0. /\ y \in {ATypeIPv4, ATypeDomainName, ATypeIPv6} /\ a \in Seq(Byte) /\ a # <<>>
      /\ y = ATypeIPv4 => Len(a) = 4
      /\ y = ATypeIPv6 => Len(a) = 16
      /\ y = ATypeDomainName => a[1] # 0 /\ Len(a) = 1 + a[1]
      /\ b \in Seq(Byte) /\ Len(b) = 6 + Len(a) /\ b[1] = 5 /\ b[2] = c /\ b[4] = y
      /\ \A i \in 1 .. Len(a) : b[4 + i] = a[i]
      /\ b[5 + Len(a)] = q /\ b[6 + Len(a)] = z
      /\ f \in Seq(Byte) /\ n \in 1 .. Len(b) /\ Len(f) = n /\ \A i \in 1 .. n : f[i] = b[i]
  BY Zenon DEF IsAddress, IsRequest, Begins
<1> USE <1>0
<1>1. Len(a) \in Nat \ {0} /\ b[5] = a[1] /\ a[1] \in Nat
  <2>1. Len(a) \in Nat \ {0}
    OBVIOUS
  <2>2. 1 \in 1 .. Len(a)
    BY <2>1
  <2>3. a[1] \in Byte /\ b[4 + 1] = a[1]
    BY <2>2
  <2>4. Byte \subseteq Nat
    BY DEF Byte
  <2>5. 4 + 1 = 5
    OBVIOUS
  <2> QED
    BY <2>1, <2>3, <2>4, <2>5, Zenon
<1>2. f[1] = 5
  OBVIOUS
<1>3. Read(f, 0, 1)
  BY DEF Read
<1>4. /\ Read(f, 1, 1) <=> n >= 2
      /\ Read(f, 2, 1) <=> n >= 3
      /\ Read(f, 3, 1) <=> n >= 4
  BY DEF Read
<1>5. n >= 2 => f[2] \in Cmds /\ f[2] = c
  OBVIOUS
<1>6. n >= 4 => f[4] = y
  OBVIOUS
<1>7. n >= 5 => f[5] = a[1]
  BY <1>1
<1>8. CASE n < 4
  <2>1. NewRequestFrom(f).err # "nil"
    BY <1>4, <1>8 DEF NewRequestFrom
  <2> QED
    BY <1>1, <1>8, <2>1
<1>9. CASE n = 4
  <2>1. ~AddrRead(f)
    BY <1>9 DEF AddrRead, Read
  <2>2. NewRequestFrom(f).err # "nil"
    BY <2>1 DEF NewRequestFrom
  <2> QED
    BY <1>1, <1>9, <2>2
<1>10. CASE n >= 5
  <2>1. AddrLen(f) = Len(a)
    BY <1>6, <1>7, <1>10 DEF AddrLen, ATypeIPv4, ATypeDomainName, ATypeIPv6
  <2>2. AddrRead(f) <=> n >= 4 + Len(a)
    <3>1. Read(f, 4, AddrLen(f)) <=> n >= 4 + Len(a)
      BY <1>1, <1>10, <2>1 DEF Read
    <3>2. CASE y = ATypeDomainName
      <4>1. Read(f, 4, 1) /\ f[5] # 0 /\ f[4] = ATypeDomainName
        BY <1>1, <1>6, <1>7, <1>10, <3>2 DEF Read
      <4>2. Read(f, 5, f[5]) <=> n >= 4 + Len(a)
        <5>1. a[1] \in Nat /\ a[1] >= 1 /\ Len(a) = 1 + a[1]
          <6>1. a[1] # 0 /\ Len(a) = 1 + a[1]
            BY <3>2, Zenon
          <6> QED
            BY <1>1, <6>1
        <5>2. Read(f, 5, a[1]) <=> n >= 5 + a[1]
          BY <5>1 DEF Read
        <5> QED
          BY <1>7, <1>10, <5>1, <5>2
      <4> QED
        BY <3>1, <4>1, <4>2 DEF AddrRead, ATypeIPv4, ATypeDomainName, ATypeIPv6
    <3>3. CASE y # ATypeDomainName
      BY <1>6, <1>10, <3>1, <3>3 DEF AddrRead
    <3> QED
      BY <3>2, <3>3
  <2>3. Read(f, 4 + AddrLen(f), 2) <=> n = 6 + Len(a)
    BY <1>1, <2>1 DEF Read
  <2>4. NewRequestFrom(f).err = "nil" <=> n = 6 + Len(a)
    BY <1>1, <1>2, <1>3, <1>4, <1>5, <1>10, <2>2, <2>3 DEF NewRequestFrom
  <2>5. ASSUME n = 6 + Len(a)
        PROVE  Slice(f, 4, AddrLen(f)) = a
    <3>1. \A j \in 1 .. Len(a) : 4 + j <= Len(f) /\ f[4 + j] = a[j]
      BY <1>1, <2>5
    <3>2. Slice(f, 4, Len(a)) = [j \in 1 .. Len(a) |-> a[j]]
      BY <3>1 DEF Slice
    <3>3. a = [j \in 1 .. Len(a) |-> a[j]]
      OBVIOUS
    <3> QED
      BY <2>1, <3>2, <3>3, Zenon
  <2>6. ASSUME n = 6 + Len(a)
        PROVE  Uint16(Slice(f, 4 + AddrLen(f), 2)) = 256 * q + z
    <3>1. f[5 + Len(a)] = q /\ f[6 + Len(a)] = z
      BY <1>1, <2>6
    <3>2. Slice(f, 4 + Len(a), 2)[1] = q /\ Slice(f, 4 + Len(a), 2)[2] = z
      BY <1>1, <2>6, <3>1 DEF Slice
    <3> QED
      BY <2>1, <3>2 DEF Uint16
  <2> QED
    BY <1>5, <1>6, <1>10, <2>4, <2>5, <2>6 DEF NewRequestFrom
<1> QED
  BY <1>8, <1>9, <1>10

(* A request is bytes.                                                     *)
LEMMA RequestIsBytes ==
  ASSUME NEW r \in Requests
  PROVE  RequestMessage(r) \in Seq(Byte)
<1>1. /\ r.cmd \in Cmds /\ IsAddress(r.aTyp, r.dstAddr) /\ r.dstPort \in Port
  BY RequestLayout
<1>2. /\ r.aTyp \in {ATypeIPv4, ATypeDomainName, ATypeIPv6} /\ r.dstAddr \in Seq(Byte)
  BY <1>1, Zenon DEF IsAddress
<1>3. Cmds \subseteq Byte /\ {ATypeIPv4, ATypeDomainName, ATypeIPv6} \subseteq Byte
  BY DEF Byte, Cmds, ATypeIPv4, ATypeDomainName, ATypeIPv6
<1>4. r.dstPort \div 256 \in Byte /\ r.dstPort % 256 \in Byte
  BY <1>1, PortBytes, Zenon
<1>5. r.cmd \in Byte /\ r.aTyp \in Byte
  BY <1>1, <1>2, <1>3, Zenon
<1>6. IsRequest(<<5, r.cmd, 0, r.aTyp>> \o r.dstAddr \o <<r.dstPort \div 256, r.dstPort % 256>>,
                r.cmd, r.aTyp, r.dstAddr, r.dstPort \div 256, r.dstPort % 256)
  BY <1>2, <1>4, <1>5, RequestBytes
<1> QED
  BY <1>6, Zenon DEF IsRequest, RequestMessage

(* What NewRequestFrom makes of the first n bytes of the request r.        *)
LEMMA RequestDecoded ==
  ASSUME NEW r \in Requests, NEW n \in 1 .. Len(RequestMessage(r)),
         NEW d, d = NewRequestFrom(SubSeq(RequestMessage(r), 1, n))
  PROVE  /\ d.err = "nil" <=> n = Len(RequestMessage(r))
         /\ d.err = "nil" => r = [cmd |-> d.cmd, aTyp |-> d.aTyp,
                                  dstAddr |-> d.dstAddr, dstPort |-> d.dstPort]
<1>1. /\ r.cmd \in Cmds /\ IsAddress(r.aTyp, r.dstAddr) /\ r.dstPort \in Port
      /\ r = [cmd |-> r.cmd, aTyp |-> r.aTyp, dstAddr |-> r.dstAddr, dstPort |-> r.dstPort]
  BY RequestLayout
<1>2. PICK c, y, a, p : c = r.cmd /\ y = r.aTyp /\ a = r.dstAddr /\ p = r.dstPort
  BY Zenon
<1>3. /\ c \in Cmds /\ p \in Port /\ IsAddress(y, a)
      /\ y \in {ATypeIPv4, ATypeDomainName, ATypeIPv6} /\ a \in Seq(Byte)
  BY <1>1, <1>2, Zenon DEF IsAddress
<1>4. PICK q \in Byte, z \in Byte : q = p \div 256 /\ z = p % 256 /\ 256 * q + z = p
  <2>1. p \div 256 \in Byte /\ p % 256 \in Byte /\ 256 * (p \div 256) + (p % 256) = p
    BY <1>3, PortBytes
  <2> QED
    BY <2>1, Zenon
<1>5. c \in Byte /\ y \in Byte
  BY <1>3 DEF Byte, Cmds, ATypeIPv4, ATypeDomainName, ATypeIPv6
<1>6. PICK b : b = RequestMessage(r)
  OBVIOUS
<1>7. IsRequest(b, c, y, a, q, z)
  <2>1. RequestMessage(r) = <<5, c, 0, y>> \o a \o <<q, z>>
    BY <1>2, <1>4 DEF RequestMessage
  <2>2. IsRequest(<<5, c, 0, y>> \o a \o <<q, z>>, c, y, a, q, z)
    BY <1>3, <1>5, RequestBytes, Zenon
  <2> QED
    BY <1>6, <2>1, <2>2, Zenon
<1>8. PICK f : f = SubSeq(b, 1, n)
  OBVIOUS
<1>9. Begins(f, b, n)
  <2>1. b \in Seq(Byte) /\ n \in 1 .. Len(b)
    BY <1>6, <1>7, Zenon DEF IsRequest
  <2> QED
    BY <1>8, <2>1, FirstBytes, Zenon DEF Begins
<1>10. d = NewRequestFrom(f)
  BY <1>6, <1>8, Zenon
<1>11. /\ d.err = "nil" <=> n = 6 + Len(a)
       /\ d.err = "nil" =>
            /\ d.cmd = c /\ d.aTyp = y /\ d.dstAddr = a /\ d.dstPort = 256 * q + z
  <2>1. /\ NewRequestFrom(f).err = "nil" <=> n = 6 + Len(a)
        /\ NewRequestFrom(f).err = "nil" =>
             /\ NewRequestFrom(f).cmd = c /\ NewRequestFrom(f).aTyp = y
             /\ NewRequestFrom(f).dstAddr = a
             /\ NewRequestFrom(f).dstPort = 256 * q + z
    BY <1>3, <1>4, <1>7, <1>9, RequestFrame
  <2> QED
    BY <1>10, <2>1, Zenon
<1>12. Len(RequestMessage(r)) = 6 + Len(a)
  BY <1>6, <1>7, Zenon DEF IsRequest
<1> QED
  BY <1>1, <1>2, <1>4, <1>11, <1>12, ZenonT(30)

(* What NewMethodRequestFrom makes of the first n bytes of an offer.       *)
LEMMA MethodDecoded ==
  ASSUME NEW ms \in Offers, NEW n \in 1 .. Len(MethodMessage(ms))
  PROVE  NewMethodRequestFrom(SubSeq(MethodMessage(ms), 1, n)).err = "nil"
           <=> n = Len(MethodMessage(ms))
<1>1. ms \in Seq(Byte) /\ Len(ms) \in 1 .. 255
  BY HandshakeAssumption, Zenon DEF HandshakeAssumption
<1>2. PICK b : b = MethodMessage(ms)
  OBVIOUS
<1>3. IsOffer(b, Len(ms))
  BY <1>1, <1>2, MethodLayout, Zenon DEF IsOffer
<1>4. b \in Seq(Byte) /\ n \in 1 .. Len(b) /\ Len(b) = 2 + Len(ms)
  BY <1>2, <1>3, Zenon DEF IsOffer
<1>5. PICK f : f = SubSeq(b, 1, n)
  OBVIOUS
<1>6. Begins(f, b, n)
  BY <1>4, <1>5, FirstBytes, Zenon DEF Begins
<1>7. NewMethodRequestFrom(f).err = "nil" <=> n = 2 + Len(ms)
  BY <1>3, <1>6, MethodFrame, Zenon
<1> QED
  BY <1>2, <1>4, <1>5, <1>7, Zenon
(* Sequences of the same bytes are the same.                               *)
LEMMA SameBytes ==
  ASSUME NEW s \in Seq(Byte), NEW t \in Seq(Byte), Len(s) = Len(t),
         \A i \in 1 .. Len(t) : s[i] = t[i]
  PROVE  s = t
  OBVIOUS

(* A name is its address without the length byte.                          *)
LEMMA NameOf ==
  ASSUME NEW a \in Seq(Byte), a # <<>>, Len(a) = 1 + a[1],
         NEW name, name = SubSeq(a, 2, Len(a))
  PROVE  a = <<Len(name)>> \o name
<1>1. Len(a) \in Nat \ {0} /\ a[1] \in Byte
  OBVIOUS
<1>2. a[1] \in Nat
  <2>1. Byte \subseteq Nat
    BY DEF Byte
  <2> QED
    BY <1>1, <2>1, Zenon
<1>3. /\ name \in Seq(Byte) /\ Len(name) = Len(a) - 1
      /\ \A i \in 1 .. Len(a) - 1 : name[i] = a[i + 1]
  BY <1>1
<1>4. Len(name) = a[1]
  BY <1>2, <1>3
<1>5. PICK h \in Seq(Byte) : h = <<Len(name)>>
  <2>1. <<a[1]>> \in Seq(Byte)
    BY <1>1
  <2> QED
    BY <1>4, <2>1, Zenon
<1>6. Len(h) = 1 /\ h[1] = a[1]
  BY <1>4, <1>5
<1>7. PICK g : g = h \o name
  OBVIOUS
<1>8. /\ g \in Seq(Byte) /\ Len(g) = Len(a) /\ g[1] = a[1]
      /\ \A i \in 1 .. Len(a) - 1 : g[1 + i] = a[i + 1]
  <2>1. /\ g \in Seq(Byte) /\ Len(g) = Len(h) + Len(name)
        /\ \A i \in 1 .. Len(h) : g[i] = h[i]
        /\ \A i \in 1 .. Len(name) : g[Len(h) + i] = name[i]
    BY <1>3, <1>7, JoinedBytes, Zenon
  <2> QED
    BY <1>1, <1>3, <1>6, <2>1
<1>9. ASSUME NEW i \in 1 .. Len(a) PROVE g[i] = a[i]
  <2>1. CASE i = 1
    BY <1>8, <2>1
  <2>2. CASE i # 1
    <3>1. PICK j \in 1 .. Len(a) - 1 : i = 1 + j /\ i = j + 1
      BY <1>1, <2>2
    <3> QED
      BY <1>8, <3>1
  <2> QED
    BY <2>1, <2>2
<1>10. g = a
  BY <1>8, <1>9, SameBytes, Zenon
<1> QED
  BY <1>5, <1>7, <1>10

(* What GetDstAddrFromRequest returns for a request serves it.             *)
LEMMA ServesRequest ==
  ASSUME NEW r \in Requests, NEW dst \in GetDstAddrFromRequest(r),
         NEW d, d = [cmd |-> r.cmd, ip |-> dst.ip, port |-> dst.port]
  PROVE  Serves(d, r)
<1>1. IsAddress(r.aTyp, r.dstAddr)
  BY RequestLayout
<1>2. d.cmd = r.cmd /\ d.ip = dst.ip /\ d.port = dst.port
  OBVIOUS
<1>3. CASE r.aTyp # ATypeDomainName
  <2>1. dst = [ip |-> r.dstAddr, port |-> r.dstPort]
    BY <1>3 DEF GetDstAddrFromRequest
  <2> QED
    BY <1>2, <1>3, <2>1 DEF Serves
<1>4. CASE r.aTyp = ATypeDomainName
  <2>1. PICK name : name = SubSeq(r.dstAddr, 2, Len(r.dstAddr))
    OBVIOUS
  <2>2. PICK a \in LookupIPAddr(name) : dst = [ip |-> a, port |-> r.dstPort]
    BY <1>4, <2>1 DEF GetDstAddrFromRequest
  <2>3. name \in DOMAIN Resolves /\ a \in Resolves[name]
    BY <2>2 DEF LookupIPAddr
  <2>4. r.dstAddr = <<Len(name)>> \o name
    <3>1. /\ r.dstAddr \in Seq(Byte) /\ r.dstAddr # <<>>
          /\ Len(r.dstAddr) = 1 + r.dstAddr[1]
      BY <1>1, <1>4, Zenon DEF IsAddress
    <3> QED
      BY <2>1, <3>1, NameOf, Zenon
  <2>5. d.ip = a /\ d.port = r.dstPort
    BY <1>2, <2>2
  <2> QED
    BY <1>2, <1>4, <2>3, <2>4, <2>5, Zenon DEF Serves
<1> QED
  BY <1>3, <1>4

(* What is written first, and then what follows, is what was sent first.   *)
LEMMA PrefixJoined ==
  ASSUME NEW s \in Seq(Byte), NEW t \in Seq(Byte), NEW k \in 0 .. Len(t)
  PROVE  s \o SubSeq(t, 1, k) \in Seq(Byte) /\ PrefixOf(s \o SubSeq(t, 1, k), s \o t)
<1>1. PICK p : p = SubSeq(t, 1, k)
  OBVIOUS
<1>2. p \in Seq(Byte) /\ Len(p) = k /\ \A i \in 1 .. k : p[i] = t[i]
  BY <1>1
<1>3. PICK g : g = s \o p
  OBVIOUS
<1>4. PICK h : h = s \o t
  OBVIOUS
<1>5. /\ g \in Seq(Byte) /\ Len(g) = Len(s) + Len(p)
      /\ \A i \in 1 .. Len(s) : g[i] = s[i]
      /\ \A i \in 1 .. Len(p) : g[Len(s) + i] = p[i]
  BY <1>2, <1>3, JoinedBytes, Zenon
<1>6. /\ Len(h) = Len(s) + Len(t)
      /\ \A i \in 1 .. Len(s) : h[i] = s[i]
      /\ \A i \in 1 .. Len(t) : h[Len(s) + i] = t[i]
  BY <1>4, JoinedBytes, Zenon
<1>7. Len(s) \in Nat /\ Len(t) \in Nat /\ k \in Nat /\ k <= Len(t)
  OBVIOUS
<1>8. ASSUME NEW i \in 1 .. Len(g) PROVE g[i] = h[i]
  <2>1. CASE i <= Len(s)
    BY <1>5, <1>6, <1>7, <2>1
  <2>2. CASE i > Len(s)
    <3>1. PICK j \in 1 .. k : i = Len(s) + j
      <4>1. i \in Int /\ i <= Len(s) + k
        BY <1>2, <1>5, <1>7
      <4>2. i - Len(s) \in 1 .. k /\ i = Len(s) + (i - Len(s))
        BY <1>7, <2>2, <4>1
      <4> QED
        BY <4>2, Zenon
    <3>2. j \in 1 .. Len(t) /\ j \in 1 .. Len(p)
      BY <1>2, <1>7
    <3> QED
      BY <1>2, <1>5, <1>6, <3>1, <3>2
  <2> QED
    BY <1>5, <1>7, <2>1, <2>2
<1>9. PrefixOf(g, h)
  BY <1>2, <1>5, <1>6, <1>7, <1>8 DEF PrefixOf
<1> QED
  BY <1>1, <1>3, <1>4, <1>5, <1>9

(* More data sent does not change what was sent first.                     *)
LEMMA PrefixLonger ==
  ASSUME NEW s \in Seq(Byte), NEW t \in Seq(Byte), NEW d \in Seq(Byte), PrefixOf(s, t)
  PROVE  PrefixOf(s, t \o d)
<1>1. PICK g : g = t \o d
  OBVIOUS
<1>2. Len(g) = Len(t) + Len(d) /\ \A i \in 1 .. Len(t) : g[i] = t[i]
  BY <1>1, JoinedBytes, Zenon
<1>3. Len(s) \in Nat /\ Len(t) \in Nat /\ Len(d) \in Nat
  OBVIOUS
<1> QED
  BY <1>1, <1>2, <1>3 DEF PrefixOf
-----------------------------------------------------------------------------
(* The inductive invariant: how far the application and React can be from  *)
(* each other, and what is then on the wire.                               *)

(* The types of what the proof reasons about.                              *)
TypeOK ==
  /\ app \in {"start", "method", "request", "relay"}
  /\ status \in {"opened", "methodAccepted", "accepted", "closed"}
  /\ why \in {"nothing", "frame", "method", "dial", "pool"}
  /\ whole \in {"yes", "no"}
  /\ up \in Seq(Byte) /\ sent \in Seq(Byte) /\ forwarded \in Seq(Byte)
  /\ wanted \in Requests \cup {NoRequest}
  /\ link \in {"ok", "failed"}

(* Before the method is accepted the wire holds nothing or all of an offer.*)
Opening ==
  status = "opened" =>
    /\ down = <<>> /\ sent = <<>> /\ forwarded = <<>> /\ link = "ok"
    /\ \/ app = "start" /\ up = <<>>
       \/ app = "method" /\ \E ms \in Offers : up = MethodMessage(ms)

(* Before a request is accepted, the method's reply or all of a request.   *)
Asking ==
  status = "methodAccepted" =>
    /\ sent = <<>> /\ forwarded = <<>> /\ link = "ok"
    /\ \/ app = "method" /\ up = <<>>
       \/ /\ app = "request" /\ wanted \in Requests /\ up = RequestMessage(wanted)
          /\ down = <<>>

(* Then the application, which still waits for the reply or has read it,   *)
(* is at the destination it named, and the link has its data, all of it or *)
(* what came before the write that failed.                                 *)
Relaying ==
  status = "accepted" =>
    /\ app \in {"request", "relay"}
    /\ wanted \in Requests /\ Serves(dialled, wanted)
    /\ link = "ok" => forwarded \o up = sent
    /\ link = "failed" => PrefixOf(forwarded, sent)

(* A connection is closed for a reason, and after it no reply to a method  *)
(* is left to read.                                                        *)
Closed ==
  /\ status # "closed" => why = "nothing"
  /\ status = "closed" => app # "start" /\ (app = "method" => down = <<>>)

HandshakeInv == TypeOK /\ Opening /\ Asking /\ Relaying /\ Closed /\ RefusesOnlyFragments

(* A new connection.                                                       *)
LEMMA InitHandshakeInv == Init => HandshakeInv
  BY DEF Init, HandshakeInv, TypeOK, Opening, Asking, Relaying, Closed, RefusesOnlyFragments

(* What the application does keeps the invariant.                          *)
LEMMA AppStep ==
  ASSUME HandshakeInv,
         \/ \E ms \in Offers : Offer(ms)
         \/ \E r \in Requests : Ask(r)
         \/ Connected
         \/ \E d \in Chunks : Send(d)
  PROVE  HandshakeInv'
<1> USE DEF connVars
<1>0. TypeOK /\ Opening /\ Asking /\ Relaying /\ Closed /\ RefusesOnlyFragments
  BY DEF HandshakeInv
<1>1. ASSUME NEW ms \in Offers, Offer(ms) PROVE HandshakeInv'
  <2>1. ms \in Seq(Byte) /\ Len(ms) \in 1 .. 255
    BY HandshakeAssumption, Zenon DEF HandshakeAssumption
  <2>2. up' \in Seq(Byte) /\ up' = MethodMessage(ms)
    BY <1>1, <2>1, MethodLayout DEF Offer
  <2>3. status = "opened"
    BY <1>0, <1>1 DEF Offer, TypeOK, Asking, Relaying, Closed
  <2> QED
    BY <1>0, <1>1, <2>2, <2>3
    DEF Offer, HandshakeInv, TypeOK, Opening, Asking, Relaying, Closed, RefusesOnlyFragments
<1>2. ASSUME NEW r \in Requests, Ask(r) PROVE HandshakeInv'
  <2>1. status = "methodAccepted"
    BY <1>0, <1>2 DEF Ask, TypeOK, Opening, Relaying, Closed
  <2>2. up' \in Seq(Byte) /\ up' = RequestMessage(r)
    BY <1>2, RequestIsBytes DEF Ask
  <2> QED
    BY <1>0, <1>2, <2>1, <2>2
    DEF Ask, HandshakeInv, TypeOK, Opening, Asking, Relaying, Closed, RefusesOnlyFragments
<1>3. CASE Connected
  <2>1. status \in {"accepted", "closed"}
    <3>1. down # <<>>
      <4>1. Len(down) = 10
        BY <1>3, Zenon DEF Connected
      <4>2. Len(<<>>) # 10
        OBVIOUS
      <4> QED
        BY <4>1, <4>2, Zenon
    <3> QED
      BY <1>0, <1>3, <3>1 DEF Connected, TypeOK, Opening, Asking
  <2> QED
    BY <1>0, <1>3, <2>1
    DEF Connected, HandshakeInv, TypeOK, Opening, Asking, Relaying, Closed, RefusesOnlyFragments
<1>4. ASSUME NEW d \in Chunks, Send(d) PROVE HandshakeInv'
  <2>1. d \in Seq(Byte)
    BY HandshakeAssumption, Zenon DEF HandshakeAssumption
  <2>2. status \in {"accepted", "closed"}
    BY <1>0, <1>4 DEF Send, TypeOK, Opening, Asking
  <2>3. up' \in Seq(Byte) /\ sent' \in Seq(Byte)
    BY <1>0, <1>4, <2>1 DEF Send, TypeOK
  <2>4. forwarded \o (up \o d) = (forwarded \o up) \o d
    BY <1>0, <2>1, JoinedTwice DEF TypeOK
  <2>5. link = "failed" /\ status = "accepted" => PrefixOf(forwarded, sent \o d)
    BY <1>0, <2>1, PrefixLonger DEF TypeOK, Relaying
  <2>6. Relaying'
    BY <1>0, <1>4, <2>4, <2>5 DEF Send, Relaying
  <2> QED
    BY <1>0, <1>4, <2>2, <2>3, <2>6
    DEF Send, HandshakeInv, TypeOK, Opening, Asking, Closed, RefusesOnlyFragments
<1> QED
  BY <1>1, <1>2, <1>3, <1>4

(* What React does with a frame keeps the invariant.                       *)
LEMMA ReactStep ==
  ASSUME HandshakeInv, NEW n \in 1 .. Len(up), ReactMethod(n) \/ ReactRequest(n) \/ ReactData(n)
  PROVE  HandshakeInv'
<1> USE DEF appVars
<1>0. TypeOK /\ Opening /\ Asking /\ Relaying /\ Closed /\ RefusesOnlyFragments
  BY DEF HandshakeInv
<1>1. /\ Frame(n) \in Seq(Byte) /\ Frame(n) \o SubSeq(up, n + 1, Len(up)) = up
      /\ SubSeq(up, n + 1, Len(up)) \in Seq(Byte)
      /\ n = Len(up) => SubSeq(up, n + 1, Len(up)) = <<>>
      /\ up # <<>>
  <2>1. up \in Seq(Byte)
    BY <1>0, Zenon DEF TypeOK
  <2>2. up # <<>>
    BY <2>1
  <2> QED
    BY <2>1, <2>2, FirstBytes, Zenon DEF Frame
<1>2. CASE ReactMethod(n)
  <2>1. status = "opened" /\ Received(n) /\ UNCHANGED appVars
    BY <1>2 DEF ReactMethod
  <2>2. PICK ms \in Offers : up = MethodMessage(ms)
    BY <1>0, <1>1, <2>1 DEF Opening
  <2>3. NewMethodRequestFrom(Frame(n)).err = "nil" <=> n = Len(up)
    BY <2>2, MethodDecoded DEF Frame
  <2>4. up' \in Seq(Byte) /\ (n = Len(up) => up' = <<>>)
    BY <1>1, <2>1 DEF Received
  <2>5. whole' = IF n < Len(up) THEN "no" ELSE whole
    BY <2>1 DEF Received
  <2>6. app = "method" /\ sent = <<>> /\ forwarded = <<>> /\ down = <<>> /\ why = "nothing"
        /\ link = "ok"
    BY <1>0, <1>1, <2>1 DEF Opening, Closed
  <2>7. CASE \E reason \in {"frame", "method"} :
               Refuse(reason) /\ (reason = "frame" => n # Len(up))
    <3>1. PICK reason \in {"frame", "method"} :
            Refuse(reason) /\ (reason = "frame" => n # Len(up))
      BY <2>7
    <3>2. reason = "frame" => whole' = "no"
      BY <2>5, <3>1
    <3> QED
      BY <1>0, <2>1, <2>4, <2>5, <2>6, <3>1, <3>2
      DEF Refuse, HandshakeInv, TypeOK, Opening, Asking, Relaying, Closed, RefusesOnlyFragments
  <2>8. CASE /\ n = Len(up) /\ status' = "methodAccepted"
             /\ UNCHANGED <<why, dialled, link, forwarded>>
    BY <1>0, <2>1, <2>4, <2>5, <2>6, <2>8
    DEF HandshakeInv, TypeOK, Opening, Asking, Relaying, Closed, RefusesOnlyFragments
  <2> QED
    BY <1>2, <2>3, <2>7, <2>8 DEF ReactMethod
<1>3. CASE ReactRequest(n)
  <2>1. status = "methodAccepted" /\ Received(n) /\ UNCHANGED appVars
    BY <1>3 DEF ReactRequest
  <2>2. /\ app = "request" /\ wanted \in Requests /\ up = RequestMessage(wanted)
        /\ down = <<>> /\ sent = <<>> /\ forwarded = <<>> /\ why = "nothing"
        /\ link = "ok"
    BY <1>0, <1>1, <2>1 DEF Asking, Closed
  <2>3. PICK d : d = NewRequestFrom(Frame(n))
    OBVIOUS
  <2>4. /\ d.err = "nil" <=> n = Len(up)
        /\ d.err = "nil" => wanted = [cmd |-> d.cmd, aTyp |-> d.aTyp,
                                       dstAddr |-> d.dstAddr, dstPort |-> d.dstPort]
    BY <2>2, <2>3, RequestDecoded DEF Frame
  <2>5. up' \in Seq(Byte) /\ (n = Len(up) => up' = <<>>)
    BY <1>1, <2>1 DEF Received
  <2>6. whole' = IF n < Len(up) THEN "no" ELSE whole
    BY <2>1 DEF Received
  <2>7. CASE \E reason \in {"frame", "dial"} :
               Refuse(reason) /\ (reason = "frame" => n # Len(up))
    <3>1. PICK reason \in {"frame", "dial"} :
            Refuse(reason) /\ (reason = "frame" => n # Len(up))
      BY <2>7
    <3>2. reason = "frame" => whole' = "no"
      BY <2>6, <3>1
    <3> QED
      BY <1>0, <2>1, <2>2, <2>5, <2>6, <3>1, <3>2
      DEF Refuse, HandshakeInv, TypeOK, Opening, Asking, Relaying, Closed, RefusesOnlyFragments
  <2>8. CASE /\ n = Len(up) /\ Serves(dialled', wanted) /\ forwarded' = <<>> /\ link' = link
             /\ \/ status' = "accepted" /\ UNCHANGED why
                \/ status' = "closed" /\ why' = "pool"
    <3>1. forwarded' \o up' = sent' /\ forwarded' \in Seq(Byte)
      BY <2>1, <2>2, <2>5, <2>8
    <3> QED
      BY <1>0, <2>1, <2>2, <2>5, <2>6, <2>8, <3>1
      DEF HandshakeInv, TypeOK, Opening, Asking, Relaying, Closed, RefusesOnlyFragments
  <2>9. ASSUME d.err = "nil", NEW dst \in GetDstAddrFromRequest(d),
               dialled' = [cmd |-> d.cmd, ip |-> dst.ip, port |-> dst.port]
        PROVE  Serves(dialled', wanted)
    <3>1. /\ d.cmd = wanted.cmd /\ d.aTyp = wanted.aTyp
          /\ d.dstAddr = wanted.dstAddr /\ d.dstPort = wanted.dstPort
      BY <2>4, <2>9
    <3>2. GetDstAddrFromRequest(d) = GetDstAddrFromRequest(wanted)
      BY <3>1 DEF GetDstAddrFromRequest
    <3> QED
      BY <2>2, <2>9, <3>1, <3>2, ServesRequest
  <2>10. \/ d.err # "nil" /\ Refuse("frame")
         \/ d.err = "nil" /\ Refuse("dial")
         \/ /\ d.err = "nil" /\ Serves(dialled', wanted) /\ forwarded' = <<>> /\ link' = link
            /\ \/ status' = "accepted" /\ UNCHANGED why
               \/ status' = "closed" /\ why' = "pool"
    BY <1>3, <2>3, <2>9 DEF ReactRequest, AfterRequest
  <2> QED
    BY <2>4, <2>7, <2>8, <2>10
<1>4. CASE ReactData(n)
  <2>1. /\ status = "accepted" /\ up' = SubSeq(up, n + 1, Len(up)) /\ whole' = whole
        /\ UNCHANGED <<down, status, why, dialled, appVars>>
    BY <1>4 DEF ReactData, Received
  <2>2. up' \in Seq(Byte) /\ forwarded \in Seq(Byte) /\ up \in Seq(Byte)
    BY <1>0, <1>1, <2>1 DEF TypeOK
  <2>3. CASE link = "ok" /\ forwarded' = forwarded \o Frame(n) /\ UNCHANGED link
    <3>1. forwarded' \in Seq(Byte)
      BY <1>1, <2>2, <2>3
    <3>2. (forwarded \o Frame(n)) \o up' = forwarded \o (Frame(n) \o up')
      BY <1>1, <2>2, JoinedTwice
    <3>3. forwarded' \o up' = forwarded \o up
      BY <1>1, <2>1, <2>3, <3>2, Zenon
    <3> QED
      BY <1>0, <2>1, <2>2, <2>3, <3>1, <3>3
      DEF HandshakeInv, TypeOK, Opening, Asking, Relaying, Closed, RefusesOnlyFragments
  <2>4. ASSUME link = "ok", link' = "failed",
               NEW k \in 0 .. n - 1, forwarded' = forwarded \o Frame(k)
        PROVE  HandshakeInv'
    <3>1. k \in 0 .. Len(up)
      OBVIOUS
    <3>2. forwarded' \in Seq(Byte) /\ PrefixOf(forwarded', forwarded \o up)
      BY <2>2, <2>4, <3>1, PrefixJoined DEF Frame
    <3>3. forwarded \o up = sent'
      BY <1>0, <2>1, <2>4 DEF Relaying
    <3>4. PrefixOf(forwarded', sent')
      BY <3>2, <3>3, Zenon
    <3> QED
      BY <1>0, <2>1, <2>2, <2>4, <3>2, <3>4
      DEF HandshakeInv, TypeOK, Opening, Asking, Relaying, Closed, RefusesOnlyFragments
  <2>5. CASE link = "failed" /\ UNCHANGED <<link, forwarded>>
    BY <1>0, <2>1, <2>2, <2>5
    DEF HandshakeInv, TypeOK, Opening, Asking, Relaying, Closed, RefusesOnlyFragments
  <2> QED
    BY <1>4, <2>3, <2>4, <2>5 DEF ReactData
<1> QED
  BY <1>2, <1>3, <1>4

(* The invariant of the handshake, however TCP cuts it.                    *)
THEOREM HandshakeInvariant == Spec => []HandshakeInv
<1>1. HandshakeInv /\ [Next]_vars => HandshakeInv'
  <2> SUFFICES ASSUME HandshakeInv, [Next]_vars PROVE HandshakeInv'
    OBVIOUS
  <2>1. CASE UNCHANGED vars
    BY <2>1
    DEF vars, HandshakeInv, TypeOK, Opening, Asking, Relaying, Closed, RefusesOnlyFragments
  <2>2. CASE React
    BY <2>2, ReactStep DEF React
  <2> QED
    BY <2>1, <2>2, AppStep DEF Next
<1> QED
  BY <1>1, InitHandshakeInv, PTL DEF Spec

(* React dials the destination that was asked for or none, however TCP     *)
(* cuts the handshake: DialsWhatWasAsked.                                  *)
THEOREM HandshakeDialsWhatWasAsked == Spec => []DialsWhatWasAsked
<1>1. HandshakeInv => DialsWhatWasAsked
  BY DEF HandshakeInv, Relaying, DialsWhatWasAsked
<1> QED
  BY <1>1, HandshakeInvariant, PTL

(* A message that arrives whole is never refused: RefusesOnlyFragments.    *)
THEOREM HandshakeRefusesOnlyFragments == Spec => []RefusesOnlyFragments
<1>1. HandshakeInv => RefusesOnlyFragments
  BY DEF HandshakeInv
<1> QED
  BY <1>1, HandshakeInvariant, PTL

(* The link gets the application's data, all of it and nothing else, or    *)
(* what was sent first when a write has failed: StreamKept.                *)
THEOREM HandshakeStreamKept == Spec => []StreamKept
<1>1. HandshakeInv => StreamKept
  BY DEF HandshakeInv, Relaying, StreamKept
<1> QED
  BY <1>1, HandshakeInvariant, PTL
-----------------------------------------------------------------------------
(* Nobody waits in vain: what is safety in HandshakeEnds.                  *)

(* React's answers wait for the application that has not read them.        *)
Answered ==
  /\ status = "methodAccepted" /\ app = "method" => down = <<5, NoAuthRequired>>
  /\ status = "accepted" /\ app = "request" => down = Success

(* When an application that waits for an answer has nothing left on its    *)
(* way to an open connection, the answer is there, and is what it reads.   *)
NoStandoff ==
  status # "closed" /\ up = <<>> =>
    /\ app = "method" => down = <<5, NoAuthRequired>>
    /\ app = "request" => Len(down) = 10 /\ SubSeq(down, 1, 4) = <<5, 0, 0, ATypeIPv4>>

(* Three sequences joined begin with the first.                            *)
LEMMA JoinedThree ==
  ASSUME NEW s \in Seq(Byte), NEW t \in Seq(Byte), NEW u \in Seq(Byte), s # <<>>
  PROVE  /\ Len(s \o t \o u) = Len(s) + Len(t) + Len(u)
         /\ SubSeq(s \o t \o u, 1, Len(s)) = s
<1>1. PICK v : v = t \o u
  OBVIOUS
<1>2. v \in Seq(Byte) /\ Len(v) = Len(t) + Len(u)
  BY <1>1, JoinedBytes
<1>3. s \o t \o u = s \o v
  BY <1>1, JoinedTwice
<1>4. Len(s \o v) = Len(s) + Len(v) /\ SubSeq(s \o v, 1, Len(s)) = s
  <2>1. PICK w : w = s \o v
    OBVIOUS
  <2>2. /\ w \in Seq(Byte) /\ Len(w) = Len(s) + Len(v) /\ Len(s) \in 1 .. Len(w)
        /\ \A i \in 1 .. Len(s) : w[i] = s[i]
    <3>1. /\ w \in Seq(Byte) /\ Len(w) = Len(s) + Len(v)
          /\ \A i \in 1 .. Len(s) : w[i] = s[i]
      BY <1>2, <2>1, JoinedBytes, Zenon
    <3>2. Len(s) \in Nat \ {0} /\ Len(v) \in Nat
      BY <1>2
    <3> QED
      BY <3>1, <3>2
  <2>3. PICK x : x = SubSeq(w, 1, Len(s))
    OBVIOUS
  <2>4. x \in Seq(Byte) /\ Len(x) = Len(s) /\ \A i \in 1 .. Len(s) : x[i] = s[i]
    BY <2>2, <2>3, FirstBytes
  <2>5. x = s
    BY <2>4
  <2> QED
    BY <2>1, <2>2, <2>3, <2>5
<1>5. Len(s) \in Nat /\ Len(t) \in Nat /\ Len(u) \in Nat
  OBVIOUS
<1> QED
  BY <1>2, <1>3, <1>4, <1>5

(* The reply that PackReply makes, whatever the port of the client.        *)
LEMMA SuccessLayout ==
  Len(Success) = 10 /\ SubSeq(Success, 1, 4) = <<5, 0, 0, ATypeIPv4>>
<1>1. PICK s : s = <<5, 0, 0, ATypeIPv4>>
  OBVIOUS
<1>2. PICK t : t = <<127, 0, 0, 1>>
  OBVIOUS
<1>3. PICK u : u = Uint16ToBytes(ClientPort)
  OBVIOUS
<1>4. s \in Seq(Byte) /\ Len(s) = 4
  BY <1>1 DEF Byte, ATypeIPv4
<1>5. t \in Seq(Byte) /\ Len(t) = 4
  BY <1>2 DEF Byte
<1>6. u \in Seq(Byte) /\ Len(u) = 2
  <2>1. ClientPort \in Port
    BY HandshakeAssumption, Zenon DEF HandshakeAssumption
  <2>2. PICK q, z \in Byte : Uint16ToBytes(ClientPort) = <<q, z>>
    BY <2>1, PortBytes, Zenon DEF Uint16ToBytes
  <2> QED
    BY <1>3, <2>2
<1>7. Success = s \o t \o u
  BY <1>1, <1>2, <1>3, Zenon DEF Success, PackReply
<1>8. Len(Success) = Len(s) + Len(t) + Len(u) /\ SubSeq(Success, 1, Len(s)) = s
  <2>1. s # <<>>
    BY <1>4
  <2> QED
    BY <1>4, <1>5, <1>6, <1>7, <2>1, JoinedThree, Zenon
<1>9. Len(Success) = 10 /\ SubSeq(Success, 1, 4) = s
  BY <1>4, <1>5, <1>6, <1>8
<1> QED
  BY <1>1, <1>9

(* A request or an offer is never empty.                                   *)
LEMMA MessagesNotEmpty ==
  /\ \A ms \in Offers : MethodMessage(ms) # <<>>
  /\ \A r \in Requests : RequestMessage(r) # <<>>
<1>1. ASSUME NEW ms \in Offers PROVE MethodMessage(ms) # <<>>
  <2>1. ms \in Seq(Byte) /\ Len(ms) \in 1 .. 255
    BY HandshakeAssumption, Zenon DEF HandshakeAssumption
  <2>2. Len(MethodMessage(ms)) = 2 + Len(ms)
    BY <2>1, MethodLayout
  <2> QED
    BY <2>1, <2>2
<1>2. ASSUME NEW r \in Requests PROVE RequestMessage(r) # <<>>
  <2>1. IsAddress(r.aTyp, r.dstAddr)
    BY RequestLayout
  <2>2. PICK q, z : RequestMessage(r) = <<5, r.cmd, 0, r.aTyp>> \o r.dstAddr \o <<q, z>>
    BY DEF RequestMessage
  <2>3. r.dstAddr \in Seq(Byte)
    BY <2>1, Zenon DEF IsAddress
  <2> QED
    BY <2>2, <2>3
<1> QED
  BY <1>1, <1>2

(* The answers are kept until they are read.                               *)
LEMMA AnsweredStep == HandshakeInv /\ Answered /\ [Next]_vars => Answered'
<1> SUFFICES ASSUME HandshakeInv, Answered, [Next]_vars PROVE Answered'
  OBVIOUS
<1> USE DEF appVars, connVars
<1>0. TypeOK /\ Opening /\ Asking /\ Relaying
  BY DEF HandshakeInv
<1>1. ASSUME NEW ms \in Offers, Offer(ms) PROVE Answered'
  BY <1>0, <1>1 DEF Offer, Answered, Asking
<1>2. ASSUME NEW r \in Requests, Ask(r) PROVE Answered'
  BY <1>0, <1>2 DEF Ask, Answered, Relaying
<1>3. CASE Connected
  BY <1>3 DEF Connected, Answered
<1>4. ASSUME NEW d \in Chunks, Send(d) PROVE Answered'
  BY <1>4 DEF Send, Answered
<1>5. ASSUME NEW n \in 1 .. Len(up), ReactMethod(n) PROVE Answered'
  BY <1>5 DEF ReactMethod, Refuse, Answered, EncodeMethodReply
<1>6. ASSUME NEW n \in 1 .. Len(up), ReactRequest(n) PROVE Answered'
  <2>1. \/ status' = "closed"
        \/ status' = "accepted" /\ down' = Success
    BY <1>6 DEF ReactRequest, Refuse
  <2> QED
    BY <2>1 DEF Answered, Success
<1>7. ASSUME NEW n \in 1 .. Len(up), ReactData(n) PROVE Answered'
  BY <1>7 DEF ReactData, Answered, Success
<1>8. CASE UNCHANGED vars
  BY <1>8 DEF vars, Answered, Success
<1> QED
  BY <1>1, <1>2, <1>3, <1>4, <1>5, <1>6, <1>7, <1>8 DEF Next, React

(* The application and React never wait for each other: NoStandoff.        *)
THEOREM HandshakeNoStandoff == Spec => []NoStandoff
<1>1. Init => Answered
  BY DEF Init, Answered
<1>2. HandshakeInv /\ Answered => NoStandoff
  <2> SUFFICES ASSUME HandshakeInv, Answered, status # "closed", up = <<>>
               PROVE  /\ app = "method" => down = <<5, NoAuthRequired>>
                      /\ app = "request" => Len(down) = 10
                           /\ SubSeq(down, 1, 4) = <<5, 0, 0, ATypeIPv4>>
    BY DEF NoStandoff
  <2>1. status = "opened" => app = "start"
    BY MessagesNotEmpty DEF HandshakeInv, Opening
  <2>2. status = "methodAccepted" => app = "method"
    BY MessagesNotEmpty DEF HandshakeInv, Asking
  <2>3. status = "accepted" => app = "relay" \/ (app = "request" /\ down = Success)
    BY DEF HandshakeInv, Relaying, Answered
  <2>4. status \in {"opened", "methodAccepted", "accepted"}
    BY DEF HandshakeInv, TypeOK
  <2>5. app = "method" => down = <<5, NoAuthRequired>>
    BY <2>1, <2>2, <2>3, <2>4 DEF Answered
  <2>6. app = "request" => down = Success
    BY <2>1, <2>2, <2>3, <2>4
  <2> QED
    BY <2>5, <2>6, SuccessLayout
<1> QED
  BY <1>1, <1>2, AnsweredStep, HandshakeInvariant, PTL DEF Spec
=============================================================================

----------------------------- MODULE Handshake ------------------------------
(***************************************************************************)
(* The SOCKS5 handshake on the byte level: an application, TCP, which      *)
(* cuts and joins what is sent as it likes, and React (pkg/core/client.go),*)
(* which decodes each frame gnet hands it as one whole message and keeps   *)
(* nothing of a frame for the next.                                        *)
(*                                                                         *)
(* The application follows the protocol: it waits for each answer before   *)
(* it goes on.  What it sends is laid out as the comments of pkg/socks5    *)
(* say, independently of the decoders.                                     *)
(***************************************************************************)
EXTENDS Socks5

CONSTANTS
  Offers,      \* the lists of methods an application may offer
  Requests,    \* the requests it may make
  Resolves,    \* the addresses that names may resolve to; other names do not
  Chunks,      \* the data it may send afterwards
  MaxChunks,   \* bound: chunks it sends
  ClientPort   \* ConfigGo.Client.Port

ASSUME HandshakeAssumption ==
  /\ \A ms \in Offers : ms \in Seq(Byte) /\ Len(ms) \in 1 .. 255
  /\ Requests \subseteq [cmd : Cmds, aTyp : {ATypeIPv4, ATypeDomainName, ATypeIPv6},
                        dstAddr : Seq(Byte), dstPort : Port]
  /\ \A r \in Requests :
       /\ r.dstAddr # <<>>
       /\ r.aTyp = ATypeIPv4 => Len(r.dstAddr) = 4
       /\ r.aTyp = ATypeIPv6 => Len(r.dstAddr) = 16
       /\ r.aTyp = ATypeDomainName => r.dstAddr[1] # 0 /\ Len(r.dstAddr) = 1 + r.dstAddr[1]
  /\ \A name \in DOMAIN Resolves : name \in Seq(Byte) /\ Resolves[name] \subseteq Seq(Byte)
  /\ Chunks \subseteq Seq(Byte) \ {<<>>}
  /\ MaxChunks \in Nat
  /\ ClientPort \in Port

VARIABLES
  app,        \* the application: "start", "method", "request", "relay"
  wanted,     \* the request it made
  up, down,   \* bytes on their way to the client and to the application
  sent,       \* the data the application has sent, chunk after chunk
  chunks,     \* how many chunks that is
  status,     \* conn.status, "closed" once React answered gnet.Close
  why,        \* what React closed for: a frame, method, dial, pool or nothing
  whole,      \* history: "yes" while no handshake frame was cut
  dialled,    \* what React dialled: conn.cmd and conn.dstAddr
  link,       \* "ok" until a write to the destination fails, then "failed"
  forwarded   \* the data written to the link

vars == <<app, wanted, up, down, sent, chunks, status, why, whole, dialled, link, forwarded>>
appVars == <<app, wanted, sent, chunks>>
connVars == <<status, why, whole, dialled, link, forwarded>>

NoRequest == [cmd |-> 0, aTyp |-> 0, dstAddr |-> <<>>, dstPort |-> 0]
Nowhere == [cmd |-> 0, ip |-> <<>>, port |-> 0]

Init ==
  /\ app = "start" /\ wanted = NoRequest
  /\ up = <<>> /\ down = <<>>
  /\ sent = <<>> /\ chunks = 0
  /\ status = "opened" /\ why = "nothing" /\ whole = "yes"
  /\ dialled = Nowhere /\ link = "ok" /\ forwarded = <<>>
-----------------------------------------------------------------------------
(* The application.                                                        *)

MethodMessage(ms) == <<5, Len(ms)>> \o ms

RequestMessage(r) ==
  <<5, r.cmd, 0, r.aTyp>> \o r.dstAddr \o <<r.dstPort \div 256, r.dstPort % 256>>

Offer(ms) ==
  /\ app = "start"
  /\ app' = "method"
  /\ up' = MethodMessage(ms)
  /\ UNCHANGED <<wanted, down, sent, chunks, connVars>>

(* It reads the two bytes of the method reply and makes its request.       *)
Ask(r) ==
  /\ app = "method"
  /\ down = <<5, NoAuthRequired>>
  /\ app' = "request"
  /\ wanted' = r
  /\ up' = RequestMessage(r)
  /\ down' = <<>>
  /\ UNCHANGED <<sent, chunks, connVars>>

(* It reads a reply of success, with an IPv4 address.                      *)
Connected ==
  /\ app = "request"
  /\ Len(down) = 10 /\ SubSeq(down, 1, 4) = <<5, 0, 0, ATypeIPv4>>
  /\ app' = "relay"
  /\ down' = <<>>
  /\ UNCHANGED <<wanted, up, sent, chunks, connVars>>

Send(d) ==
  /\ app = "relay"
  /\ chunks < MaxChunks
  /\ chunks' = chunks + 1
  /\ sent' = sent \o d
  /\ up' = up \o d
  /\ UNCHANGED <<app, wanted, down, connVars>>
-----------------------------------------------------------------------------
(* React, for a frame of the first n bytes in flight.                      *)

Frame(n) == SubSeq(up, 1, n)

Received(n) ==
  /\ n <= Len(up)
  /\ up' = SubSeq(up, n + 1, Len(up))
  /\ whole' = IF status # "accepted" /\ n < Len(up) THEN "no" ELSE whole

(* The reply to a request that was dialled.                                *)
Success == PackReply(0, ATypeIPv4, <<127, 0, 0, 1>>, ClientPort)

(* gnet.Close, and nothing written.                                        *)
Refuse(reason) ==
  /\ status' = "closed"
  /\ why' = reason
  /\ UNCHANGED <<down, dialled, link, forwarded>>

NoAuthOffered(mr) == \E i \in DOMAIN mr.methods : mr.methods[i] = NoAuthRequired

(* StatusOpened.                                                           *)
ReactMethod(n) ==
  /\ status = "opened"
  /\ Received(n)
  /\ LET mr == NewMethodRequestFrom(Frame(n)) IN
       \/ mr.err # "nil" /\ Refuse("frame")
       \/ mr.err = "nil" /\ ~NoAuthOffered(mr) /\ Refuse("method")
       \/ /\ mr.err = "nil" /\ NoAuthOffered(mr)
          /\ down' = EncodeMethodReply(NoAuthRequired)
          /\ status' = "methodAccepted"
          /\ UNCHANGED <<why, dialled, link, forwarded>>
  /\ UNCHANGED appVars

(* Fault: what follows the request in its frame is forwarded, from the     *)
(* last byte of the port on.                                               *)
AfterRequestKept(n) == SubSeq(Frame(n), n, n)

(* What of the request's frame goes to the link: nothing.                  *)
AfterRequest(n) == <<>>

(* DefaultResolver.LookupIPAddr returns an error rather than no address.   *)
LookupIPAddr(name) == IF name \in DOMAIN Resolves THEN Resolves[name] ELSE {}

(* The addresses that GetDstAddrFromRequest may return, none for an error. *)
(* The name is DstAddr without its length byte.                            *)
GetDstAddrFromRequest(r) ==
  IF r.aTyp = ATypeDomainName
  THEN {[ip |-> a, port |-> r.dstPort] : a \in LookupIPAddr(SubSeq(r.dstAddr, 2, Len(r.dstAddr)))}
  ELSE {[ip |-> r.dstAddr, port |-> r.dstPort]}

(* StatusMethodAccepted: resolve and dial, which may fail, then reply; if  *)
(* the pool refuses the goroutine React closes, but gnet has the reply.    *)
ReactRequest(n) ==
  /\ status = "methodAccepted"
  /\ Received(n)
  /\ LET r == NewRequestFrom(Frame(n)) IN
       \/ r.err # "nil" /\ Refuse("frame")
       \/ r.err = "nil" /\ Refuse("dial")
       \/ /\ r.err = "nil"
          /\ \E dst \in GetDstAddrFromRequest(r) :
               dialled' = [cmd |-> r.cmd, ip |-> dst.ip, port |-> dst.port]
          /\ down' = Success
          /\ forwarded' = AfterRequest(n)
          /\ \/ status' = "accepted" /\ UNCHANGED why
             \/ status' = "closed" /\ why' = "pool"
          /\ UNCHANGED link
  /\ UNCHANGED appVars

(* StatusAccepted.  When the write fails, after k bytes, React logs it and *)
(* returns gnet.None, so that the next frames come and their writes fail:  *)
(* neither a TCP connection nor a websocket recovers from such an error.   *)
ReactData(n) ==
  /\ status = "accepted"
  /\ Received(n)
  /\ \/ link = "ok" /\ forwarded' = forwarded \o Frame(n) /\ UNCHANGED link
     \/ /\ link = "ok" /\ link' = "failed"
        /\ \E k \in 0 .. n - 1 : forwarded' = forwarded \o Frame(k)
     \/ link = "failed" /\ UNCHANGED <<link, forwarded>>
  /\ UNCHANGED <<down, status, why, dialled, appVars>>
-----------------------------------------------------------------------------
React == \E n \in 1 .. Len(up) : ReactMethod(n) \/ ReactRequest(n) \/ ReactData(n)

Next ==
  \/ \E ms \in Offers : Offer(ms)
  \/ \E r \in Requests : Ask(r)
  \/ Connected
  \/ \E d \in Chunks : Send(d)
  \/ React

Spec == Init /\ [][Next]_vars

(* TCP delivers, React handles what arrives and the application reads.     *)
(* The calls that React makes are taken to return: those that do not are   *)
(* Client's subject.                                                       *)
Fairness == WF_vars(React) /\ WF_vars(Connected)

FairSpec == Spec /\ Fairness
-----------------------------------------------------------------------------
(* Properties.                                                             *)

(* d is what the request r asks for: its command and port, and its address *)
(* or one that its name resolves to.                                       *)
Serves(d, r) ==
  /\ d.cmd = r.cmd /\ d.port = r.dstPort
  /\ r.aTyp # ATypeDomainName => d.ip = r.dstAddr
  /\ r.aTyp = ATypeDomainName =>
       \E name \in DOMAIN Resolves : r.dstAddr = <<Len(name)>> \o name /\ d.ip \in Resolves[name]

(* However TCP cuts the handshake, React dials the destination that was    *)
(* asked for or none: a part of a message never passes for a message.      *)
DialsWhatWasAsked == status = "accepted" => Serves(dialled, wanted)

(* Decoding a message that arrives whole never fails: React refuses one    *)
(* only if it was cut.                                                     *)
RefusesOnlyFragments == why = "frame" => whole = "no"

PrefixOf(s, t) == Len(s) <= Len(t) /\ \A i \in 1 .. Len(s) : s[i] = t[i]

(* The link gets the bytes that the application sends after its request,   *)
(* all of them and nothing else, however they are cut or joined; once a    *)
(* write has failed, which React does not tell the application, it still   *)
(* has what was sent first and nothing from after the gap.                 *)
StreamKept ==
  status = "accepted" =>
    /\ link = "ok" => forwarded \o up = sent
    /\ link = "failed" => PrefixOf(forwarded, sent)

(* A request that arrives is answered: the application is connected or the *)
(* connection closed, never both ends waiting for each other.              *)
HandshakeEnds == (app = "request") ~> (app = "relay" \/ status = "closed")
=============================================================================

------------------------------- MODULE Config -------------------------------
(***************************************************************************)
(* The configuration (pkg/config): what the validator's tags accept, what  *)
(* the Init functions accept besides, and what they make of it.            *)
(*                                                                         *)
(* A configuration is a record: the three ports as the integers of the     *)
(* file or the form; server and user ("" when empty; user stands for name  *)
(* and password); dns, the type of the resolver; addr, "" or the form of   *)
(* its address ("ip", "ip:port", "junk"); log, the file of the log ("",    *)
(* "file", or "dir" for a path that cannot be opened); level, that of the  *)
(* log ("" or one of logrus's).                                            *)
(***************************************************************************)
EXTENDS Naturals

CONSTANT CutPoints   \* where a file may end too early: see Cut

ASSUME ConfigAssumption == CutPoints \subseteq 0 .. 8

PortNumbers == 1 .. 65535

(* Fault: the tag lte=65535 is missing.                                    *)
PortValidUnbounded(n) == n >= 1

(* required, gte=0, lte=65535                                              *)
PortValid(n) == n \in PortNumbers

(* The tags of ClientTOML; each nefield excludes one pair.                 *)
ClientValid(c) ==
  /\ PortValid(c.port) /\ PortValid(c.http) /\ PortValid(c.redir)
  /\ c.port # c.http /\ c.http # c.redir /\ c.redir # c.port
  /\ c.server # "" /\ c.user # ""

(* The tags of DNSToml and of LogTOML.                                     *)
DNSValid(c) ==
  /\ c.dns \in {"default", "dot", "doh"}
  /\ c.addr \in {"", "ip", "ip:port"}

(* Fault: the level of the log is not required.                            *)
LogValidFileOnly(c) == c.log # ""

LogValid(c) == c.log # "" /\ c.level # ""

(* validate.Struct of a ConfigTOML: the client's section is not entered.   *)
StructValid(c) == LogValid(c) /\ DNSValid(c)

(* DNSToml.Init: ResolveTCPAddr wants a port, or nothing at all; DoH wants *)
(* a bare IP address.                                                      *)
DNSInit(c) ==
  CASE c.dns = "dot" -> c.addr \in {"", "ip:port"}
    [] c.dns = "doh" -> c.addr = "ip"
    [] OTHER -> TRUE

(* LogTOML.Init: not a directory, and it can be opened; ParseLevel.        *)
LogInit(c) == c.log = "file" /\ c.level # ""

(* ConfigTOML.Init                                                         *)
ConfigInit(c) == StructValid(c) /\ LogInit(c) /\ DNSInit(c)

Uint16(n) == n % 65536

(* ClientTOML.Init                                                         *)
ClientInit(c) ==
  [port |-> Uint16(c.port), http |-> Uint16(c.http), redir |-> Uint16(c.redir)]

(* The file that SaveClient writes, if it ends after the first k values:   *)
(* TOML is written section by section, [client], [dns] and [log], and key  *)
(* by key, in alphabetical order; Unmarshal leaves zero what is missing.   *)
(* A file that ends inside a value does not parse at all.                  *)
Cut(c, k) ==
  LET Kept(n, value, zero) == IF n <= k THEN value ELSE zero
  IN  [http   |-> Kept(1, c.http, 0),
       port   |-> Kept(2, c.port, 0),
       redir  |-> Kept(3, c.redir, 0),
       server |-> Kept(4, c.server, ""),
       user   |-> Kept(5, c.user, ""),
       addr   |-> Kept(6, c.addr, ""),
       dns    |-> Kept(7, c.dns, ""),
       log    |-> Kept(8, c.log, ""),
       level  |-> Kept(9, c.level, "")]
=============================================================================

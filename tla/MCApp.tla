------------------------------- MODULE MCApp -------------------------------
(* Two runs of a process, with configurations of each kind.                *)
EXTENDS App

Plain == [port |-> 1080, http |-> 1088, redir |-> 1090, server |-> "host", user |-> "name",
          dns |-> "default", addr |-> "", log |-> "file",
          level |-> "info"]
DoH == [Plain EXCEPT !.dns = "doh", !.addr = "ip", !.port = 1081]
DoT == [Plain EXCEPT !.dns = "dot", !.addr = "ip:port", !.port = 1081]
Wide == [Plain EXCEPT !.port = 65536 + 1088]

MCConfigs == {Plain, DoH, DoT, Wide}
=============================================================================

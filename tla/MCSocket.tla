------------------------------ MODULE MCSocket ------------------------------
(***************************************************************************)
(* Small instances of Socket.                                              *)
(***************************************************************************)
EXTENDS Socket

Host == <<"x", "a", "b">>

Name(n) == [cn |-> "name", name |-> n, sans |-> <<>>, digest |-> 1]

San(n, nul) == [name |-> n, nul |-> nul]

(* The server's own name, a wildcard, another name, alternative names, and  *)
(* the malformed ones; one certificate has another digest.                  *)
MCCerts ==
  {Name(Host), Name(<<"*", "a", "b">>), Name(<<"*", "b">>),
   [Name(Host) EXCEPT !.digest = 2],
   [Name(<<"y">>) EXCEPT !.sans = <<San(<<"z">>, FALSE), San(Host, FALSE)>>],
   [Name(Host) EXCEPT !.sans = <<San(Host, FALSE), San(Host, TRUE)>>],
   [Name(<<>>) EXCEPT !.cn = "none", !.sans = <<San(Host, FALSE)>>],
   [Name(<<>>) EXCEPT !.cn = "long"]}

Plain == [NoOptions EXCEPT !.cname = Host]

Tls == [Plain EXCEPT !.use_ssl = TRUE]

MCOptions ==
  {[Plain EXCEPT !.timeout = TRUE, !.unix = TRUE],
   [Plain EXCEPT !.starttls = TRUE, !.certck = TRUE],
   [Plain EXCEPT !.starttls = TRUE, !.sslproto = "ssl3"],
   Tls, [Tls EXCEPT !.unix = TRUE], [Tls EXCEPT !.certck = TRUE, !.timeout = TRUE],
   [Tls EXCEPT !.fingerprint = 1, !.sslproto = "tls1.2+"],
   [Tls EXCEPT !.certck = TRUE, !.fingerprint = 2, !.sslproto = "tls1.2"],
   [Tls EXCEPT !.certck = TRUE, !.sslproto = "ssl3"],
   [Tls EXCEPT !.certck = TRUE, !.cname = <<"1", "2", "2">>]}
  \cup {[Plain EXCEPT !.plugin = p, !.use_ssl = (p[1] = "c")] :
          p \in {<<"c", " ", "%h", " ", "%p", "d">>, <<" ", "%h", " ", " ", "c">>,
                 <<"c">>, <<"c", " ">>}}

MCText == <<"a", "\n", "b", "b", "b", "\n", "c">>

MCRequest == <<1, 2, 3>>
=============================================================================

------------------------------ MODULE MCLogin ------------------------------
(***************************************************************************)
(* Accounts and servers for model checking Login.                          *)
(***************************************************************************)
EXTENDS Login

Plain == [protocol |-> "IMAP", auth |-> "any", sslproto |-> "", certck |-> FALSE,
          use_ssl |-> FALSE, creds |-> TRUE, rpa |-> FALSE, msn |-> FALSE,
          service |-> "default"]

\* Every way to authenticate, over both protocols; TLS wished for, demanded
\* and forbidden with those the code treats differently.
MCConfigs ==
    {[Plain EXCEPT !.protocol = p, !.auth = a, !.sslproto = s, !.service = "other"] :
        p \in {"IMAP", "POP3"}, a \in Auths \ {"any"}, s \in {"", "tls1"}}
    \cup {[Plain EXCEPT !.protocol = p, !.sslproto = s, !.service = v, !.certck = c] :
            p \in {"IMAP", "POP3"}, s \in {"", "auto"}, v \in {"other", "kpop"},
            c \in BOOLEAN}
    \cup {[Plain EXCEPT !.protocol = p, !.auth = "password", !.sslproto = "unset"] :
            p \in {"IMAP", "POP3"}}
    \cup {[Plain EXCEPT !.protocol = p, !.rpa = r] : p \in {"APOP", "RPOP", "POP3"},
            r \in BOOLEAN}
    \cup {[Plain EXCEPT !.protocol = "POP3", !.msn = TRUE, !.auth = a] : a \in {"any", "cram"}}
    \cup {[Plain EXCEPT !.protocol = "POP3", !.rpa = TRUE, !.sslproto = "tls1"]}

\* What servers announce: mechanisms two by two, so that each can fail before
\* another.
MCOffers == {{"EXTERNAL", "CRAM-MD5"}, {"GSSAPI", "NTLM", "STARTTLS"},
             {"KERBEROS_V4", "X-OTP", "LOGINDISABLED"}, {"RPA", "GSSAPI", "CRAM-MD5"}}
=============================================================================

------------------------------- MODULE MCTurn -------------------------------
(***************************************************************************)
(* A small instance of Turn: both protocols, ODMR with and without TLS,    *)
(* with and without a login to the server's SMTP service.                  *)
(***************************************************************************)
EXTENDS Turn

Plain(proto) == [proto |-> proto, bad |-> FALSE, ssl |-> FALSE, login |-> FALSE]

MCConfigs ==
  {[Plain("etrn") EXCEPT !.login = TRUE],
   Plain("odmr"),
   [Plain("odmr") EXCEPT !.ssl = TRUE, !.login = TRUE],
   [Plain("odmr") EXCEPT !.bad = TRUE]}
=============================================================================

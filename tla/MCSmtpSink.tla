----------------------------- MODULE MCSmtpSink -----------------------------
(***************************************************************************)
(* Configurations for model checking SmtpSink.                             *)
(***************************************************************************)
EXTENDS SmtpSink

Base == [mode |-> "S", bouncemail |-> TRUE, spambounce |-> FALSE,
         postmaster |-> TRUE, batchlimit |-> 1, ehlo |-> TRUE]

SinkOptions ==
    {Base,
     [Base EXCEPT !.postmaster = FALSE, !.spambounce = TRUE, !.ehlo = FALSE,
                  !.batchlimit = 2],
     [Base EXCEPT !.bouncemail = FALSE, !.batchlimit = 0],
     [Base EXCEPT !.mode = "L", !.postmaster = FALSE, !.batchlimit = 0],
     [Base EXCEPT !.mode = "L"],
     [Base EXCEPT !.mode = "mda"],
     [Base EXCEPT !.mode = "bsmtp"]}

LmtpOptions == {[Base EXCEPT !.mode = "L", !.batchlimit = 0]}
=============================================================================

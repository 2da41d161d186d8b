----------------------------- MODULE MCTransact -----------------------------
(***************************************************************************)
(* Messages, hosts and options for model checking Transact.                *)
(***************************************************************************)
EXTENDS Transact

At(u, h) == [user |-> u, virtual |-> FALSE, host |-> h]
Hdr(k, i, as) == [Line(k) EXCEPT !.id = i, !.addrs = as]
Text(i, n) == [Line("text") EXCEPT !.id = i, !.dots = n]
Rcvd(h, as) == [Line("received") EXCEPT !.by = h, !.addrs = as]

Ann == At("ann", "site")
Bob == At("bob", "server")

\* A message with all the lines that readheaders looks for.
Full ==
    [headers |-> <<Hdr("From_", 1, <<>>), Hdr("other", 1, <<>>),
                   Hdr("returnpath", 1, <<At("list", "far")>>),
                   Hdr("returnpath", 2, <<>>),
                   Hdr("deliveredto", 1, <<At("relay", "far")>>),
                   Rcvd("far", <<At("relay", "far")>>),
                   Hdr("deliveredto", 2, <<Ann>>),
                   Hdr("xenv", 1, <<At("list", "far")>>),
                   Hdr("xenv", 2, <<[Ann EXCEPT !.virtual = TRUE]>>),
                   Rcvd("mx", <<Ann>>),
                   Hdr("status", 1, <<>>), Hdr("emptystatus", 1, <<>>),
                   Hdr("to", 1, <<Bob, At("ann", "none"), At("dan", "far")>>),
                   Hdr("resentto", 1, <<At("eve", "site"), At("carl", "alias")>>)>>,
     sep |-> TRUE, body |-> <<Text(1, 0), Text(2, 1)>>, open |-> TRUE]

\* Two copies of a message to two users, as a multidrop mailbox gets them.
Copy ==
    [headers |-> <<Hdr("mention", 1, <<>>), Hdr("from", 1, <<At("list", "far")>>),
                   Hdr("to", 2, <<Bob, At("eve", "sub")>>)>>,
     sep |-> TRUE, body |-> <<Text(3, 0)>>, open |-> FALSE]

Headerless == [headers |-> <<>>, sep |-> TRUE, body |-> <<Text(4, 2)>>, open |-> FALSE]
NoBlank == [headers |-> <<Hdr("to", 3, <<At("ann", "far")>>), Hdr("replyto", 1, <<Ann>>)>>,
            sep |-> FALSE, body |-> <<Text(5, 0)>>, open |-> FALSE]
HeaderOnly == [headers |-> <<Hdr("to", 4, <<At("ann", "ip")>>),
                             Hdr("apparentlyfrom", 1, <<Bob>>)>>,
               sep |-> FALSE, body |-> <<>>, open |-> FALSE]
Internal == [headers |-> <<Hdr("ximap", 1, <<>>)>>, sep |-> TRUE,
             body |-> <<Text(6, 0)>>, open |-> FALSE]

SomeMail == <<Internal, Full, Copy, Copy, NoBlank, HeaderOnly, Headerless>>
SomeBoxes == {<<1, 2>>, <<3, 4>>, <<5, 6>>, <<7, 3>>, <<2, 5>>}
OneBox == {<<3>>}

HostFacts ==
    [h \in {"none", "server", "site", "alias", "ip", "mx", "far", "sub"} |->
       [canon  |-> CASE h = "alias" -> "same" [] h = "ip" -> "different"
                     [] h \in {"far", "sub"} -> "different" [] OTHER -> "unknown",
        ip     |-> h = "ip",
        mx     |-> h = "mx",
        parent |-> IF h = "sub" THEN "alias" ELSE ""]]

Locals == [a \in {Ann, NameOf(Bob), NameOf(Ann)} |->
             LocalUser(CASE a = Ann -> "ann" [] a = NameOf(Bob) -> "bob"
                         [] a = NameOf(Ann) -> "anne")]
Domains == {"site"}

Base == [delimited |-> TRUE, multidrop |-> FALSE, envelope |-> "received",
         envskip |-> 0, dropdelivered |-> FALSE, dropstatus |-> FALSE,
         acceptbad |-> FALSE, mda |-> FALSE, invisible |-> FALSE,
         wildcard |-> FALSE, qvirtual |-> FALSE, dns |-> FALSE,
         checkalias |-> FALSE, softbounce |-> TRUE, keep |-> FALSE,
         flush |-> FALSE, limitflush |-> FALSE]
Multi == [Base EXCEPT !.multidrop = TRUE, !.dns = TRUE]

SafeOptions ==
    {Base,
     [Base EXCEPT !.delimited = FALSE, !.mda = TRUE, !.dropstatus = TRUE,
                  !.softbounce = FALSE],
     [Base EXCEPT !.mda = TRUE, !.acceptbad = TRUE, !.softbounce = FALSE],
     [Base EXCEPT !.delimited = FALSE, !.invisible = TRUE, !.keep = TRUE],
     Multi,
     [Multi EXCEPT !.delimited = FALSE, !.envelope = "xenv", !.envskip = 1,
                   !.qvirtual = TRUE, !.checkalias = TRUE],
     [Multi EXCEPT !.envelope = "deliveredto", !.envskip = 1,
                   !.dropdelivered = TRUE, !.dns = FALSE],
     [Multi EXCEPT !.envelope = "deliveredto", !.envskip = 1, !.dns = FALSE,
                   !.acceptbad = TRUE],
     [Multi EXCEPT !.envelope = "disabled", !.delimited = FALSE, !.wildcard = TRUE]}

\* The users of whom comments say what the code does not do.
DisagreeOptions == {[Multi EXCEPT !.softbounce = FALSE, !.dns = FALSE], Multi}
=============================================================================

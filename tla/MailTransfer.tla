---------------------------- MODULE MailTransfer ----------------------------
(***************************************************************************)
(* What a mail retriever promises, whatever protocol it speaks: a message  *)
(* leaves the server's mailbox only after its fate is settled (the local   *)
(* listener took it, the listener refused it for good, or the user asked   *)
(* for oversized mail to be discarded), and only such messages are         *)
(* remembered as seen across restarts.  Delivery is at least once: a       *)
(* settled message may be offered to the listener again.                   *)
(***************************************************************************)
CONSTANTS Msgs,         \* every message that may ever arrive
          Oversized     \* those above the user's size limit

VARIABLES box,          \* messages in the mailbox on the server
          fate,         \* what became of each message
          ids           \* messages remembered as seen in the id file

vars == <<box, fate, ids>>

Fates == {"waiting", "accepted", "refused", "discarded"}

\* Messages that no longer need the copy on the server.
Settled(f) == {m \in Msgs : f[m] # "waiting"}

Init ==
    /\ box = {}
    /\ fate = [m \in Msgs |-> "waiting"]
    /\ ids = {}

Arrive(m) ==
    /\ m \notin box
    /\ fate[m] = "waiting"
    /\ box' = box \cup {m}
    /\ UNCHANGED <<fate, ids>>

\* The listener answered "accepted" or "refused" for a copy of m.  A refusal
\* of a later copy does not undo an acceptance.
Settle(m, f) ==
    /\ m \in box
    /\ f = "discarded" => m \in Oversized
    /\ fate' = [fate EXCEPT ![m] = IF @ = "accepted" THEN @ ELSE f]
    /\ UNCHANGED <<box, ids>>

\* Another client of the same mailbox reads or deletes the messages S, and
\* removes R, of which none is left waiting.
Take(S, R) ==
    /\ S \subseteq box
    /\ fate' = [m \in Msgs |->
                  IF m \in S /\ fate[m] = "waiting" THEN "taken" ELSE fate[m]]
    /\ R \subseteq box \cap Settled(fate')
    /\ box' = box \ R
    /\ UNCHANGED ids

\* The server expunges a batch of messages when a session ends.
Expunge(S) ==
    /\ S \subseteq box \cap Settled(fate)
    /\ box' = box \ S
    /\ UNCHANGED <<fate, ids>>

Remember(S) ==
    /\ S \subseteq Settled(fate)
    /\ ids' = S
    /\ UNCHANGED <<box, fate>>

Next ==
    \/ \E m \in Msgs : Arrive(m)
    \/ \E m \in Msgs, f \in Fates \ {"waiting"} : Settle(m, f)
    \/ \E S, R \in SUBSET Msgs : Take(S, R)
    \/ \E S \in SUBSET Msgs : Expunge(S)
    \/ \E S \in SUBSET Msgs : Remember(S)

Spec == Init /\ [][Next]_vars
=============================================================================

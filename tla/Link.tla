-------------------------------- MODULE Link --------------------------------
(***************************************************************************)
(* One direction of the network between two processes of the framework.   *)
(* The solutions see it only through Context.send and on_message: a        *)
(* message may be reordered with any other, and, depending on the test     *)
(* (set_drop_rate, set_dupl_rate), lost or delivered more than once.       *)
(*                                                                         *)
(* A link is the SET of the messages in flight.  When Duplicating holds a  *)
(* member stands for one or more copies, so that an arrival may or may not *)
(* take the last copy away, and a retransmission of a message in flight    *)
(* changes nothing.  A link without duplication is exact only for a        *)
(* process that never sends the same message twice.                        *)
(***************************************************************************)
CONSTANTS Lossy,        \* may messages be lost
          Duplicating   \* may one message arrive several times

ASSUME LinkAssumption == Lossy \in BOOLEAN /\ Duplicating \in BOOLEAN

\* Context.send: the data is serialised at once (json.dumps), so that later
\* changes of the message object do not reach the copy in flight.
Sent(link, m) == link \cup {m}

\* What may be in flight once m has arrived.
AfterArrival(link, m) ==
    {link \ {m}} \cup (IF Duplicating THEN {link} ELSE {})

\* What may be in flight once some message has been lost.
AfterLoss(link) == IF Lossy THEN {link \ {m} : m \in link} ELSE {}
=============================================================================

---------------------------- MODULE WindowSender ----------------------------
(***************************************************************************)
(* The sender of the exactly-once solutions (homework 01).  The classes    *)
(* ExactlyOnceSender and ExactlyOnceOrderedSender have the same handlers;  *)
(* ExactlyOnce and ExactlyOnceOrdered compose this module with the two     *)
(* receivers.                                                              *)
(*                                                                         *)
(* Every message gets a number and a timer.  Until the receiver            *)
(* acknowledges it the message stays in _message_store and its timer is    *)
(* set again each time it fires; it is put on the network only while it is *)
(* inside the window  0 .. _order_lower_bound + LIMIT, where the bound is  *)
(* the one the receiver reported.                                          *)
(*                                                                         *)
(* A handler of the framework runs to its end before its sends and timers  *)
(* take effect, so each handler is one action.  A timer may fire at any    *)
(* moment after it was set: delays are not modelled.                       *)
(***************************************************************************)
EXTENDS Integers, Sequences, Link

CONSTANTS Texts,        \* what the user may ask to send
          MaxMessages,  \* bound of the model: how many messages the user sends
          Limit         \* MESSAGE_ORDER_LIMIT_EO, MESSAGE_ORDER_LIMIT_EOO

ASSUME WindowAssumption == MaxMessages \in Nat /\ Limit \in Nat

VARIABLES sent,          \* history: the texts the user has submitted
          order,         \* _order, the next number
          sendBound,     \* the sender's _order_lower_bound
          messageStore,  \* _message_store, number -> text
          timers,        \* the numbers whose timer is set
          data,          \* the link to the receiver
          acks           \* the link back

senderVars == <<sent, order, sendBound, messageStore, timers>>

Data(k, t) == [order |-> k, text |-> t]
Ack(k, b)  == [order |-> k, lower_bound |-> b]

InWindow_OneTooFar(k) == k <= sendBound + Limit + 1
InWindow(k) == k <= sendBound + Limit

\* The bound after an acknowledgement that carries b: late ones do not lower it.
RaisedBound(b) == IF b > sendBound THEN b ELSE sendBound

SenderInit ==
    /\ sent = << >>
    /\ order = 0
    /\ sendBound = 0
    /\ messageStore = << >>
    /\ timers = {}
    /\ data = {}
    /\ acks = {}

OnLocalMessage(t) ==
    /\ order < MaxMessages
    /\ sent' = Append(sent, t)
    /\ messageStore' = [k \in DOMAIN messageStore \cup {order} |->
                            IF k = order THEN t ELSE messageStore[k]]
    /\ data' = IF InWindow(order) THEN Sent(data, Data(order, t)) ELSE data
    /\ timers' = timers \cup {order}
    /\ order' = order + 1
    /\ UNCHANGED <<sendBound, acks>>

\* An acknowledgement may be a second one, or one that has been overtaken:
\* pop(.., None) ignores a number that is no longer stored.
Forgotten_BelowBound(a) == 0 .. a.lower_bound
Forgotten(a) == {a.order}

OnAck(a) ==
    /\ a \in acks
    /\ acks' \in AfterArrival(acks, a)
    /\ messageStore' = [k \in DOMAIN messageStore \ Forgotten(a) |-> messageStore[k]]
    /\ sendBound' = RaisedBound(a.lower_bound)
    /\ UNCHANGED <<sent, order, timers, data>>

\* The timers left once the timer of k has fired: a stored message waits again,
\* whether or not it could be sent.
TimersAfter_OnlyInWindow(k) ==
    IF k \in DOMAIN messageStore /\ InWindow(k) THEN timers ELSE timers \ {k}
TimersAfter(k) == IF k \in DOMAIN messageStore THEN timers ELSE timers \ {k}

OnTimer(k) ==
    /\ k \in timers
    /\ timers' = TimersAfter(k)
    /\ data' = IF k \in DOMAIN messageStore /\ InWindow(k)
               THEN Sent(data, Data(k, messageStore[k]))
               ELSE data
    /\ UNCHANGED <<sent, order, sendBound, messageStore, acks>>

LoseData == data' \in AfterLoss(data) /\ UNCHANGED <<senderVars, acks>>
LoseAck  == acks' \in AfterLoss(acks) /\ UNCHANGED <<senderVars, data>>

SenderTypeOK ==
    /\ sent \in Seq(Texts)
    /\ order \in Nat
    /\ sendBound \in Nat
    /\ DOMAIN messageStore \subseteq Nat
    /\ messageStore \in [DOMAIN messageStore -> Texts]
    /\ timers \subseteq Nat
    /\ data \subseteq [order : Nat, text : Texts]
    /\ acks \subseteq [order : Nat, lower_bound : Nat]
=============================================================================

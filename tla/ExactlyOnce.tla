----------------------------- MODULE ExactlyOnce -----------------------------
(***************************************************************************)
(* Exactly-once delivery (homework 01, ExactlyOnceSender and               *)
(* ExactlyOnceReceiver): the window sender, two unreliable links, and a    *)
(* receiver that remembers the numbers it has delivered as a lower bound   *)
(* plus a finite set above it.                                             *)
(***************************************************************************)
EXTENDS WindowSender, BagsExt

VARIABLES lowerBound,   \* the receiver's _order_lower_bound
          orderStore,   \* the receiver's _order_store
          delivered     \* history: bag of the messages given to send_local

receiverVars == <<lowerBound, orderStore, delivered>>
vars == <<senderVars, data, acks, receiverVars>>

Init ==
    /\ SenderInit
    /\ lowerBound = 0
    /\ orderStore = {}
    /\ delivered = << >>

SendLocally(t)   == OnLocalMessage(t) /\ UNCHANGED receiverVars
ReceiveAck(a)    == OnAck(a) /\ UNCHANGED receiverVars
Retransmit(k)    == OnTimer(k) /\ UNCHANGED receiverVars

IsNew_NoBound(k) == k \notin orderStore
IsNew(k) == k >= lowerBound /\ k \notin orderStore

\* n is where the while loop stops: the first number from b on not in store.
FirstGap(n, store, b) == n >= b /\ b .. n - 1 \subseteq store /\ n \notin store

\* The lower bound the acknowledgement carries.
Reported_Stale(n) == lowerBound
Reported(n) == n

OnData(m) ==
    LET store == IF IsNew(m.order) THEN orderStore \cup {m.order} ELSE orderStore
    IN  /\ m \in data
        /\ data' \in AfterArrival(data, m)
        /\ delivered' = IF IsNew(m.order) THEN BagAdd(delivered, m) ELSE delivered
        /\ \E n \in lowerBound .. MaxMessages :
              /\ FirstGap(n, store, lowerBound)
              /\ lowerBound' = n
              /\ orderStore' = store \ (lowerBound .. n - 1)
              /\ acks' = Sent(acks, Ack(m.order, Reported(n)))
        /\ UNCHANGED senderVars

Lose == (LoseData \/ LoseAck) /\ UNCHANGED receiverVars

Next ==
    \/ \E t \in Texts : SendLocally(t)
    \/ \E a \in acks : ReceiveAck(a)
    \/ \E k \in timers : Retransmit(k)
    \/ \E m \in data : OnData(m)
    \/ Lose

Spec == Init /\ [][Next]_vars

\* A timer that is set fires (the framework's event queue).  The readme of the
\* homework states what the network owes a sender that keeps trying: every
\* message sent again and again arrives in the end.
DataArrives(k) == \E m \in data : m.order = k /\ OnData(m)
AckArrives(k)  == \E a \in acks : a.order = k /\ ReceiveAck(a)

Fairness ==
    \A k \in 0 .. MaxMessages - 1 :
        /\ WF_vars(Retransmit(k))
        /\ SF_vars(DataArrives(k))
        /\ SF_vars(AckArrives(k))

FairSpec == Spec /\ Fairness

-----------------------------------------------------------------------------
TypeOK ==
    /\ SenderTypeOK
    /\ lowerBound \in Nat
    /\ orderStore \subseteq Nat
    /\ DOMAIN delivered \subseteq [order : Nat, text : Texts]
    /\ delivered \in [DOMAIN delivered -> Nat]

\* The numbers delivered so far.
DeliveredOrders == {m.order : m \in DOMAIN delivered}

Channel == INSTANCE OnceChannel

\* No text reaches the user twice, or altered, or without having been sent,
\* whatever the links lose, repeat and reorder: the receiver may forget the
\* numbers below its bound because the bound itself rejects them.
ImplementsOnce == Channel!Spec

\* The sender drops the stored text of a message only once the receiver has
\* delivered it, so that a crash-free run never loses a message: an
\* acknowledgement is never taken for that of another message.
ForgottenOnlyIfDelivered ==
    \A k \in 0 .. order - 1 : k \notin DOMAIN messageStore => k \in DeliveredOrders

\* A message not yet acknowledged always has a timer, also while it is outside
\* the window and was never sent: on_timer must set it again on that path too.
PendingHasTimer == DOMAIN messageStore \subseteq timers

\* The receiver remembers at most Limit numbers above its bound, however long
\* the run: the sender's window never runs ahead of what the receiver has.
ReceiverMemoryBounded == orderStore \subseteq lowerBound + 1 .. lowerBound + Limit

\* While some message is unacknowledged, some unacknowledged message is inside
\* the window, at or below the sender's bound: losing acknowledgements, or taking
\* them out of order, never leaves the sender with only messages it may not send.
WindowNeverStuck ==
    DOMAIN messageStore # {} => \E k \in DOMAIN messageStore : k <= sendBound

\* The exchange ends: the store empties and no timer is set again for ever.
Quiesces == <>[](timers = {} /\ DOMAIN messageStore = {})
=============================================================================

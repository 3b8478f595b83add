----------------------------- MODULE AtMostOnce -----------------------------
(***************************************************************************)
(* At-most-once delivery (homework 01, AtMostOnceSender and                *)
(* AtMostOnceReceiver).  The sender numbers each message and sends it      *)
(* once.  The receiver must reject a second copy however late it is, but   *)
(* need not remember every number: when the Limit numbers before the one   *)
(* that arrives have all been delivered, it raises its bound past them and *)
(* gives up whatever is still missing below.                               *)
(***************************************************************************)
EXTENDS Integers, Sequences, BagsExt, Link

CONSTANTS Texts,
          MaxMessages,  \* bound of the model: how many messages the user sends
          Limit         \* MESSAGE_ORDER_LIMIT_AMO

VARIABLES sent,         \* history: the texts the user has submitted
          order,        \* the sender's _order
          data,         \* the link to the receiver
          lowerBound,   \* the receiver's _order_lower_bound
          orderStore,   \* the receiver's _order_store
          delivered     \* history: bag of the messages given to send_local

vars == <<sent, order, data, lowerBound, orderStore, delivered>>

Init ==
    /\ sent = << >>
    /\ order = 0
    /\ data = {}
    /\ lowerBound = 0
    /\ orderStore = {}
    /\ delivered = << >>

OnLocalMessage(t) ==
    /\ order < MaxMessages
    /\ sent' = Append(sent, t)
    /\ data' = Sent(data, [order |-> order, text |-> t])
    /\ order' = order + 1
    /\ UNCHANGED <<lowerBound, orderStore, delivered>>

IsNew_NoBound(k) == k \notin orderStore
IsNew(k) == k >= lowerBound /\ k \notin orderStore

\* The Limit numbers before k have all been delivered.  For k < Limit the range
\* holds negative numbers, which are never stored.
EndsRun_Short(k, store) == k - Limit + 1 .. k - 1 \subseteq store
EndsRun(k, store) == k - Limit .. k - 1 \subseteq store

\* What is discarded when k ends a run, and the bound from then on.
BoundAfter(k) == k + 1

OnMessage(m) ==
    LET k == m.order
        store == IF IsNew(k) THEN orderStore \cup {k} ELSE orderStore
    IN  /\ m \in data
        /\ data' \in AfterArrival(data, m)
        /\ delivered' = IF IsNew(k) THEN BagAdd(delivered, m) ELSE delivered
        /\ IF EndsRun(k, store)
           THEN /\ orderStore' = store \ (lowerBound .. k)
                /\ lowerBound' = BoundAfter(k)
           ELSE orderStore' = store /\ UNCHANGED lowerBound
        /\ UNCHANGED <<sent, order>>

Lose ==
    /\ data' \in AfterLoss(data)
    /\ UNCHANGED <<sent, order, lowerBound, orderStore, delivered>>

Next ==
    \/ \E t \in Texts : OnLocalMessage(t)
    \/ \E m \in data : OnMessage(m)
    \/ Lose

Spec == Init /\ [][Next]_vars

\* Nothing is sent twice, so a message in flight on a link that neither loses
\* nor repeats arrives once the network gets to it.
FairSpec == Spec /\ WF_vars(\E m \in data : OnMessage(m))

-----------------------------------------------------------------------------
DeliveredOrders == {m.order : m \in DOMAIN delivered}

TypeOK ==
    /\ sent \in Seq(Texts)
    /\ order \in Nat
    /\ data \subseteq [order : Nat, text : Texts]
    /\ lowerBound \in Nat
    /\ orderStore \subseteq Nat
    /\ DOMAIN delivered \subseteq [order : Nat, text : Texts]
    /\ delivered \in [DOMAIN delivered -> Nat]

Channel == INSTANCE OnceChannel

\* No text reaches the user twice or without having been sent, although the
\* receiver forgets the numbers it has delivered.
ImplementsOnce == Channel!Spec

\* The receiver gives a message up only when Limit + 1 consecutive later ones
\* have been delivered: a message overtaken by Limit or fewer is still accepted.
GivesUpOnlyAfterRun ==
    \A k \in 0 .. lowerBound - 1 :
        k \notin DeliveredOrders =>
            /\ k < lowerBound - 1 - Limit
            /\ lowerBound - 1 - Limit .. lowerBound - 1 \subseteq DeliveredOrders

\* What the receiver forgets stays rejected: its bound never goes back, not even
\* when a late copy of an old message ends a run.
BoundNeverFalls == [][lowerBound' >= lowerBound]_vars

\* The readme asks that on a network that loses nothing every message of the
\* sender reaches the user (in any order).  The code does not keep this: see the
\* README, section 4.
ReliableWithoutLoss ==
    \A k \in 0 .. MaxMessages - 1 : order > k ~> k \in DeliveredOrders
=============================================================================

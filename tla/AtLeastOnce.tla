----------------------------- MODULE AtLeastOnce -----------------------------
(***************************************************************************)
(* At-least-once delivery (homework 01, AtLeastOnceSender and              *)
(* AtLeastOnceReceiver): a timer per message, which sends it again until   *)
(* an acknowledgement removes it from the store.  The receiver keeps no    *)
(* state: every copy that arrives is handed to the user.                   *)
(***************************************************************************)
EXTENDS Integers, Sequences, Functions, Link

CONSTANTS Texts,
          MaxMessages   \* bound of the model: how many messages the user sends

ASSUME AtLeastOnceAssumption == MaxMessages \in Nat

VARIABLES sent,          \* history: the texts the user has submitted
          order,         \* _order
          messageStore,  \* _message_store, number -> text
          timers,        \* the numbers whose timer is set
          data,          \* the link to the receiver
          acks,          \* the link back: the numbers acknowledged
          delivered      \* history: the messages given to send_local at least once

vars == <<sent, order, messageStore, timers, data, acks, delivered>>

Data(k, t) == [order |-> k, text |-> t]

Init ==
    /\ sent = << >>
    /\ order = 0
    /\ messageStore = << >>
    /\ timers = {}
    /\ data = {}
    /\ acks = {}
    /\ delivered = {}

OnLocalMessage(t) ==
    /\ order < MaxMessages
    /\ sent' = Append(sent, t)
    /\ messageStore' = [k \in DOMAIN messageStore \cup {order} |->
                            IF k = order THEN t ELSE messageStore[k]]
    /\ data' = Sent(data, Data(order, t))
    /\ timers' = timers \cup {order}
    /\ order' = order + 1
    /\ UNCHANGED <<acks, delivered>>

\* pop(.., None): a second acknowledgement of the same number has no effect.
Forgotten_UpTo(k) == 0 .. k
Forgotten(k) == {k}

OnAck(k) ==
    /\ k \in acks
    /\ acks' \in AfterArrival(acks, k)
    /\ messageStore' = Restrict(messageStore, DOMAIN messageStore \ Forgotten(k))
    /\ UNCHANGED <<sent, order, timers, data, delivered>>

\* The timers left once that of k has fired.
TimersAfter(k) == IF k \in DOMAIN messageStore THEN timers ELSE timers \ {k}

OnTimer(k) ==
    /\ k \in timers
    /\ timers' = TimersAfter(k)
    /\ data' = IF k \in DOMAIN messageStore
               THEN Sent(data, Data(k, messageStore[k]))
               ELSE data
    /\ UNCHANGED <<sent, order, messageStore, acks, delivered>>

HandedOver_First(m) ==
    IF \E d \in delivered : d.text = m.text THEN delivered ELSE delivered \cup {m}
HandedOver(m) == delivered \cup {m}

OnData(m) ==
    /\ m \in data
    /\ data' \in AfterArrival(data, m)
    /\ delivered' = HandedOver(m)
    /\ acks' = Sent(acks, m.order)
    /\ UNCHANGED <<sent, order, messageStore, timers>>

Lose ==
    /\ \/ data' \in AfterLoss(data) /\ UNCHANGED acks
       \/ acks' \in AfterLoss(acks) /\ UNCHANGED data
    /\ UNCHANGED <<sent, order, messageStore, timers, delivered>>

Next ==
    \/ \E t \in Texts : OnLocalMessage(t)
    \/ \E k \in acks : OnAck(k)
    \/ \E k \in timers : OnTimer(k)
    \/ \E m \in data : OnData(m)
    \/ Lose

Spec == Init /\ [][Next]_vars

\* A timer that is set fires; a message that is sent again and again arrives in
\* the end (readme of the homework).
DataArrives(k) == \E m \in data : m.order = k /\ OnData(m)

Fairness ==
    \A k \in 0 .. MaxMessages - 1 :
        WF_vars(OnTimer(k)) /\ SF_vars(DataArrives(k)) /\ SF_vars(OnAck(k))

FairSpec == Spec /\ Fairness

-----------------------------------------------------------------------------
TypeOK ==
    /\ sent \in Seq(Texts)
    /\ order \in Nat
    /\ DOMAIN messageStore \subseteq Nat
    /\ messageStore \in [DOMAIN messageStore -> Texts]
    /\ timers \subseteq Nat
    /\ data \subseteq [order : Nat, text : Texts]
    /\ acks \subseteq Nat
    /\ delivered \subseteq [order : Nat, text : Texts]

\* The text of a message is dropped by the sender only once the receiver has
\* delivered that very text.
ForgottenOnlyIfDelivered ==
    \A k \in 0 .. order - 1 :
        k \notin DOMAIN messageStore => Data(k, sent[k + 1]) \in delivered

\* Whatever is not acknowledged yet will be tried again.
PendingHasTimer == DOMAIN messageStore \subseteq timers

\* Every message the user submits is delivered in the end.
EventuallyDelivered ==
    \A k \in 0 .. MaxMessages - 1 :
        order > k ~> \E m \in delivered : m.order = k
=============================================================================

------------------------- MODULE ExactlyOnce_proofs -------------------------
(***************************************************************************)
(* Proofs about ExactlyOnce for every Texts, MaxMessages and Limit.        *)
(***************************************************************************)
EXTENDS ExactlyOnce, TLAPS

\* The numbers the receiver knows it has delivered.
Received == (0 .. lowerBound - 1) \cup orderStore

\* Every message in flight, stored or delivered is one the user submitted, with
\* the text it was submitted with.
Genuine ==
    /\ order = Len(sent)
    /\ \A m \in data : m.order < order /\ m.text = sent[m.order + 1]
    /\ \A m \in DOMAIN delivered : m.order < order /\ m.text = sent[m.order + 1]
    /\ \A k \in DOMAIN messageStore : k < order /\ messageStore[k] = sent[k + 1]

\* The receiver remembers exactly what it has delivered.
Remembered == DeliveredOrders = Received

\* What the sender knows of the receiver, or will learn, is never ahead of it, and
\* what it sends stays inside the window.
SenderBehind ==
    /\ sendBound <= lowerBound
    /\ \A m \in data : m.order <= sendBound + Limit
    /\ \A a \in acks : a.order \in Received /\ a.lower_bound <= lowerBound

\* For each number n the receiver's bound has reached, the sender's bound has
\* reached it too or a message below n is still stored whose acknowledgements
\* all carry a bound of at least n (the one that was delivered last).
WindowOpen ==
    \A n \in 1 .. lowerBound :
        \/ sendBound >= n
        \/ \E k \in DOMAIN messageStore :
              /\ k < n
              /\ \A a \in acks : a.order = k => a.lower_bound >= n

Inv ==
    /\ TypeOK
    /\ Genuine
    /\ Remembered
    /\ SenderBehind
    /\ ReceiverMemoryBounded
    /\ ForgottenOnlyIfDelivered
    /\ PendingHasTimer
    /\ WindowOpen

-----------------------------------------------------------------------------
\* Adding to a bag adds to its domain and keeps it a bag.
LEMMA BagAddType ==
    ASSUME NEW B, B \in [DOMAIN B -> Nat], NEW x
    PROVE  /\ DOMAIN BagAdd(B, x) = DOMAIN B \cup {x}
           /\ BagAdd(B, x) \in [DOMAIN BagAdd(B, x) -> Nat]
<1>1. CASE x \in DOMAIN B
  BY <1>1 DEF BagAdd
<1>2. CASE x \notin DOMAIN B
  BY <1>2 DEF BagAdd
<1> QED
  BY <1>1, <1>2

\* Whatever an arrival or a loss leaves in flight was in flight before.
LEMMA LinkShrinks ==
    ASSUME NEW link, NEW m
    PROVE  /\ \A l \in AfterArrival(link, m) : l \subseteq link
           /\ \A l \in AfterLoss(link) : l \subseteq link
  BY DEF AfterArrival, AfterLoss

LEMMA InitInv == Init => Inv
<1> SUFFICES ASSUME Init PROVE Inv
  OBVIOUS
<1> USE WindowAssumption DEF Init, SenderInit
<1>1. TypeOK
  BY DEF TypeOK, SenderTypeOK
<1>2. Genuine /\ Remembered /\ SenderBehind
  BY DEF Genuine, Remembered, DeliveredOrders, Received, SenderBehind
<1>3. ReceiverMemoryBounded /\ ForgottenOnlyIfDelivered /\ PendingHasTimer /\ WindowOpen
  BY DEF ReceiverMemoryBounded, ForgottenOnlyIfDelivered, PendingHasTimer, WindowOpen
<1> QED
  BY <1>1, <1>2, <1>3 DEF Inv

\* The user submits a text.
LEMMA SendLocallyInv ==
    ASSUME Inv, NEW t \in Texts, SendLocally(t)
    PROVE  Inv'
<1> USE WindowAssumption
<1>0. /\ UNCHANGED <<sendBound, acks, lowerBound, orderStore, delivered>>
      /\ sent' = Append(sent, t)
      /\ order' = order + 1
      /\ messageStore' = [k \in DOMAIN messageStore \cup {order} |->
                              IF k = order THEN t ELSE messageStore[k]]
      /\ timers' = timers \cup {order}
      /\ \A m \in data' : m \in data \/ (m = Data(order, t) /\ InWindow(order))
  <2>1. data' = IF InWindow(order) THEN data \cup {Data(order, t)} ELSE data
    BY DEF SendLocally, OnLocalMessage, Sent
  <2>2. \A m \in data' : m \in data \/ (m = Data(order, t) /\ InWindow(order))
    BY <2>1
  <2>3. UNCHANGED <<lowerBound, orderStore, delivered>>
    BY DEF SendLocally, receiverVars
  <2> QED
    BY <2>2, <2>3 DEF SendLocally, OnLocalMessage
<1>1. TypeOK'
  BY <1>0 DEF Inv, TypeOK, SenderTypeOK, Data
<1>2. Genuine'
  <2>1. order = Len(sent) /\ order \in Nat /\ sent \in Seq(Texts)
    BY DEF Inv, Genuine, TypeOK, SenderTypeOK
  <2>2. /\ order' = Len(sent')
        /\ sent'[order + 1] = t
        /\ \A k \in Nat : k < order => k < order' /\ sent'[k + 1] = sent[k + 1]
    BY <1>0, <2>1
  <2>3. /\ \A m \in data : m.order \in Nat
        /\ \A m \in DOMAIN delivered : m.order \in Nat
        /\ DOMAIN messageStore \subseteq Nat
    BY DEF Inv, TypeOK, SenderTypeOK
  <2>4. \A m \in data' : m.order < order' /\ m.text = sent'[m.order + 1]
    BY <1>0, <2>1, <2>2, <2>3 DEF Inv, Genuine, Data
  <2>5. \A m \in DOMAIN delivered' : m.order < order' /\ m.text = sent'[m.order + 1]
    BY <1>0, <2>2, <2>3 DEF Inv, Genuine
  <2>6. \A k \in DOMAIN messageStore' : k < order' /\ messageStore'[k] = sent'[k + 1]
    BY <1>0, <2>1, <2>2, <2>3 DEF Inv, Genuine
  <2> QED
    BY <2>2, <2>4, <2>5, <2>6 DEF Genuine
<1>3. Remembered'
  BY <1>0 DEF Inv, Remembered, DeliveredOrders, Received
<1>4. SenderBehind'
  BY <1>0 DEF Inv, SenderBehind, Received, Data, InWindow
<1>5. ReceiverMemoryBounded' /\ PendingHasTimer'
  BY <1>0 DEF Inv, ReceiverMemoryBounded, PendingHasTimer
<1>6. ForgottenOnlyIfDelivered'
  BY <1>0 DEF Inv, ForgottenOnlyIfDelivered, DeliveredOrders, TypeOK, SenderTypeOK
<1>7. WindowOpen'
  BY <1>0 DEF Inv, WindowOpen
<1> QED
  BY <1>1, <1>2, <1>3, <1>4, <1>5, <1>6, <1>7 DEF Inv

\* An acknowledgement arrives at the sender.
LEMMA ReceiveAckInv ==
    ASSUME Inv, NEW a \in acks, ReceiveAck(a)
    PROVE  Inv'
<1> USE WindowAssumption
<1>0. /\ UNCHANGED <<sent, order, timers, data, lowerBound, orderStore, delivered>>
      /\ messageStore' = [k \in DOMAIN messageStore \ {a.order} |-> messageStore[k]]
      /\ sendBound' = RaisedBound(a.lower_bound)
      /\ acks' \subseteq acks
  <2>1. acks' \subseteq acks
    BY LinkShrinks DEF ReceiveAck, OnAck
  <2>2. messageStore' = [k \in DOMAIN messageStore \ {a.order} |-> messageStore[k]]
    BY DEF ReceiveAck, OnAck, Forgotten
  <2> QED
    BY <2>1, <2>2 DEF ReceiveAck, OnAck, receiverVars
<1>1. /\ a \in [order : Nat, lower_bound : Nat]
      /\ a.order \in Received
      /\ a.lower_bound <= lowerBound
      /\ sendBound \in Nat /\ lowerBound \in Nat
  BY DEF Inv, TypeOK, SenderTypeOK, SenderBehind
<1>2. /\ sendBound' \in Nat
      /\ sendBound' >= sendBound /\ sendBound' >= a.lower_bound
      /\ sendBound' <= lowerBound
  BY <1>0, <1>1 DEF Inv, SenderBehind, RaisedBound
<1>3. TypeOK'
  BY <1>0, <1>2 DEF Inv, TypeOK, SenderTypeOK
<1>4. Genuine' /\ Remembered' /\ ReceiverMemoryBounded' /\ PendingHasTimer'
  BY <1>0 DEF Inv, Genuine, Remembered, DeliveredOrders, Received,
              ReceiverMemoryBounded, PendingHasTimer
<1>5. SenderBehind'
  <2>1. \A m \in data : m.order \in Nat
    BY DEF Inv, TypeOK, SenderTypeOK
  <2> QED
    BY <1>0, <1>1, <1>2, <2>1 DEF Inv, SenderBehind, Received
<1>6. ForgottenOnlyIfDelivered'
  BY <1>0, <1>1 DEF Inv, ForgottenOnlyIfDelivered, Remembered, DeliveredOrders
<1>7. WindowOpen'
  BY <1>0, <1>1, <1>2 DEF Inv, WindowOpen
<1> QED
  BY <1>3, <1>4, <1>5, <1>6, <1>7 DEF Inv

\* A timer fires.
LEMMA RetransmitInv ==
    ASSUME Inv, NEW k \in timers, Retransmit(k)
    PROVE  Inv'
<1> USE WindowAssumption
<1>0. /\ UNCHANGED <<sent, order, sendBound, messageStore, acks>>
      /\ UNCHANGED <<lowerBound, orderStore, delivered>>
      /\ timers' \subseteq timers
      /\ k \in DOMAIN messageStore => timers' = timers
      /\ timers \ {k} \subseteq timers'
      /\ \A m \in data' :
            \/ m \in data
            \/ k \in DOMAIN messageStore /\ InWindow(k) /\ m = Data(k, messageStore[k])
  BY DEF Retransmit, OnTimer, receiverVars, TimersAfter, Sent
<1>1. TypeOK'
  BY <1>0 DEF Inv, TypeOK, SenderTypeOK, Data
<1>2. Genuine' /\ SenderBehind'
  BY <1>0 DEF Inv, Genuine, SenderBehind, Received, Data, InWindow
<1>3. Remembered' /\ ReceiverMemoryBounded' /\ ForgottenOnlyIfDelivered' /\ WindowOpen'
  BY <1>0 DEF Inv, Remembered, DeliveredOrders, Received, ReceiverMemoryBounded,
              ForgottenOnlyIfDelivered, WindowOpen
<1>4. PendingHasTimer'
  BY <1>0 DEF Inv, PendingHasTimer
<1> QED
  BY <1>1, <1>2, <1>3, <1>4 DEF Inv

\* A message arrives at the receiver.
LEMMA OnDataInv ==
    ASSUME Inv, NEW m \in data, OnData(m)
    PROVE  Inv'
<1> USE WindowAssumption
<1> DEFINE k == m.order
           store == IF IsNew(k) THEN orderStore \cup {k} ELSE orderStore
<1>1. /\ m \in [order : Nat, text : Texts]
      /\ k \in Nat /\ k < order /\ k <= lowerBound + Limit
      /\ m.text = sent[k + 1]
      /\ lowerBound \in Nat /\ sendBound \in Nat /\ order \in Nat
  BY DEF Inv, TypeOK, SenderTypeOK, Genuine, SenderBehind
<1>2. PICK n \in lowerBound .. MaxMessages :
         /\ FirstGap(n, store, lowerBound)
         /\ lowerBound' = n
         /\ orderStore' = store \ (lowerBound .. n - 1)
         /\ acks' = acks \cup {Ack(k, n)}
  BY DEF OnData, Sent, Reported
<1>3. /\ UNCHANGED <<sent, order, sendBound, messageStore, timers>>
      /\ data' \subseteq data
      /\ delivered' = IF IsNew(k) THEN BagAdd(delivered, m) ELSE delivered
  BY LinkShrinks DEF OnData, senderVars
<1>4. n \in Nat /\ n >= lowerBound /\ lowerBound .. n - 1 \subseteq store /\ n \notin store
  BY <1>1, <1>2 DEF FirstGap
<1>5. /\ DOMAIN delivered' = IF IsNew(k) THEN DOMAIN delivered \cup {m}
                                         ELSE DOMAIN delivered
      /\ delivered' \in [DOMAIN delivered' -> Nat]
  <2>1. delivered \in [DOMAIN delivered -> Nat]
    BY DEF Inv, TypeOK
  <2>2. /\ DOMAIN BagAdd(delivered, m) = DOMAIN delivered \cup {m}
        /\ BagAdd(delivered, m) \in [DOMAIN BagAdd(delivered, m) -> Nat]
    BY <2>1, BagAddType
  <2> QED
    BY <1>3, <2>1, <2>2
<1>6. DeliveredOrders' = IF IsNew(k) THEN DeliveredOrders \cup {k} ELSE DeliveredOrders
  BY <1>5 DEF DeliveredOrders
<1>7. /\ \A j \in orderStore : j \in Nat /\ j > lowerBound /\ j <= lowerBound + Limit
      /\ \A j \in store : j \in Nat /\ j >= lowerBound /\ j <= lowerBound + Limit
  BY <1>1 DEF Inv, TypeOK, ReceiverMemoryBounded, IsNew
\* The receiver now knows k as well, and all that it knew.
<1>8. Received' = Received \cup {k}
  <2>1. Received' = (0 .. n - 1) \cup (store \ (lowerBound .. n - 1))
    BY <1>2 DEF Received
  <2>2. Received \cup {k} = (0 .. lowerBound - 1) \cup store
    BY <1>1 DEF Received, IsNew
  <2> HIDE DEF store, k
  <2>3. 0 .. n - 1 = (0 .. lowerBound - 1) \cup (lowerBound .. n - 1)
    BY <1>1, <1>4
  <2> QED
    BY <1>4, <2>1, <2>2, <2>3
<1>9. Received' = DeliveredOrders'
  <2>1. CASE IsNew(k)
    BY <1>6, <1>8, <2>1 DEF Inv, Remembered
  <2>2. CASE ~IsNew(k)
    <3>1. k \in Received
      BY <1>1, <2>2 DEF IsNew, Received
    <3> QED
      BY <1>6, <1>8, <2>2, <3>1 DEF Inv, Remembered
  <2> QED
    BY <2>1, <2>2
<1>10. TypeOK'
  <2>1. acks' \subseteq [order : Nat, lower_bound : Nat]
    BY <1>1, <1>2, <1>4 DEF Inv, TypeOK, SenderTypeOK, Ack
  <2>2. DOMAIN delivered' \subseteq [order : Nat, text : Texts]
    BY <1>1, <1>5 DEF Inv, TypeOK
  <2>3. orderStore' \subseteq Nat /\ lowerBound' \in Nat
    BY <1>2, <1>4, <1>7
  <2>4. SenderTypeOK'
    BY <1>3, <2>1 DEF Inv, TypeOK, SenderTypeOK
  <2> QED
    BY <1>5, <2>2, <2>3, <2>4 DEF TypeOK
<1>11. Genuine'
  BY <1>1, <1>3, <1>5 DEF Inv, Genuine
<1>12. Remembered'
  BY <1>9 DEF Remembered
<1>13. SenderBehind'
  <2>1. sendBound <= lowerBound'
    BY <1>1, <1>2, <1>4 DEF Inv, SenderBehind
  <2>2. ASSUME NEW a \in acks' PROVE a.order \in Received' /\ a.lower_bound <= lowerBound'
    <3>1. CASE a \in acks
      BY <1>1, <1>2, <1>4, <1>8, <3>1 DEF Inv, SenderBehind, TypeOK, SenderTypeOK
    <3>2. CASE a = Ack(k, n)
      BY <1>2, <1>4, <1>8, <3>2 DEF Ack
    <3> QED
      BY <1>2, <2>2, <3>1, <3>2
  <2> QED
    BY <1>3, <2>1, <2>2 DEF Inv, SenderBehind
<1>14. ReceiverMemoryBounded'
  <2> SUFFICES ASSUME NEW j \in orderStore' PROVE j \in n + 1 .. n + Limit
    BY <1>2 DEF ReceiverMemoryBounded
  <2>1. j \in store /\ j \notin lowerBound .. n - 1 /\ j # n
    BY <1>2, <1>4
  <2> QED
    BY <1>1, <1>4, <1>7, <2>1
<1>15. ForgottenOnlyIfDelivered' /\ PendingHasTimer'
  BY <1>3, <1>6 DEF Inv, ForgottenOnlyIfDelivered, PendingHasTimer
<1>16. WindowOpen'
  <2> SUFFICES ASSUME NEW i \in 1 .. n, ~(sendBound >= i)
               PROVE  \E j \in DOMAIN messageStore :
                         j < i /\ \A a \in acks' : a.order = j => a.lower_bound >= i
    BY <1>2, <1>3 DEF WindowOpen
  \* Numbers reached before: the witness is the same, and k is acknowledged with a
  \* bound that is not lower.
  <2>1. CASE i <= lowerBound
    <3>1. PICK j \in DOMAIN messageStore :
             j < i /\ \A a \in acks : a.order = j => a.lower_bound >= i
      BY <2>1, <1>1 DEF Inv, WindowOpen
    <3> QED
      BY <1>1, <1>2, <1>4, <2>1, <3>1 DEF Ack
  \* Numbers reached now: m filled the gap at the bound, so m had not been
  \* delivered, let alone acknowledged.
  <2>2. CASE i > lowerBound
    <3>1. lowerBound \in store /\ lowerBound \notin orderStore
      BY <1>1, <1>4, <1>7, <2>2
    <3>2. k = lowerBound
      BY <3>1
    <3>3. k \notin Received
      BY <1>1, <3>1, <3>2 DEF Received
    <3>4. k \in DOMAIN messageStore
      BY <1>1, <3>3 DEF Inv, ForgottenOnlyIfDelivered, Remembered
    <3>5. \A a \in acks : a.order # k
      BY <3>3 DEF Inv, SenderBehind
    <3>6. \A a \in acks' : a.order = k => a.lower_bound >= i
      BY <1>2, <1>4, <3>5 DEF Ack
    <3> QED
      BY <1>1, <2>2, <3>2, <3>4, <3>6
  <2> QED
    BY <1>1, <2>1, <2>2
<1> QED
  BY <1>10, <1>11, <1>12, <1>13, <1>14, <1>15, <1>16 DEF Inv

\* The links lose a message.
LEMMA LoseInv ==
    ASSUME Inv, Lose
    PROVE  Inv'
<1>0. /\ UNCHANGED <<sent, order, sendBound, messageStore, timers>>
      /\ UNCHANGED <<lowerBound, orderStore, delivered>>
      /\ data' \subseteq data /\ acks' \subseteq acks
  BY LinkShrinks DEF Lose, LoseData, LoseAck, senderVars, receiverVars
<1>1. TypeOK' /\ Genuine'
  BY <1>0 DEF Inv, TypeOK, SenderTypeOK, Genuine
<1>2. Remembered' /\ SenderBehind' /\ ReceiverMemoryBounded'
  BY <1>0 DEF Inv, Remembered, DeliveredOrders, Received, SenderBehind,
              ReceiverMemoryBounded
<1>3. ForgottenOnlyIfDelivered' /\ PendingHasTimer' /\ WindowOpen'
  BY <1>0 DEF Inv, ForgottenOnlyIfDelivered, DeliveredOrders, PendingHasTimer, WindowOpen
<1> QED
  BY <1>1, <1>2, <1>3 DEF Inv

LEMMA NextInv == Inv /\ [Next]_vars => Inv'
<1> SUFFICES ASSUME Inv, [Next]_vars PROVE Inv'
  OBVIOUS
<1>1. CASE UNCHANGED vars
  BY <1>1 DEF vars, senderVars, receiverVars, Inv, TypeOK, SenderTypeOK, Genuine,
              Remembered, DeliveredOrders, Received, SenderBehind,
              ReceiverMemoryBounded, ForgottenOnlyIfDelivered, PendingHasTimer, WindowOpen
<1>2. CASE Next
  BY <1>2, SendLocallyInv, ReceiveAckInv, RetransmitInv, OnDataInv, LoseInv DEF Next
<1> QED
  BY <1>1, <1>2

LEMMA AlwaysInv == Spec => []Inv
  BY InitInv, NextInv, PTL DEF Spec

-----------------------------------------------------------------------------
\* The variables keep their types.
THEOREM TypeCorrect == Spec => []TypeOK
  BY AlwaysInv, PTL DEF Inv

\* A stored text is dropped only after its delivery.
THEOREM ForgottenOnlyIfDeliveredHolds == Spec => []ForgottenOnlyIfDelivered
  BY AlwaysInv, PTL DEF Inv

\* What is not acknowledged has a timer.
THEOREM PendingHasTimerHolds == Spec => []PendingHasTimer
  BY AlwaysInv, PTL DEF Inv

\* The receiver's memory is bounded by the sender's window.
THEOREM ReceiverMemoryBoundedHolds == Spec => []ReceiverMemoryBounded
  BY AlwaysInv, PTL DEF Inv

\* The sender always may send one of the messages it still stores.
THEOREM WindowNeverStuckHolds == Spec => []WindowNeverStuck
<1>1. Inv => WindowNeverStuck
  <2> SUFFICES ASSUME Inv, NEW j \in DOMAIN messageStore
               PROVE  \E k \in DOMAIN messageStore : k <= sendBound
    BY DEF WindowNeverStuck
  <2>0. /\ sendBound \in Nat /\ lowerBound \in Nat /\ order \in Nat
        /\ DOMAIN messageStore \subseteq Nat
        /\ sendBound <= lowerBound
    BY DEF Inv, TypeOK, SenderTypeOK, SenderBehind
  <2>1. CASE sendBound < lowerBound
    <3>1. PICK k \in DOMAIN messageStore : k < sendBound + 1
      BY <2>0, <2>1 DEF Inv, WindowOpen
    <3> QED
      BY <2>0, <3>1
  <2>2. CASE sendBound = lowerBound
    <3>1. CASE lowerBound < order
      <4>1. lowerBound \notin DeliveredOrders
        BY <2>0 DEF Inv, Remembered, Received, ReceiverMemoryBounded
      <4>2. lowerBound \in DOMAIN messageStore
        BY <2>0, <3>1, <4>1 DEF Inv, ForgottenOnlyIfDelivered
      <4> QED
        BY <2>0, <2>2, <4>2
    <3>2. CASE lowerBound >= order
      BY <2>0, <2>2, <3>2 DEF Inv, Genuine
    <3> QED
      BY <2>0, <3>1, <3>2
  <2> QED
    BY <2>0, <2>1, <2>2
<1> QED
  BY <1>1, AlwaysInv, PTL

\* The solution implements the channel that hands over each message at most once.
THEOREM ImplementsOnceHolds == Spec => ImplementsOnce
<1>1. Init => Channel!Init
  BY DEF Init, SenderInit, Channel!Init
<1>2. ASSUME Inv, [Next]_vars PROVE [Channel!Next]_(Channel!vars)
  <2>1. ASSUME NEW t \in Texts, SendLocally(t) PROVE Channel!Next
    BY <2>1 DEF SendLocally, OnLocalMessage, receiverVars, Channel!Next, Channel!Submit
  <2>2. ASSUME NEW m \in data, OnData(m), IsNew(m.order) PROVE Channel!Next
    <3>1. /\ m \in [order : Nat, text : Texts]
          /\ m.order \in 0 .. Len(sent) - 1
          /\ m.text = sent[m.order + 1]
      BY <1>2 DEF Inv, TypeOK, SenderTypeOK, Genuine
    <3>2. Channel!Numbered(m.order) = m
      BY <3>1 DEF Channel!Numbered
    <3>3. m \notin DOMAIN delivered
      <4>1. m.order \notin DeliveredOrders
        BY <1>2, <2>2, <3>1 DEF Inv, Remembered, Received, IsNew, TypeOK
      <4> QED
        BY <4>1 DEF DeliveredOrders
    <3>4. UNCHANGED sent /\ delivered' = BagAdd(delivered, m)
      BY <2>2 DEF OnData, senderVars
    <3>5. Channel!HandOver(m.order)
      BY <3>2, <3>3, <3>4 DEF Channel!HandOver, BagAdd, Channel!BagAdd
    <3> QED
      BY <3>1, <3>5 DEF Channel!Next
  <2>3. ASSUME NEW m \in data, OnData(m), ~IsNew(m.order) PROVE UNCHANGED Channel!vars
    BY <2>3 DEF OnData, senderVars, Channel!vars
  <2>4. ASSUME NEW a \in acks, ReceiveAck(a) PROVE UNCHANGED Channel!vars
    BY <2>4 DEF ReceiveAck, OnAck, receiverVars, Channel!vars
  <2>5. ASSUME NEW k \in timers, Retransmit(k) PROVE UNCHANGED Channel!vars
    BY <2>5 DEF Retransmit, OnTimer, receiverVars, Channel!vars
  <2>6. ASSUME Lose PROVE UNCHANGED Channel!vars
    BY <2>6 DEF Lose, LoseData, LoseAck, senderVars, receiverVars, Channel!vars
  <2>7. ASSUME UNCHANGED vars PROVE UNCHANGED Channel!vars
    BY <2>7 DEF vars, senderVars, receiverVars, Channel!vars
  <2> QED
    BY <1>2, <2>1, <2>2, <2>3, <2>4, <2>5, <2>6, <2>7 DEF Next
<1> QED
  BY <1>1, <1>2, AlwaysInv, PTL DEF Spec, ImplementsOnce, Channel!Spec
=============================================================================

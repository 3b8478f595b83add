------------------------- MODULE AtLeastOnce_proofs -------------------------
(***************************************************************************)
(* Proofs about AtLeastOnce for every Texts and MaxMessages.               *)
(***************************************************************************)
EXTENDS AtLeastOnce, TLAPS

\* Every message in flight or stored is one the user submitted, with its text.
Genuine ==
    /\ order = Len(sent)
    /\ \A m \in data : m.order < order /\ m.text = sent[m.order + 1]
    /\ \A k \in DOMAIN messageStore : k < order /\ messageStore[k] = sent[k + 1]

\* A number is acknowledged only after the delivery of its text.
AckedIsDelivered == \A k \in acks : k < order /\ Data(k, sent[k + 1]) \in delivered

Inv ==
    /\ TypeOK
    /\ Genuine
    /\ AckedIsDelivered
    /\ ForgottenOnlyIfDelivered
    /\ PendingHasTimer

-----------------------------------------------------------------------------
\* Whatever an arrival or a loss leaves in flight was in flight before.
LEMMA LinkShrinks ==
    ASSUME NEW link, NEW m
    PROVE  /\ \A l \in AfterArrival(link, m) : l \subseteq link
           /\ \A l \in AfterLoss(link) : l \subseteq link
  BY DEF AfterArrival, AfterLoss

LEMMA InitInv == Init => Inv
  BY AtLeastOnceAssumption
     DEF Init, Inv, TypeOK, Genuine, AckedIsDelivered, ForgottenOnlyIfDelivered,
         PendingHasTimer

LEMMA OnLocalMessageInv ==
    ASSUME Inv, NEW t \in Texts, OnLocalMessage(t)
    PROVE  Inv'
<1>0. /\ UNCHANGED <<acks, delivered>>
      /\ sent' = Append(sent, t)
      /\ order' = order + 1
      /\ messageStore' = [k \in DOMAIN messageStore \cup {order} |->
                              IF k = order THEN t ELSE messageStore[k]]
      /\ timers' = timers \cup {order}
      /\ data' = data \cup {Data(order, t)}
  BY DEF OnLocalMessage, Sent
<1>1. order = Len(sent) /\ order \in Nat /\ sent \in Seq(Texts)
  BY DEF Inv, Genuine, TypeOK
<1>2. /\ order' = Len(sent')
      /\ sent'[order + 1] = t
      /\ \A k \in Nat : k < order => k < order' /\ sent'[k + 1] = sent[k + 1]
  BY <1>0, <1>1
<1>3. TypeOK'
  BY <1>0, <1>1 DEF Inv, TypeOK, Data
<1>4. Genuine'
  <2>1. \A m \in data' : m.order < order' /\ m.text = sent'[m.order + 1]
    BY <1>0, <1>1, <1>2 DEF Inv, TypeOK, Genuine, Data
  <2>2. \A k \in DOMAIN messageStore' : k < order' /\ messageStore'[k] = sent'[k + 1]
    BY <1>0, <1>1, <1>2 DEF Inv, TypeOK, Genuine
  <2> QED
    BY <1>2, <2>1, <2>2 DEF Genuine
<1>5. AckedIsDelivered'
  BY <1>0, <1>2 DEF Inv, TypeOK, AckedIsDelivered, Data
<1>6. ForgottenOnlyIfDelivered'
  BY <1>0, <1>1, <1>2 DEF Inv, ForgottenOnlyIfDelivered, Data
<1>7. PendingHasTimer'
  BY <1>0 DEF Inv, PendingHasTimer
<1> QED
  BY <1>3, <1>4, <1>5, <1>6, <1>7 DEF Inv

LEMMA OnAckInv ==
    ASSUME Inv, NEW k \in acks, OnAck(k)
    PROVE  Inv'
<1>0. /\ UNCHANGED <<sent, order, timers, data, delivered>>
      /\ acks' \subseteq acks
      /\ messageStore' = [j \in DOMAIN messageStore \ {k} |-> messageStore[j]]
  <2>1. acks' \subseteq acks
    BY LinkShrinks DEF OnAck
  <2>2. messageStore' = [j \in DOMAIN messageStore \ {k} |-> messageStore[j]]
    BY DEF OnAck, Forgotten, Restrict
  <2> QED
    BY <2>1, <2>2 DEF OnAck
<1>1. TypeOK' /\ Genuine' /\ AckedIsDelivered' /\ PendingHasTimer'
  BY <1>0 DEF Inv, TypeOK, Genuine, AckedIsDelivered, PendingHasTimer, Data
<1>2. ForgottenOnlyIfDelivered'
  BY <1>0 DEF Inv, AckedIsDelivered, ForgottenOnlyIfDelivered, Data
<1> QED
  BY <1>1, <1>2 DEF Inv

LEMMA OnTimerInv ==
    ASSUME Inv, NEW k \in timers, OnTimer(k)
    PROVE  Inv'
<1>0. /\ UNCHANGED <<sent, order, messageStore, acks, delivered>>
      /\ timers' \subseteq timers
      /\ timers \ {k} \subseteq timers'
      /\ k \in DOMAIN messageStore => timers' = timers
      /\ \A m \in data' :
            \/ m \in data
            \/ k \in DOMAIN messageStore /\ m = Data(k, messageStore[k])
  BY DEF OnTimer, TimersAfter, Sent
<1>1. TypeOK'
  BY <1>0 DEF Inv, TypeOK, Data
<1>2. Genuine'
  BY <1>0 DEF Inv, Genuine, Data
<1>3. AckedIsDelivered' /\ ForgottenOnlyIfDelivered' /\ PendingHasTimer'
  BY <1>0 DEF Inv, AckedIsDelivered, ForgottenOnlyIfDelivered, PendingHasTimer, Data
<1> QED
  BY <1>1, <1>2, <1>3 DEF Inv

LEMMA OnDataInv ==
    ASSUME Inv, NEW m \in data, OnData(m)
    PROVE  Inv'
<1>0. /\ UNCHANGED <<sent, order, messageStore, timers>>
      /\ data' \subseteq data
      /\ delivered' = delivered \cup {m}
      /\ acks' = acks \cup {m.order}
  BY LinkShrinks DEF OnData, HandedOver, Sent
<1>1. /\ m \in [order : Nat, text : Texts]
      /\ m.order < order
      /\ m = Data(m.order, sent[m.order + 1])
  BY DEF Inv, TypeOK, Genuine, Data
<1>2. TypeOK' /\ Genuine' /\ PendingHasTimer'
  BY <1>0, <1>1 DEF Inv, TypeOK, Genuine, PendingHasTimer
<1>3. AckedIsDelivered' /\ ForgottenOnlyIfDelivered'
  BY <1>0, <1>1 DEF Inv, AckedIsDelivered, ForgottenOnlyIfDelivered, Data
<1> QED
  BY <1>2, <1>3 DEF Inv

LEMMA LoseInv ==
    ASSUME Inv, Lose
    PROVE  Inv'
<1>0. /\ UNCHANGED <<sent, order, messageStore, timers, delivered>>
      /\ data' \subseteq data /\ acks' \subseteq acks
  BY LinkShrinks DEF Lose
<1> QED
  BY <1>0 DEF Inv, TypeOK, Genuine, AckedIsDelivered, ForgottenOnlyIfDelivered,
              PendingHasTimer, Data

LEMMA NextInv == Inv /\ [Next]_vars => Inv'
<1> SUFFICES ASSUME Inv, [Next]_vars PROVE Inv'
  OBVIOUS
<1>1. CASE UNCHANGED vars
  BY <1>1 DEF vars, Inv, TypeOK, Genuine, AckedIsDelivered,
              ForgottenOnlyIfDelivered, PendingHasTimer, Data
<1>2. CASE Next
  BY <1>2, OnLocalMessageInv, OnAckInv, OnTimerInv, OnDataInv, LoseInv DEF Next
<1> QED
  BY <1>1, <1>2

LEMMA AlwaysInv == Spec => []Inv
  BY InitInv, NextInv, PTL DEF Spec

-----------------------------------------------------------------------------
\* The variables keep their types.
THEOREM TypeCorrect == Spec => []TypeOK
  BY AlwaysInv, PTL DEF Inv

\* The sender drops a text only after that text has been delivered.
THEOREM ForgottenOnlyIfDeliveredHolds == Spec => []ForgottenOnlyIfDelivered
  BY AlwaysInv, PTL DEF Inv

\* What is not acknowledged has a timer.
THEOREM PendingHasTimerHolds == Spec => []PendingHasTimer
  BY AlwaysInv, PTL DEF Inv
=============================================================================

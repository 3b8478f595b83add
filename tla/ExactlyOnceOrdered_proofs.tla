---------------------- MODULE ExactlyOnceOrdered_proofs ----------------------
(***************************************************************************)
(* Proofs about ExactlyOnceOrdered for every Texts, MaxMessages and Limit. *)
(***************************************************************************)
EXTENDS ExactlyOnceOrdered, SequenceTheorems, TLAPS

\* The numbers the receiver has delivered or holds back.
Received == (0 .. lowerBound - 1) \cup DOMAIN heldBack

\* Every message in flight, stored or held back is one the user submitted, with
\* the text it was submitted with.
Genuine ==
    /\ order = Len(sent)
    /\ \A m \in data : m.order < order /\ m.text = sent[m.order + 1]
    /\ \A k \in DOMAIN heldBack : k < order /\ heldBack[k] = sent[k + 1]
    /\ \A k \in DOMAIN messageStore : k < order /\ messageStore[k] = sent[k + 1]

\* The user has the first lowerBound texts, in order.
InOrder ==
    /\ lowerBound <= order
    /\ Len(delivered) = lowerBound
    /\ \A i \in 1 .. lowerBound : delivered[i] = sent[i]

\* What the sender knows of the receiver, or will learn, is never ahead of it, and
\* what it sends stays inside the window.
SenderBehind ==
    /\ sendBound <= lowerBound
    /\ \A m \in data : m.order <= sendBound + Limit
    /\ \A a \in acks : a.order \in Received /\ a.lower_bound <= lowerBound

\* For each number n the receiver's bound has reached, the sender's bound has
\* reached it too or a message below n is still stored whose acknowledgements
\* all carry a bound of at least n (the one that was delivered last).
WindowOpen ==
    \A n \in 1 .. lowerBound :
        \/ sendBound >= n
        \/ \E k \in DOMAIN messageStore :
              /\ k < n
              /\ \A a \in acks : a.order = k => a.lower_bound >= n

Inv ==
    /\ TypeOK
    /\ Genuine
    /\ InOrder
    /\ SenderBehind
    /\ HeldBackOnlyBehindGap
    /\ ForgottenOnlyIfReceived
    /\ WindowOpen

-----------------------------------------------------------------------------
\* Whatever an arrival or a loss leaves in flight was in flight before.
LEMMA LinkShrinks ==
    ASSUME NEW link, NEW m
    PROVE  /\ \A l \in AfterArrival(link, m) : l \subseteq link
           /\ \A l \in AfterLoss(link) : l \subseteq link
  BY DEF AfterArrival, AfterLoss

\* A function on 1 .. n is a sequence of length n.
LEMMA FunctionIsSeq ==
    ASSUME NEW S, NEW n \in Nat, NEW f \in [1 .. n -> S]
    PROVE  f \in Seq(S) /\ Len(f) = n
<1>1. f \in Seq(S)
  BY SeqDef
<1>2. Len(f) \in Nat /\ DOMAIN f = 1 .. Len(f)
  BY <1>1, LenProperties
<1>3. 1 .. Len(f) = 1 .. n
  BY <1>2
<1> QED
  BY <1>1, <1>2, <1>3

\* A prefix of base followed by the run of base after it is a longer prefix.
LEMMA PrefixExtended ==
    ASSUME NEW S, NEW base \in Seq(S), NEW lo \in Nat, NEW hi \in Nat, lo <= hi,
           NEW d \in Seq(S), Len(d) = lo, \A i \in 1 .. lo : d[i] = base[i],
           NEW run \in [1 .. hi - lo -> S],
           \A i \in 1 .. hi - lo : run[i] = base[lo + i]
    PROVE  /\ d \o run \in Seq(S)
           /\ Len(d \o run) = hi
           /\ \A i \in 1 .. hi : (d \o run)[i] = base[i]
<1>1. hi - lo \in Nat
  OBVIOUS
<1>2. run \in Seq(S) /\ Len(run) = hi - lo
  BY <1>1, FunctionIsSeq
<1>3. d \o run \in Seq(S) /\ Len(d \o run) = lo + (hi - lo)
  BY <1>2, ConcatProperties
<1>4. \A i \in 1 .. Len(d) + Len(run) :
         (d \o run)[i] = IF i <= Len(d) THEN d[i] ELSE run[i - Len(d)]
  BY <1>2, ConcatProperties
<1>5. lo + (hi - lo) = hi /\ Len(d) + Len(run) = hi
  BY <1>2
<1>6. ASSUME NEW i \in 1 .. hi PROVE (d \o run)[i] = base[i]
  <2>1. CASE i <= lo
    BY <1>4, <1>5, <2>1
  <2>2. CASE i > lo
    <3>1. i - lo \in 1 .. hi - lo /\ lo + (i - lo) = i /\ ~(i <= lo)
      BY <2>2
    <3>2. (d \o run)[i] = run[i - lo]
      BY <1>4, <1>5, <3>1
    <3> QED
      BY <3>1, <3>2
  <2> QED
    BY <2>1, <2>2
<1> QED
  BY <1>3, <1>5, <1>6

LEMMA InitInv == Init => Inv
<1> SUFFICES ASSUME Init PROVE Inv
  OBVIOUS
<1> USE WindowAssumption DEF Init, SenderInit
<1>1. TypeOK
  BY DEF TypeOK, SenderTypeOK
<1>2. Genuine /\ InOrder /\ SenderBehind
  BY DEF Genuine, InOrder, Received, SenderBehind
<1>3. HeldBackOnlyBehindGap /\ ForgottenOnlyIfReceived /\ WindowOpen
  BY DEF HeldBackOnlyBehindGap, ForgottenOnlyIfReceived, WindowOpen
<1> QED
  BY <1>1, <1>2, <1>3 DEF Inv

\* The user submits a text.
LEMMA SendLocallyInv ==
    ASSUME Inv, NEW t \in Texts, SendLocally(t)
    PROVE  Inv'
<1> USE WindowAssumption
<1>0. /\ UNCHANGED <<sendBound, acks, lowerBound, heldBack, delivered>>
      /\ sent' = Append(sent, t)
      /\ order' = order + 1
      /\ messageStore' = [k \in DOMAIN messageStore \cup {order} |->
                              IF k = order THEN t ELSE messageStore[k]]
      /\ timers' = timers \cup {order}
      /\ \A m \in data' : m \in data \/ (m = Data(order, t) /\ InWindow(order))
  <2>1. data' = IF InWindow(order) THEN data \cup {Data(order, t)} ELSE data
    BY DEF SendLocally, OnLocalMessage, Sent
  <2>2. \A m \in data' : m \in data \/ (m = Data(order, t) /\ InWindow(order))
    BY <2>1
  <2>3. UNCHANGED <<lowerBound, heldBack, delivered>>
    BY DEF SendLocally, receiverVars
  <2> QED
    BY <2>2, <2>3 DEF SendLocally, OnLocalMessage
<1>1. TypeOK'
  BY <1>0 DEF Inv, TypeOK, SenderTypeOK, Data
<1>2. Genuine'
  <2>1. order = Len(sent) /\ order \in Nat /\ sent \in Seq(Texts)
    BY DEF Inv, Genuine, TypeOK, SenderTypeOK
  <2>2. /\ order' = Len(sent')
        /\ sent'[order + 1] = t
        /\ \A k \in Nat : k < order => k < order' /\ sent'[k + 1] = sent[k + 1]
    BY <1>0, <2>1
  <2>3. /\ \A m \in data : m.order \in Nat
        /\ DOMAIN heldBack \subseteq Nat
        /\ DOMAIN messageStore \subseteq Nat
    BY DEF Inv, TypeOK, SenderTypeOK
  <2>4. \A m \in data' : m.order < order' /\ m.text = sent'[m.order + 1]
    BY <1>0, <2>1, <2>2, <2>3 DEF Inv, Genuine, Data
  <2>5. \A k \in DOMAIN heldBack' : k < order' /\ heldBack'[k] = sent'[k + 1]
    BY <1>0, <2>2, <2>3 DEF Inv, Genuine
  <2>6. \A k \in DOMAIN messageStore' : k < order' /\ messageStore'[k] = sent'[k + 1]
    BY <1>0, <2>1, <2>2, <2>3 DEF Inv, Genuine
  <2> QED
    BY <2>2, <2>4, <2>5, <2>6 DEF Genuine
<1>3. InOrder'
  <2>1. lowerBound \in Nat /\ order \in Nat /\ sent \in Seq(Texts) /\ order = Len(sent)
    BY DEF Inv, TypeOK, SenderTypeOK, Genuine
  <2>2. \A i \in 1 .. order : sent'[i] = sent[i]
    BY <1>0, <2>1
  <2> QED
    BY <1>0, <2>1, <2>2 DEF Inv, InOrder
<1>4. SenderBehind'
  BY <1>0 DEF Inv, SenderBehind, Received, Data, InWindow
<1>5. HeldBackOnlyBehindGap'
  BY <1>0 DEF Inv, HeldBackOnlyBehindGap
<1>6. ForgottenOnlyIfReceived'
  BY <1>0 DEF Inv, ForgottenOnlyIfReceived, TypeOK, SenderTypeOK
<1>7. WindowOpen'
  BY <1>0 DEF Inv, WindowOpen
<1> QED
  BY <1>1, <1>2, <1>3, <1>4, <1>5, <1>6, <1>7 DEF Inv

\* An acknowledgement arrives at the sender.
LEMMA ReceiveAckInv ==
    ASSUME Inv, NEW a \in acks, ReceiveAck(a)
    PROVE  Inv'
<1> USE WindowAssumption
<1>0. /\ UNCHANGED <<sent, order, timers, data, lowerBound, heldBack, delivered>>
      /\ messageStore' = [k \in DOMAIN messageStore \ {a.order} |-> messageStore[k]]
      /\ sendBound' = RaisedBound(a.lower_bound)
      /\ acks' \subseteq acks
  <2>1. acks' \subseteq acks
    BY LinkShrinks DEF ReceiveAck, OnAck
  <2>2. messageStore' = [k \in DOMAIN messageStore \ {a.order} |-> messageStore[k]]
    BY DEF ReceiveAck, OnAck, Forgotten
  <2> QED
    BY <2>1, <2>2 DEF ReceiveAck, OnAck, receiverVars
<1>1. /\ a \in [order : Nat, lower_bound : Nat]
      /\ a.order \in Received
      /\ a.lower_bound <= lowerBound
      /\ sendBound \in Nat /\ lowerBound \in Nat
  BY DEF Inv, TypeOK, SenderTypeOK, SenderBehind
<1>2. /\ sendBound' \in Nat
      /\ sendBound' >= sendBound /\ sendBound' >= a.lower_bound
      /\ sendBound' <= lowerBound
  BY <1>0, <1>1 DEF Inv, SenderBehind, RaisedBound
<1>3. TypeOK'
  BY <1>0, <1>2 DEF Inv, TypeOK, SenderTypeOK
<1>4. Genuine' /\ InOrder' /\ HeldBackOnlyBehindGap'
  BY <1>0 DEF Inv, Genuine, InOrder, Received,
              HeldBackOnlyBehindGap
<1>5. SenderBehind'
  <2>1. \A m \in data : m.order \in Nat
    BY DEF Inv, TypeOK, SenderTypeOK
  <2> QED
    BY <1>0, <1>1, <1>2, <2>1 DEF Inv, SenderBehind, Received
<1>6. ForgottenOnlyIfReceived'
  BY <1>0, <1>1 DEF Inv, ForgottenOnlyIfReceived, Received
<1>7. WindowOpen'
  BY <1>0, <1>1, <1>2 DEF Inv, WindowOpen
<1> QED
  BY <1>3, <1>4, <1>5, <1>6, <1>7 DEF Inv

\* A timer fires.
LEMMA RetransmitInv ==
    ASSUME Inv, NEW k \in timers, Retransmit(k)
    PROVE  Inv'
<1> USE WindowAssumption
<1>0. /\ UNCHANGED <<sent, order, sendBound, messageStore, acks>>
      /\ UNCHANGED <<lowerBound, heldBack, delivered>>
      /\ timers' \subseteq timers
      /\ k \in DOMAIN messageStore => timers' = timers
      /\ timers \ {k} \subseteq timers'
      /\ \A m \in data' :
            \/ m \in data
            \/ k \in DOMAIN messageStore /\ InWindow(k) /\ m = Data(k, messageStore[k])
  BY DEF Retransmit, OnTimer, receiverVars, TimersAfter, Sent
<1>1. TypeOK'
  BY <1>0 DEF Inv, TypeOK, SenderTypeOK, Data
<1>2. Genuine' /\ SenderBehind'
  BY <1>0 DEF Inv, Genuine, SenderBehind, Received, Data, InWindow
<1>3. InOrder' /\ HeldBackOnlyBehindGap' /\ ForgottenOnlyIfReceived' /\ WindowOpen'
  BY <1>0 DEF Inv, InOrder, Received, HeldBackOnlyBehindGap,
              ForgottenOnlyIfReceived, WindowOpen
<1> QED
  BY <1>1, <1>2, <1>3 DEF Inv

\* A new message arrives at the receiver: it is held, and a run from the bound on
\* is handed over.
LEMMA AcceptInv ==
    ASSUME Inv, NEW m \in data, OnData(m), IsNew(m.order)
    PROVE  Inv'
<1> USE WindowAssumption
<1> DEFINE k == m.order
           held == Held(k, m.text)
<1>1. /\ m \in [order : Nat, text : Texts]
      /\ k \in Nat /\ k < order /\ k <= lowerBound + Limit
      /\ m.text = sent[k + 1]
      /\ lowerBound \in Nat /\ sendBound \in Nat /\ order \in Nat
      /\ k >= lowerBound /\ k \notin DOMAIN heldBack
  BY DEF Inv, TypeOK, SenderTypeOK, Genuine, SenderBehind, IsNew
<1>2. PICK n \in lowerBound .. MaxMessages :
         /\ FirstGap(n, held, lowerBound)
         /\ lowerBound' = n
         /\ delivered' = delivered \o Run(held, lowerBound, n)
         /\ heldBack' = Restrict(held, DOMAIN held \ (lowerBound .. n - 1))
  BY DEF OnData, Accept
<1>3. /\ UNCHANGED <<sent, order, sendBound, messageStore, timers>>
      /\ data' \subseteq data
      /\ acks' = acks \cup {Ack(k, n)}
  BY <1>2, LinkShrinks DEF OnData, senderVars, Sent
<1>4. /\ DOMAIN held = DOMAIN heldBack \cup {k}
      /\ \A j \in DOMAIN held : j \in Nat /\ j < order /\ held[j] = sent[j + 1]
      /\ \A j \in DOMAIN held : j >= lowerBound /\ j <= lowerBound + Limit
      /\ \A j \in DOMAIN held : held[j] \in Texts
  BY <1>1 DEF Inv, TypeOK, Genuine, HeldBackOnlyBehindGap, Held
<1>5. /\ n \in Nat /\ n >= lowerBound
      /\ \A j \in lowerBound .. n - 1 : j \in DOMAIN held
      /\ n \notin DOMAIN held
  BY <1>1, <1>2 DEF FirstGap
<1>6. /\ DOMAIN heldBack' = DOMAIN held \ (lowerBound .. n - 1)
      /\ \A j \in DOMAIN heldBack' : heldBack'[j] = held[j]
      /\ heldBack' \in [DOMAIN heldBack' -> Texts]
  <2> HIDE DEF held
  <2> QED
    BY <1>2, <1>4 DEF Restrict
\* The receiver now has k as well, and all that it had.
<1>7. Received' = Received \cup {k}
  <2>1. Received' = (0 .. n - 1) \cup (DOMAIN held \ (lowerBound .. n - 1))
    BY <1>2, <1>6 DEF Received
  <2>2. Received \cup {k} = (0 .. lowerBound - 1) \cup DOMAIN held
    BY <1>4 DEF Received
  <2> HIDE DEF held, k
  <2>3. 0 .. n - 1 = (0 .. lowerBound - 1) \cup (lowerBound .. n - 1)
    BY <1>1, <1>5
  <2> QED
    BY <1>5, <2>1, <2>2, <2>3
<1>8. InOrder' /\ delivered' \in Seq(Texts)
  <2> DEFINE run == Run(held, lowerBound, n)
  <2>1. ASSUME NEW i \in 1 .. n - lowerBound
        PROVE  /\ held[lowerBound + i - 1] \in Texts
               /\ held[lowerBound + i - 1] = sent[lowerBound + i]
    <3>1. lowerBound + i - 1 \in lowerBound .. n - 1 /\ (lowerBound + i - 1) + 1 = lowerBound + i
      BY <1>1, <1>5
    <3> QED
      BY <1>4, <1>5, <3>1
  <2>2. /\ run \in [1 .. n - lowerBound -> Texts]
        /\ \A i \in 1 .. n - lowerBound : run[i] = sent[lowerBound + i]
    <3> HIDE DEF held
    <3> QED
      BY <2>1 DEF Run
  <2>3. /\ sent \in Seq(Texts)
        /\ delivered \in Seq(Texts)
        /\ Len(delivered) = lowerBound
        /\ \A i \in 1 .. lowerBound : delivered[i] = sent[i]
    BY DEF Inv, TypeOK, SenderTypeOK, InOrder
  <2>5. delivered' = delivered \o run
    BY <1>2
  <2> HIDE DEF run
  <2>6. /\ delivered' \in Seq(Texts)
        /\ Len(delivered') = n
        /\ \A i \in 1 .. n : delivered'[i] = sent[i]
    <3>1. lowerBound \in Nat /\ n \in Nat /\ lowerBound <= n
      BY <1>1, <1>5
    <3> HIDE DEF held, k
    <3>2. /\ delivered \o run \in Seq(Texts)
          /\ Len(delivered \o run) = n
          /\ \A i \in 1 .. n : (delivered \o run)[i] = sent[i]
      BY <2>2, <2>3, <3>1, PrefixExtended
    <3> QED
      BY <2>5, <3>2
  <2>4. n <= order
    <3>1. CASE n = lowerBound
      BY <3>1 DEF Inv, InOrder
    <3>2. CASE n > lowerBound
      BY <1>1, <1>4, <1>5, <3>2
    <3> QED
      BY <1>1, <1>5, <3>1, <3>2
  <2> QED
    BY <1>2, <1>3, <2>4, <2>6 DEF InOrder
<1>9. TypeOK'
  <2>1. acks' \subseteq [order : Nat, lower_bound : Nat]
    BY <1>1, <1>3, <1>5 DEF Inv, TypeOK, SenderTypeOK, Ack
  <2>2. DOMAIN heldBack' \subseteq Nat /\ lowerBound' \in Nat
    BY <1>2, <1>4, <1>5, <1>6
  <2>3. SenderTypeOK'
    BY <1>3, <2>1 DEF Inv, TypeOK, SenderTypeOK
  <2> QED
    BY <1>6, <1>8, <2>2, <2>3 DEF TypeOK
<1>10. Genuine'
  <2>1. \A j \in DOMAIN heldBack' : j < order /\ heldBack'[j] = sent[j + 1]
    BY <1>4, <1>6
  <2> QED
    BY <1>3, <2>1 DEF Inv, Genuine
<1>11. SenderBehind'
  <2>1. sendBound <= lowerBound'
    BY <1>1, <1>2, <1>5 DEF Inv, SenderBehind
  <2>2. ASSUME NEW a \in acks' PROVE a.order \in Received' /\ a.lower_bound <= lowerBound'
    <3>1. CASE a \in acks
      BY <1>1, <1>2, <1>5, <1>7, <3>1 DEF Inv, SenderBehind, TypeOK, SenderTypeOK
    <3>2. CASE a = Ack(k, n)
      BY <1>2, <1>5, <1>7, <3>2 DEF Ack
    <3> QED
      BY <1>3, <2>2, <3>1, <3>2
  <2> QED
    BY <1>3, <2>1, <2>2 DEF Inv, SenderBehind
<1>12. HeldBackOnlyBehindGap'
  <2> SUFFICES ASSUME NEW j \in DOMAIN heldBack' PROVE j \in n + 1 .. n + Limit
    BY <1>2 DEF HeldBackOnlyBehindGap
  <2>1. j \in DOMAIN held /\ j \notin lowerBound .. n - 1 /\ j # n
    BY <1>5, <1>6
  <2> QED
    BY <1>1, <1>4, <1>5, <2>1
<1>13. ForgottenOnlyIfReceived'
  <2>1. \A j \in 0 .. order - 1 : j \notin DOMAIN messageStore => j \in Received
    BY <1>1 DEF Inv, ForgottenOnlyIfReceived, Received
  <2>2. \A j \in 0 .. order - 1 : j \notin DOMAIN messageStore => j \in Received'
    BY <1>7, <2>1
  <2>3. ASSUME NEW j \in Received' PROVE j < lowerBound' \/ j \in DOMAIN heldBack'
    BY <1>2, <1>5, <2>3 DEF Received
  <2> QED
    BY <1>3, <2>2, <2>3 DEF ForgottenOnlyIfReceived
<1>14. WindowOpen'
  <2> SUFFICES ASSUME NEW i \in 1 .. n, ~(sendBound >= i)
               PROVE  \E j \in DOMAIN messageStore :
                         j < i /\ \A a \in acks' : a.order = j => a.lower_bound >= i
    BY <1>2, <1>3 DEF WindowOpen
  \* Numbers reached before: the witness is the same, and k is acknowledged with a
  \* bound that is not lower.
  <2>1. CASE i <= lowerBound
    <3>1. PICK j \in DOMAIN messageStore :
             j < i /\ \A a \in acks : a.order = j => a.lower_bound >= i
      BY <2>1, <1>1 DEF Inv, WindowOpen
    <3> QED
      BY <1>1, <1>3, <1>5, <2>1, <3>1 DEF Ack
  \* Numbers reached now: m filled the gap at the bound, so the receiver had not
  \* had it, let alone acknowledged it.
  <2>2. CASE i > lowerBound
    <3>1. lowerBound \in DOMAIN held /\ lowerBound \notin DOMAIN heldBack
      BY <1>1, <1>5, <2>2 DEF Inv, HeldBackOnlyBehindGap
    <3>2. k = lowerBound
      BY <1>4, <3>1
    <3>3. k \notin Received
      BY <1>1, <3>1, <3>2 DEF Received
    <3>4. k \in DOMAIN messageStore
      BY <1>1, <3>1, <3>2 DEF Inv, ForgottenOnlyIfReceived
    <3>5. \A a \in acks : a.order # k
      BY <3>3 DEF Inv, SenderBehind
    <3>6. \A a \in acks' : a.order = k => a.lower_bound >= i
      BY <1>3, <1>5, <3>5 DEF Ack
    <3> QED
      BY <1>1, <2>2, <3>2, <3>4, <3>6
  <2> QED
    BY <1>1, <2>1, <2>2
<1> QED
  BY <1>8, <1>9, <1>10, <1>11, <1>12, <1>13, <1>14 DEF Inv

\* A second copy arrives at the receiver: it is only acknowledged.
LEMMA RejectInv ==
    ASSUME Inv, NEW m \in data, OnData(m), ~IsNew(m.order)
    PROVE  Inv'
<1> USE WindowAssumption
<1>1. /\ UNCHANGED <<sent, order, sendBound, messageStore, timers>>
      /\ UNCHANGED <<lowerBound, heldBack, delivered>>
      /\ data' \subseteq data
      /\ acks' = acks \cup {Ack(m.order, lowerBound)}
  BY LinkShrinks DEF OnData, senderVars, receiverVars, Sent
<1>2. m.order \in Nat /\ lowerBound \in Nat
  BY DEF Inv, TypeOK, SenderTypeOK
<1>3. m.order \in Received
  BY <1>2 DEF Received, IsNew
<1>4. TypeOK' /\ Genuine' /\ InOrder'
  BY <1>1, <1>2 DEF Inv, TypeOK, SenderTypeOK, Genuine, InOrder, Ack
<1>5. SenderBehind'
  BY <1>1, <1>2, <1>3 DEF Inv, SenderBehind, Received, Ack
<1>6. HeldBackOnlyBehindGap' /\ ForgottenOnlyIfReceived'
  BY <1>1 DEF Inv, HeldBackOnlyBehindGap, ForgottenOnlyIfReceived
<1>7. WindowOpen'
  BY <1>1, <1>2 DEF Inv, WindowOpen, Ack
<1> QED
  BY <1>4, <1>5, <1>6, <1>7 DEF Inv

\* The links lose a message.
LEMMA LoseInv ==
    ASSUME Inv, Lose
    PROVE  Inv'
<1>0. /\ UNCHANGED <<sent, order, sendBound, messageStore, timers>>
      /\ UNCHANGED <<lowerBound, heldBack, delivered>>
      /\ data' \subseteq data /\ acks' \subseteq acks
  BY LinkShrinks DEF Lose, LoseData, LoseAck, senderVars, receiverVars
<1>1. TypeOK' /\ Genuine'
  BY <1>0 DEF Inv, TypeOK, SenderTypeOK, Genuine
<1>2. InOrder' /\ SenderBehind' /\ HeldBackOnlyBehindGap'
  BY <1>0 DEF Inv, InOrder, Received, SenderBehind,
              HeldBackOnlyBehindGap
<1>3. ForgottenOnlyIfReceived' /\ WindowOpen'
  BY <1>0 DEF Inv, ForgottenOnlyIfReceived, WindowOpen
<1> QED
  BY <1>1, <1>2, <1>3 DEF Inv

LEMMA NextInv == Inv /\ [Next]_vars => Inv'
<1> SUFFICES ASSUME Inv, [Next]_vars PROVE Inv'
  OBVIOUS
<1>1. CASE UNCHANGED vars
  BY <1>1 DEF vars, senderVars, receiverVars, Inv, TypeOK, SenderTypeOK, Genuine,
              InOrder, Received, SenderBehind,
              HeldBackOnlyBehindGap, ForgottenOnlyIfReceived, WindowOpen
<1>2. CASE Next
  BY <1>2, SendLocallyInv, ReceiveAckInv, RetransmitInv, AcceptInv, RejectInv,
     LoseInv DEF Next
<1> QED
  BY <1>1, <1>2

LEMMA AlwaysInv == Spec => []Inv
  BY InitInv, NextInv, PTL DEF Spec

-----------------------------------------------------------------------------
\* The variables keep their types.
THEOREM TypeCorrect == Spec => []TypeOK
  BY AlwaysInv, PTL DEF Inv

\* A stored text is dropped only after its delivery.
THEOREM ForgottenOnlyIfReceivedHolds == Spec => []ForgottenOnlyIfReceived
  BY AlwaysInv, PTL DEF Inv

\* The receiver's memory is bounded by the sender's window.
THEOREM HeldBackOnlyBehindGapHolds == Spec => []HeldBackOnlyBehindGap
  BY AlwaysInv, PTL DEF Inv

\* The sender always may send one of the messages it still stores.
THEOREM WindowNeverStuckHolds == Spec => []WindowNeverStuck
<1>1. Inv => WindowNeverStuck
  <2> SUFFICES ASSUME Inv, NEW j \in DOMAIN messageStore
               PROVE  \E k \in DOMAIN messageStore : k <= sendBound
    BY DEF WindowNeverStuck, Inv, SenderBehind
  <2>0. /\ sendBound \in Nat /\ lowerBound \in Nat /\ order \in Nat
        /\ DOMAIN messageStore \subseteq Nat
        /\ sendBound <= lowerBound
    BY DEF Inv, TypeOK, SenderTypeOK, SenderBehind
  <2>1. CASE sendBound < lowerBound
    <3>1. PICK k \in DOMAIN messageStore : k < sendBound + 1
      BY <2>0, <2>1 DEF Inv, WindowOpen
    <3> QED
      BY <2>0, <3>1
  <2>2. CASE sendBound = lowerBound
    <3>1. CASE lowerBound < order
      <4>1. lowerBound \notin DOMAIN heldBack
        BY <2>0 DEF Inv, HeldBackOnlyBehindGap
      <4>2. lowerBound \in DOMAIN messageStore
        BY <2>0, <3>1, <4>1 DEF Inv, ForgottenOnlyIfReceived
      <4> QED
        BY <2>0, <2>2, <4>2
    <3>2. CASE lowerBound >= order
      BY <2>0, <2>2, <3>2 DEF Inv, Genuine
    <3> QED
      BY <2>0, <3>1, <3>2
  <2> QED
    BY <2>0, <2>1, <2>2
<1> QED
  BY <1>1, AlwaysInv, PTL

\* The solution implements the channel that hands over a prefix of what was sent.
THEOREM ImplementsOrderedHolds == Spec => ImplementsOrdered
<1>1. Init => Channel!Init
  BY DEF Init, SenderInit, Channel!Init
<1>2. ASSUME Inv, Inv', [Next]_vars PROVE [Channel!Next]_(Channel!vars)
  <2>1. ASSUME NEW t \in Texts, SendLocally(t) PROVE Channel!Next
    BY <2>1 DEF SendLocally, OnLocalMessage, receiverVars, Channel!Next, Channel!Submit
  <2>2. ASSUME NEW m \in data, OnData(m), IsNew(m.order)
        PROVE  Channel!Next \/ UNCHANGED Channel!vars
    <3>1. UNCHANGED <<sent, order>> /\ lowerBound' \in Nat /\ lowerBound' >= lowerBound
      BY <1>2, <2>2 DEF OnData, senderVars, Accept, Inv, TypeOK, FirstGap
    <3>2. /\ sent \in Seq(Texts) /\ order = Len(sent) /\ lowerBound \in Nat
          /\ lowerBound' <= Len(sent)
          /\ delivered \in Seq(Texts) /\ Len(delivered) = lowerBound
          /\ \A i \in 1 .. lowerBound : delivered[i] = sent[i]
          /\ delivered' \in Seq(Texts) /\ Len(delivered') = lowerBound'
          /\ \A i \in 1 .. lowerBound' : delivered'[i] = sent[i]
      BY <1>2, <3>1 DEF Inv, TypeOK, SenderTypeOK, Genuine, InOrder
    <3>3. CASE lowerBound' = lowerBound
      <4>1. delivered' = delivered
        BY <3>2, <3>3, SeqEqual
      <4> QED
        BY <3>1, <4>1 DEF Channel!vars
    <3>4. CASE lowerBound' > lowerBound
      <4>1. /\ SubSeq(sent, 1, lowerBound') \in Seq(Texts)
            /\ Len(SubSeq(sent, 1, lowerBound')) = lowerBound'
            /\ \A i \in 1 .. lowerBound' : SubSeq(sent, 1, lowerBound')[i] = sent[i]
        BY <3>1, <3>2, SubSeqProperties
      <4>2. delivered' = SubSeq(sent, 1, lowerBound')
        BY <3>2, <4>1, SeqEqual
      <4>3. lowerBound' \in Len(delivered) + 1 .. Len(sent) /\ Len(delivered) < Len(sent)
        BY <3>1, <3>2, <3>4
      <4> QED
        BY <3>1, <4>2, <4>3 DEF Channel!Next, Channel!HandOver
    <3> QED
      BY <3>1, <3>2, <3>3, <3>4
  <2>3. ASSUME NEW m \in data, OnData(m), ~IsNew(m.order) PROVE UNCHANGED Channel!vars
    BY <2>3 DEF OnData, senderVars, receiverVars, Channel!vars
  <2>4. ASSUME NEW a \in acks, ReceiveAck(a) PROVE UNCHANGED Channel!vars
    BY <2>4 DEF ReceiveAck, OnAck, receiverVars, Channel!vars
  <2>5. ASSUME NEW k \in timers, Retransmit(k) PROVE UNCHANGED Channel!vars
    BY <2>5 DEF Retransmit, OnTimer, receiverVars, Channel!vars
  <2>6. ASSUME Lose PROVE UNCHANGED Channel!vars
    BY <2>6 DEF Lose, LoseData, LoseAck, senderVars, receiverVars, Channel!vars
  <2>7. ASSUME UNCHANGED vars PROVE UNCHANGED Channel!vars
    BY <2>7 DEF vars, senderVars, receiverVars, Channel!vars
  <2> QED
    BY <1>2, <2>1, <2>2, <2>3, <2>4, <2>5, <2>6, <2>7 DEF Next
<1> QED
  BY <1>1, <1>2, AlwaysInv, PTL DEF Spec, ImplementsOrdered, Channel!Spec
=============================================================================

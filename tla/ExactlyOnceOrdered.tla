------------------------- MODULE ExactlyOnceOrdered -------------------------
(***************************************************************************)
(* Exactly-once delivery in the order of submission (homework 01,          *)
(* ExactlyOnceOrderedSender and ExactlyOnceOrderedReceiver): the window    *)
(* sender, two unreliable links, and a receiver that holds back what       *)
(* arrives behind a gap.                                                   *)
(***************************************************************************)
EXTENDS WindowSender, Functions

VARIABLES lowerBound,   \* the receiver's _order_lower_bound, the next to deliver
          heldBack,     \* the receiver's _message_store, number -> text
          delivered     \* history: the texts given to send_local, in order

receiverVars == <<lowerBound, heldBack, delivered>>
vars == <<senderVars, data, acks, receiverVars>>

Init ==
    /\ SenderInit
    /\ lowerBound = 0
    /\ heldBack = << >>
    /\ delivered = << >>

SendLocally(t)   == OnLocalMessage(t) /\ UNCHANGED receiverVars
ReceiveAck(a)    == OnAck(a) /\ UNCHANGED receiverVars
Retransmit(k)    == OnTimer(k) /\ UNCHANGED receiverVars

IsNew(k) == k >= lowerBound /\ k \notin DOMAIN heldBack

Held(k, t) == [j \in DOMAIN heldBack \cup {k} |-> IF j = k THEN t ELSE heldBack[j]]

\* Held messages lo .. hi - 1 go to the user, lowest number first.
Run(held, lo, hi) == [i \in 1 .. hi - lo |-> held[lo + i - 1]]

\* n is where the while loop stops.
FirstGap_OneStep(n, held, b) == n = IF b \in DOMAIN held THEN b + 1 ELSE b
FirstGap(n, held, b) ==
    n >= b /\ b .. n - 1 \subseteq DOMAIN held /\ n \notin DOMAIN held

Accept(m) ==
    LET held == Held(m.order, m.text)
    IN  \E n \in lowerBound .. MaxMessages :
           /\ FirstGap(n, held, lowerBound)
           /\ lowerBound' = n
           /\ delivered' = delivered \o Run(held, lowerBound, n)
           /\ heldBack' = Restrict(held, DOMAIN held \ (lowerBound .. n - 1))

\* The acknowledgement answers every copy, also one that is only held back.
OnData(m) ==
    /\ m \in data
    /\ data' \in AfterArrival(data, m)
    /\ IF IsNew(m.order) THEN Accept(m) ELSE UNCHANGED receiverVars
    /\ acks' = Sent(acks, Ack(m.order, lowerBound'))
    /\ UNCHANGED senderVars

Lose == (LoseData \/ LoseAck) /\ UNCHANGED receiverVars

Next ==
    \/ \E t \in Texts : SendLocally(t)
    \/ \E a \in acks : ReceiveAck(a)
    \/ \E k \in timers : Retransmit(k)
    \/ \E m \in data : OnData(m)
    \/ Lose

Spec == Init /\ [][Next]_vars

\* The same grounds as in ExactlyOnce: timers fire, and a message that is sent
\* again and again arrives in the end.
DataArrives(k) == \E m \in data : m.order = k /\ OnData(m)
AckArrives(k)  == \E a \in acks : a.order = k /\ ReceiveAck(a)

Fairness ==
    \A k \in 0 .. MaxMessages - 1 :
        /\ WF_vars(Retransmit(k))
        /\ SF_vars(DataArrives(k))
        /\ SF_vars(AckArrives(k))

FairSpec == Spec /\ Fairness

-----------------------------------------------------------------------------
TypeOK ==
    /\ SenderTypeOK
    /\ lowerBound \in Nat
    /\ DOMAIN heldBack \subseteq Nat
    /\ heldBack \in [DOMAIN heldBack -> Texts]
    /\ delivered \in Seq(Texts)

Channel == INSTANCE OrderedChannel

\* What the user has received is at all times a prefix of what was submitted:
\* nothing lost in between, repeated, altered or out of order, whatever the
\* links do.
ImplementsOrdered == Channel!Spec

\* Under the fairness of the network the channel hands everything over.
ImplementsFairChannel == Channel!FairSpec

\* The sender drops the stored text only when the receiver has it, delivered or
\* held back: the acknowledgement precedes delivery here, so the receiver's
\* buffer is then the only copy.
ForgottenOnlyIfReceived ==
    \A k \in 0 .. order - 1 :
        k \notin DOMAIN messageStore => k < lowerBound \/ k \in DOMAIN heldBack

\* A held message always waits for a missing earlier one, and at most Limit are
\* held: the sender's window bounds the receiver's memory.
HeldBackOnlyBehindGap == DOMAIN heldBack \subseteq lowerBound + 1 .. lowerBound + Limit

\* The sender's bound never overtakes the receiver's, so a message the receiver
\* still misses is never forgotten as delivered; and the window stays open.
WindowNeverStuck ==
    /\ sendBound <= lowerBound
    /\ DOMAIN messageStore # {} => \E k \in DOMAIN messageStore : k <= sendBound
=============================================================================

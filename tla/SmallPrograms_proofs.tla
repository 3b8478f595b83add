------------------------ MODULE SmallPrograms_proofs ------------------------
(***************************************************************************)
(* Proofs about the programs of MCSmallPrograms, each for every value of   *)
(* its constants: AtMostOnce, Messenger, Gossip, PingPong, RaftKv,         *)
(* KeyStore, KvProxy and FileServer.                                       *)
(***************************************************************************)
EXTENDS MCSmallPrograms, SequenceTheorems, FunctionTheorems, FiniteSetTheorems,
        WellFoundedInduction, TLAPS

-----------------------------------------------------------------------------
(* At-most-once delivery *)

\* Every message in flight or delivered is one the user submitted, with the text
\* it was submitted with.
OnceGenuine ==
    /\ number = Len(sent)
    /\ \A msg \in data \cup DOMAIN delivered :
           msg.order < number /\ msg.text = sent[msg.order + 1]

\* What the receiver has delivered is below its bound or in its store, and the
\* store holds delivered numbers from the bound on, and no others.
OnceRemembered ==
    /\ \A msg \in DOMAIN delivered : msg.order < lowerBound \/ msg.order \in orderStore
    /\ \A k \in orderStore : k >= lowerBound /\ k \in Once!DeliveredOrders

OnceInv == Once!TypeOK /\ OnceGenuine /\ OnceRemembered /\ Once!GivesUpOnlyAfterRun

-----------------------------------------------------------------------------
\* Adding to a bag adds to its domain and keeps it a bag.
LEMMA OnceBagAddType ==
    ASSUME NEW B, B \in [DOMAIN B -> Nat], NEW x
    PROVE  /\ DOMAIN Once!BagAdd(B, x) = DOMAIN B \cup {x}
           /\ Once!BagAdd(B, x) \in [DOMAIN Once!BagAdd(B, x) -> Nat]
<1>1. CASE x \in DOMAIN B
  BY <1>1 DEF Once!BagAdd
<1>2. CASE x \notin DOMAIN B
  BY <1>2 DEF Once!BagAdd
<1> QED
  BY <1>1, <1>2

\* Whatever an arrival or a loss leaves in flight was in flight before.
LEMMA OnceLinkShrinks ==
    ASSUME NEW link, NEW msg
    PROVE  /\ \A l \in Once!AfterArrival(link, msg) : l \subseteq link
           /\ \A l \in Once!AfterLoss(link) : l \subseteq link
  BY DEF Once!AfterArrival, Once!AfterLoss

LEMMA OnceInitInv == Once!Init => OnceInv
  BY AtMostOnceAssumption
     DEF Once!Init, OnceInv, Once!TypeOK, OnceGenuine, OnceRemembered, Once!GivesUpOnlyAfterRun, Once!DeliveredOrders

LEMMA OnceStepInv ==
    ASSUME OnceInv, [Once!Next]_(Once!vars)
    PROVE  OnceInv'
<1> USE AtMostOnceAssumption DEF OnceInv
<1>1. ASSUME NEW t \in Texts, Once!OnLocalMessage(t) PROVE OnceInv'
  <2> USE <1>1 DEF Once!OnLocalMessage, Once!Sent
  <2>1. Once!TypeOK'
    BY DEF Once!TypeOK
  <2>2. OnceGenuine'
    BY DEF Once!TypeOK, OnceGenuine
  <2>3. OnceRemembered'
    BY DEF OnceRemembered, Once!DeliveredOrders
  <2>4. Once!GivesUpOnlyAfterRun'
    BY DEF Once!GivesUpOnlyAfterRun, Once!DeliveredOrders
  <2> QED
    BY <2>1, <2>2, <2>3, <2>4
<1>2. ASSUME NEW msg \in data, Once!OnMessage(msg) PROVE OnceInv'
  <2> DEFINE k == msg.order
             store == IF Once!IsNew(k) THEN orderStore \cup {k} ELSE orderStore
  <2>1. /\ msg \in [order : Nat, text : Texts]
        /\ k \in Nat
        /\ k < number
        /\ msg.text = sent[k + 1]
    BY DEF Once!TypeOK, OnceGenuine
  <2>2. data' \subseteq data
    BY <1>2, OnceLinkShrinks DEF Once!OnMessage
  <2>3. /\ DOMAIN delivered' = IF Once!IsNew(k) THEN DOMAIN delivered \cup {msg}
                                           ELSE DOMAIN delivered
        /\ delivered' \in [DOMAIN delivered' -> Nat]
    <3>1. delivered' = IF Once!IsNew(k) THEN Once!BagAdd(delivered, msg) ELSE delivered
      BY <1>2 DEF Once!OnMessage
    <3>2. delivered \in [DOMAIN delivered -> Nat]
      BY DEF Once!TypeOK
    <3>3. /\ DOMAIN Once!BagAdd(delivered, msg) = DOMAIN delivered \cup {msg}
          /\ Once!BagAdd(delivered, msg) \in [DOMAIN Once!BagAdd(delivered, msg) -> Nat]
      BY <3>2, OnceBagAddType
    <3> QED
      BY <3>1, <3>2, <3>3
  <2>4. Once!DeliveredOrders' = IF Once!IsNew(k) THEN Once!DeliveredOrders \cup {k}
                                       ELSE Once!DeliveredOrders
    BY <2>3 DEF Once!DeliveredOrders
  <2>5. /\ UNCHANGED <<sent, number>>
        /\ \/ /\ Once!EndsRun(k, store)
              /\ orderStore' = store \ (lowerBound .. k)
              /\ lowerBound' = k + 1
           \/ orderStore' = store /\ lowerBound' = lowerBound
    BY <1>2 DEF Once!OnMessage, Once!BoundAfter
  <2>6. store \subseteq Nat /\ \A j \in store : j >= lowerBound /\ j \in Once!DeliveredOrders'
    BY <2>1, <2>4 DEF Once!TypeOK, OnceRemembered, Once!IsNew
  <2>7. \A d \in DOMAIN delivered' : d.order < lowerBound \/ d.order \in store
    BY <2>1, <2>3 DEF OnceRemembered, Once!IsNew
  <2>8. Once!EndsRun(k, store) => k - Limit >= lowerBound /\ k - Limit .. k \subseteq Once!DeliveredOrders'
    <3> SUFFICES ASSUME Once!EndsRun(k, store)
                 PROVE  /\ k - Limit >= lowerBound
                        /\ k - Limit .. k \subseteq Once!DeliveredOrders'
      OBVIOUS
    <3>1. k - Limit \in store
      BY <2>1 DEF Once!EndsRun
    <3>2. k - Limit .. k - 1 \subseteq store
      BY DEF Once!EndsRun
    <3>3. k - Limit >= lowerBound
      BY <2>6, <3>1
    <3>4. k \in Once!DeliveredOrders'
      <4>1. CASE Once!IsNew(k)
        BY <2>4, <4>1
      <4>2. CASE ~Once!IsNew(k)
        BY <2>1, <2>4, <2>6, <3>3, <4>2 DEF Once!IsNew, Once!TypeOK
      <4> QED
        BY <4>1, <4>2
    <3> QED
      BY <2>1, <2>6, <3>2, <3>3, <3>4
  <2>9. Once!TypeOK'
    BY <2>1, <2>2, <2>3, <2>5, <2>6 DEF Once!TypeOK
  <2>10. OnceGenuine'
    BY <2>1, <2>2, <2>3, <2>5 DEF OnceGenuine
  <2>11. OnceRemembered'
    <3>1. CASE orderStore' = store /\ lowerBound' = lowerBound
      BY <2>6, <2>7, <3>1 DEF OnceRemembered
    <3>2. CASE /\ Once!EndsRun(k, store)
               /\ orderStore' = store \ (lowerBound .. k)
               /\ lowerBound' = k + 1
      <4>1. \A d \in DOMAIN delivered' : d.order \in Nat
        BY <2>9 DEF Once!TypeOK
      <4>2. lowerBound \in Nat /\ lowerBound <= k
        BY <2>1, <2>8, <3>2 DEF Once!TypeOK
      <4> HIDE DEF k, store
      <4>3. \A d \in DOMAIN delivered' : d.order < lowerBound' \/ d.order \in orderStore'
        BY <2>1, <2>6, <2>7, <3>2, <4>1, <4>2
      <4>4. \A j \in orderStore' : j >= lowerBound' /\ j \in Once!DeliveredOrders'
        BY <2>1, <2>6, <3>2, <4>2
      <4> QED
        BY <4>3, <4>4 DEF OnceRemembered
    <3> QED
      BY <2>5, <3>1, <3>2
  <2>12. Once!GivesUpOnlyAfterRun'
    <3>1. CASE orderStore' = store /\ lowerBound' = lowerBound
      BY <2>4, <3>1 DEF Once!GivesUpOnlyAfterRun
    <3>2. CASE Once!EndsRun(k, store) /\ lowerBound' = k + 1
      BY <2>1, <2>8, <3>2 DEF Once!GivesUpOnlyAfterRun
    <3> QED
      BY <2>5, <3>1, <3>2
  <2> QED
    BY <2>9, <2>10, <2>11, <2>12
<1>3. CASE Once!Lose
  <2>1. data' \subseteq data /\ UNCHANGED <<sent, number, lowerBound, orderStore, delivered>>
    BY <1>3, OnceLinkShrinks DEF Once!Lose
  <2> QED
    BY <2>1 DEF Once!TypeOK, OnceGenuine, OnceRemembered, Once!GivesUpOnlyAfterRun, Once!DeliveredOrders
<1>4. CASE UNCHANGED Once!vars
  BY <1>4 DEF Once!vars, Once!TypeOK, OnceGenuine, OnceRemembered, Once!GivesUpOnlyAfterRun, Once!DeliveredOrders
<1> QED
  BY <1>1, <1>2, <1>3, <1>4 DEF Once!Next

LEMMA OnceStep ==
    ASSUME [SmallNext]_allVars
    PROVE  [Once!Next]_(Once!vars)
  BY DEF SmallNext, RingRuns, OnceRuns, ChatRuns, RumourRuns, ProxyRuns, PingsRun, RaftRuns, FilesRun,
         allVars, onceVars, Once!vars

LEMMA OnceAlwaysInv == SmallSpec => []OnceInv
<1>1. SmallInit => OnceInv
  BY OnceInitInv DEF SmallInit
<1>2. OnceInv /\ [SmallNext]_allVars => OnceInv'
  BY OnceStep, OnceStepInv
<1> QED
  BY <1>1, <1>2, PTL DEF SmallSpec

-----------------------------------------------------------------------------
\* The variables keep their types.
THEOREM OnceTypeCorrect == SmallSpec => []Once!TypeOK
  BY OnceAlwaysInv, PTL DEF OnceInv

\* A message is given up only after Limit + 1 consecutive later deliveries.
THEOREM GivesUpOnlyAfterRunHolds == SmallSpec => []GivesUpOnlyAfterRun
  BY OnceAlwaysInv, PTL DEF OnceInv, GivesUpOnlyAfterRun

\* The receiver's bound never goes back.
THEOREM BoundNeverFallsHolds == SmallSpec => Once!BoundNeverFalls
<1>1. ASSUME OnceInv, [Once!Next]_(Once!vars) PROVE [lowerBound' >= lowerBound]_(Once!vars)
  <2>1. ASSUME NEW msg \in data, Once!OnMessage(msg) PROVE lowerBound' >= lowerBound
    <3> DEFINE store == IF Once!IsNew(msg.order) THEN orderStore \cup {msg.order} ELSE orderStore
    <3>1. msg.order \in Nat /\ lowerBound \in Nat
      BY <1>1 DEF OnceInv, Once!TypeOK
    <3>2. \A j \in store : j \in Nat /\ j >= lowerBound
      BY <1>1, <3>1 DEF OnceInv, Once!TypeOK, OnceRemembered, Once!IsNew
    <3>3. CASE Once!EndsRun(msg.order, store)
      <4>1. msg.order - Limit \in store
        BY <3>1, <3>3, AtMostOnceAssumption DEF Once!EndsRun
      <4> QED
        BY <2>1, <3>1, <3>2, <3>3, <4>1, AtMostOnceAssumption DEF Once!OnMessage, Once!BoundAfter
    <3>4. CASE ~Once!EndsRun(msg.order, store)
      BY <2>1, <3>1, <3>4 DEF Once!OnMessage
    <3> QED
      BY <3>3, <3>4
  <2>2. lowerBound \in Nat
    BY <1>1 DEF OnceInv, Once!TypeOK
  <2>3. ASSUME NEW t \in Texts, Once!OnLocalMessage(t) PROVE lowerBound' >= lowerBound
    BY <2>2, <2>3 DEF Once!OnLocalMessage
  <2>4. ASSUME Once!Lose PROVE lowerBound' >= lowerBound
    BY <2>2, <2>4 DEF Once!Lose
  <2> QED
    BY <1>1, <2>1, <2>3, <2>4 DEF Once!Next
<1>2. OnceInv /\ [SmallNext]_allVars => [lowerBound' >= lowerBound]_(Once!vars)
  BY <1>1, OnceStep
<1> QED
  BY <1>2, OnceAlwaysInv, PTL DEF SmallSpec, Once!BoundNeverFalls

\* The solution implements the channel that hands over each message at most once.
THEOREM ImplementsOnceHolds == SmallSpec => ImplementsOnce
<1>1. Once!Init => Once!Channel!Init
  BY DEF Once!Init, Once!Channel!Init
<1>2. ASSUME OnceInv, [Once!Next]_(Once!vars) PROVE [Once!Channel!Next]_(Once!Channel!vars)
  <2>1. ASSUME NEW t \in Texts, Once!OnLocalMessage(t) PROVE Once!Channel!Next
    BY <2>1 DEF Once!OnLocalMessage, Once!Channel!Next, Once!Channel!Submit
  <2>2. ASSUME NEW msg \in data, Once!OnMessage(msg), Once!IsNew(msg.order) PROVE Once!Channel!Next
    <3>1. /\ msg \in [order : Nat, text : Texts]
          /\ msg.order \in 0 .. Len(sent) - 1
          /\ msg.text = sent[msg.order + 1]
      BY <1>2 DEF OnceInv, Once!TypeOK, OnceGenuine
    <3>2. Once!Channel!Numbered(msg.order) = msg
      BY <3>1 DEF Once!Channel!Numbered
    <3>3. msg \notin DOMAIN delivered
      BY <1>2, <2>2, <3>1 DEF OnceInv, OnceRemembered, Once!IsNew, Once!TypeOK
    <3>4. Once!Channel!HandOver(msg.order)
      BY <2>2, <3>2, <3>3 DEF Once!Channel!HandOver, Once!OnMessage, Once!BagAdd, Once!Channel!BagAdd
    <3> QED
      BY <3>1, <3>4 DEF Once!Channel!Next
  <2>3. ASSUME NEW msg \in data, Once!OnMessage(msg), ~Once!IsNew(msg.order) PROVE UNCHANGED Once!Channel!vars
    BY <2>3 DEF Once!OnMessage, Once!Channel!vars
  <2> QED
    BY <1>2, <2>1, <2>2, <2>3 DEF Once!Next, Once!Lose, Once!vars, Once!Channel!vars
<1>3. SmallInit => Once!Channel!Init
  BY <1>1 DEF SmallInit
<1>4. OnceInv /\ [SmallNext]_allVars => [Once!Channel!Next]_(Once!Channel!vars)
  BY <1>2, OnceStep
<1> QED
  BY <1>3, <1>4, OnceAlwaysInv, PTL DEF SmallSpec, ImplementsOnce, Once!ImplementsOnce, Once!Channel!Spec

-----------------------------------------------------------------------------
(* The messenger *)

ChatMsgs == Clients \X Nat
ChatStreams == [puts : Seq(ChatMsgs), taken : Nat, from : Nat, served : BOOLEAN]

ChatTypeOK ==
    /\ order \in Seq(ChatMsgs) /\ streams \in Seq(ChatStreams)
    /\ reached \in Nat /\ clock \in Nat
    /\ calls \in [Clients -> ChatMsgs \cup {NoMessage}]
    /\ mine \in [Clients -> Nat]
    /\ box \in [Clients -> Seq(ChatMsgs)]
    /\ copied \in [Clients -> Seq(ChatMsgs)]
    /\ shown \in [Clients -> Seq(ChatMsgs)]

\* The lock is held by one call at most, whose message is the last in the order.
ChatTurn ==
    turn # {} => \E c \in Clients :
        turn = {c} /\ c \in Chat!Calling /\ order # << >> /\ order[Len(order)] = calls[c]

\* A stream counts from a turn that is over; nothing is taken before it is put.
ChatOpened ==
    \A i \in DOMAIN streams :
        streams[i].from <= Chat!Turns(i) /\ streams[i].taken <= Len(streams[i].puts)

\* No two clients read one stream; one that has none yet has nothing to show.
ChatOwned ==
    /\ \A c \in Clients :
          IF mine[c] = 0 THEN box[c] = << >> /\ copied[c] = << >> /\ shown[c] = << >>
          ELSE mine[c] \in DOMAIN streams
    /\ \A c, d \in Clients : mine[c] # 0 /\ mine[c] = mine[d] => c = d

\* While the lock of the box is held its contents are those copied.
ChatCopied == \A c \in Clients : copied[c] # << >> => copied[c] = box[c]

ChatInv == ChatTypeOK /\ ChatTurn /\ ChatOpened /\ ChatOwned /\ ChatCopied /\ Chat!StreamsAgree /\ Chat!NothingLost

-----------------------------------------------------------------------------
\* What is appended to a sequence does not change its parts.
LEMMA ChatSubSeqOfAppend ==
    ASSUME NEW S, NEW s \in Seq(S), NEW x \in S, NEW a \in Nat \ {0}, NEW b \in Nat, b <= Len(s)
    PROVE  SubSeq(Append(s, x), a, b) = SubSeq(s, a, b)
<1> DEFINE t == Append(s, x)
<1>1. /\ t \in Seq(S) /\ Len(s) \in Nat /\ Len(t) = Len(s) + 1
      /\ \A i \in 1 .. Len(s) : t[i] = s[i] /\ s[i] \in S
  BY AppendProperties, LenProperties, ElementOfSeq
<1>2. /\ SubSeq(t, a, b) \in Seq(S)
      /\ Len(SubSeq(t, a, b)) = IF a <= b THEN b - a + 1 ELSE 0
      /\ \A i \in 1 .. b - a + 1 : SubSeq(t, a, b)[i] = t[a + i - 1]
  <2>1. \A i \in a .. b : t[i] \in S
    BY <1>1
  <2> HIDE DEF t
  <2> QED
    BY <2>1, SubSeqProperties
<1>3. /\ SubSeq(s, a, b) \in Seq(S)
      /\ Len(SubSeq(s, a, b)) = IF a <= b THEN b - a + 1 ELSE 0
      /\ \A i \in 1 .. b - a + 1 : SubSeq(s, a, b)[i] = s[a + i - 1]
  <2>1. \A i \in a .. b : s[i] \in S
    BY <1>1
  <2> QED
    BY <2>1, SubSeqProperties
<1>4. \A i \in 1 .. Len(SubSeq(t, a, b)) : SubSeq(t, a, b)[i] = SubSeq(s, a, b)[i]
  <2> HIDE DEF t
  <2> QED
    BY <1>1, <1>2, <1>3
<1> QED
  <2> HIDE DEF t
  <2>1. SubSeq(t, a, b) = SubSeq(s, a, b)
    BY <1>2, <1>3, <1>4, SeqEqual
  <2> QED
    BY <2>1 DEF t

\* A part that is extended by one element.
LEMMA ChatSubSeqExtended ==
    ASSUME NEW S, NEW s \in Seq(S), NEW a \in Nat \ {0}, NEW b \in Nat,
           a <= b + 1, b < Len(s)
    PROVE  SubSeq(s, a, b + 1) = Append(SubSeq(s, a, b), s[b + 1])
<1>1. Len(s) \in Nat /\ a \in 1 .. Len(s) /\ b + 1 \in a .. Len(s) /\ b + 1 - 1 = b
  BY LenProperties
<1>2. SubSeq(s, a, b + 1) = SubSeq(s, a, b + 1 - 1) \o <<s[b + 1]>>
  BY <1>1, SubSeqRecursiveSecond
<1>3. SubSeq(s, a, b) \in Seq(S) /\ s[b + 1] \in S
  <2>1. \A i \in a .. b + 1 : s[i] \in S
    BY <1>1, ElementOfSeq
  <2> QED
    BY <1>1, <2>1, SubSeqProperties
<1> QED
  BY <1>1, <1>2, <1>3, AppendIsConcat

LEMMA ChatInitInv == Chat!Init => ChatInv
<1> SUFFICES ASSUME Chat!Init PROVE ChatInv
  OBVIOUS
<1>1. ChatTypeOK /\ ChatTurn /\ ChatOwned /\ ChatCopied
  BY EmptySeq DEF Chat!Init, ChatTypeOK, ChatTurn, ChatOwned, ChatCopied
<1>2. ChatOpened /\ Chat!StreamsAgree
  BY DEF Chat!Init, ChatOpened, Chat!StreamsAgree
<1>3. Chat!NothingLost
  BY DEF Chat!Init, Chat!NothingLost
<1> QED
  BY <1>1, <1>2, <1>3 DEF ChatInv

LEMMA ChatSendInv ==
    ASSUME ChatInv, NEW c \in Clients, Chat!Send(c)
    PROVE  ChatInv'
<1>0. /\ calls[c] = NoMessage
      /\ clock' = clock + 1
      /\ calls' = [calls EXCEPT ![c] = <<c, clock'>>]
      /\ UNCHANGED <<order, streams, turn, reached, mine, box, copied, shown>>
  BY DEF Chat!Send, Chat!Calling
<1>1. ChatTypeOK'
  <2>1. clock' \in Nat /\ <<c, clock'>> \in ChatMsgs
    BY <1>0 DEF ChatInv, ChatTypeOK, ChatMsgs
  <2> QED
    BY <1>0, <2>1 DEF ChatInv, ChatTypeOK
<1>2. ChatTurn'
  BY <1>0 DEF ChatInv, ChatTypeOK, ChatTurn, Chat!Calling
<1>3. ChatOpened' /\ ChatOwned' /\ ChatCopied' /\ Chat!StreamsAgree' /\ Chat!NothingLost'
  BY <1>0 DEF ChatInv, ChatOpened, ChatOwned, ChatCopied, Chat!StreamsAgree, Chat!NothingLost, Chat!Turns
<1> QED
  BY <1>1, <1>2, <1>3 DEF ChatInv

LEMMA ChatLockInv ==
    ASSUME ChatInv, NEW c \in Clients, Chat!Lock(c)
    PROVE  ChatInv'
<1>0. /\ calls[c] # NoMessage /\ turn = {}
      /\ turn' = {c} /\ reached' = 0
      /\ order' = Append(order, calls[c])
      /\ UNCHANGED <<streams, calls, clock, mine, box, copied, shown>>
  BY DEF Chat!Lock, Chat!Calling, Chat!StreamLockFree
<1>1. /\ calls[c] \in ChatMsgs /\ order \in Seq(ChatMsgs) /\ order' \in Seq(ChatMsgs)
      /\ Len(order) \in Nat /\ Len(order') = Len(order) + 1 /\ order' # << >>
      /\ order'[Len(order')] = calls[c]
  <2>1. calls[c] \in ChatMsgs /\ order \in Seq(ChatMsgs)
    BY <1>0 DEF ChatInv, ChatTypeOK
  <2> QED
    BY <1>0, <2>1, AppendProperties, LenProperties
<1>2. ChatTypeOK' /\ ChatTurn'
  BY <1>0, <1>1 DEF ChatInv, ChatTypeOK, ChatTurn, Chat!Calling
<1>3. ChatOwned' /\ ChatCopied' /\ Chat!NothingLost'
  BY <1>0 DEF ChatInv, ChatOwned, ChatCopied, Chat!NothingLost
<1>4. \A i \in DOMAIN streams :
         /\ i \in Nat \ {0} /\ streams[i].from \in Nat
         /\ Chat!Turns(i) = Len(order) /\ Chat!Turns(i)' = Len(order)
  <2>1. \A i \in DOMAIN streams : i \in Nat \ {0} /\ streams[i] \in ChatStreams
    BY LenProperties, ElementOfSeq DEF ChatInv, ChatTypeOK
  <2> QED
    BY <1>0, <1>1, <2>1 DEF Chat!Turns, ChatStreams
<1>5. ChatOpened'
  BY <1>0, <1>4 DEF ChatInv, ChatOpened
<1>6. Chat!StreamsAgree'
  BY <1>0, <1>1, <1>4, ChatSubSeqOfAppend DEF ChatInv, Chat!StreamsAgree
<1> QED
  BY <1>2, <1>3, <1>5, <1>6 DEF ChatInv

LEMMA ChatPutInv ==
    ASSUME ChatInv, NEW c \in Clients, Chat!Put(c)
    PROVE  ChatInv'
<1>a. PICK j, x : j = reached + 1 /\ x = calls[c]
  OBVIOUS
<1>0. /\ c \in turn /\ reached < Len(streams)
      /\ reached' = j
      /\ streams' = [streams EXCEPT ![j].puts = Append(@, x)]
      /\ UNCHANGED <<order, turn, calls, clock, mine, box, copied, shown>>
  BY <1>a DEF Chat!Put
<1>1. /\ streams \in Seq(ChatStreams) /\ order \in Seq(ChatMsgs) /\ Len(order) \in Nat \ {0}
      /\ j \in 1 .. Len(streams) /\ DOMAIN streams = 1 .. Len(streams)
      /\ \A i \in DOMAIN streams : i \in Nat \ {0} /\ streams[i] \in ChatStreams
  BY <1>a, <1>0, LenProperties, ElementOfSeq, EmptySeq DEF ChatInv, ChatTypeOK, ChatTurn
<1>2. x \in ChatMsgs /\ x = order[Len(order)] /\ turn = {c}
  BY <1>a, <1>0 DEF ChatInv, ChatTypeOK, ChatTurn, Chat!Calling
<1>3. /\ DOMAIN streams' = DOMAIN streams /\ Len(streams') = Len(streams)
      /\ streams' \in Seq(ChatStreams)
      /\ streams'[j] = [streams[j] EXCEPT !.puts = Append(@, x)]
      /\ \A i \in DOMAIN streams \ {j} : streams'[i] = streams[i]
  <2>1. Append(streams[j].puts, x) \in Seq(ChatMsgs)
    BY <1>1, <1>2, AppendProperties DEF ChatStreams
  <2>2. [streams[j] EXCEPT !.puts = Append(@, x)] \in ChatStreams
    BY <1>1, <2>1 DEF ChatStreams
  <2>3. streams' = [streams EXCEPT ![j] = [streams[j] EXCEPT !.puts = Append(@, x)]]
    BY <1>0
  <2> QED
    BY <1>1, <2>2, <2>3, ExceptSeq, LenProperties
<1>4. ChatTypeOK' /\ ChatTurn' /\ ChatCopied'
  BY <1>0, <1>1, <1>3 DEF ChatInv, ChatTypeOK, ChatTurn, Chat!Calling, ChatCopied
<1>5. ChatOwned'
  BY <1>0, <1>3 DEF ChatInv, ChatOwned
<1>6. /\ Chat!Turns(j) = Len(order) - 1 /\ Chat!Turns(j)' = Len(order)
      /\ \A i \in DOMAIN streams \ {j} : Chat!Turns(i)' = Chat!Turns(i)
  <2>1. reached \in Nat /\ turn # {} /\ turn' # {}
    BY <1>0 DEF ChatInv, ChatTypeOK
  <2> QED
    BY <1>a, <1>0, <1>1, <2>1 DEF Chat!Turns
<1>7. /\ streams[j].from \in Nat /\ streams[j].from <= Len(order) - 1
      /\ streams[j].puts \in Seq(ChatMsgs) /\ streams[j].taken \in Nat
      /\ streams[j].taken <= Len(streams[j].puts)
      /\ streams'[j].puts = Append(streams[j].puts, x)
      /\ streams'[j].from = streams[j].from /\ streams'[j].taken = streams[j].taken
  <2>1. streams[j] \in ChatStreams /\ j \in DOMAIN streams
    BY <1>1
  <2>2. streams[j].from <= Len(order) - 1 /\ streams[j].taken <= Len(streams[j].puts)
    BY <1>6, <2>1 DEF ChatInv, ChatOpened
  <2>3. /\ streams'[j].puts = Append(streams[j].puts, x)
        /\ streams'[j].from = streams[j].from /\ streams'[j].taken = streams[j].taken
    BY <1>3, <2>1 DEF ChatStreams
  <2> QED
    BY <2>1, <2>2, <2>3 DEF ChatStreams
<1>8. Len(streams'[j].puts) = Len(streams[j].puts) + 1 /\ Len(streams[j].puts) \in Nat
  BY <1>2, <1>7, AppendProperties, LenProperties
<1>9. ChatOpened'
  <2> SUFFICES ASSUME NEW i \in DOMAIN streams
               PROVE  /\ streams'[i].from <= Chat!Turns(i)'
                      /\ streams'[i].taken <= Len(streams'[i].puts)
    BY <1>3 DEF ChatOpened
  <2>1. CASE i = j
    BY <1>1, <1>6, <1>7, <1>8, <2>1
  <2>2. CASE i # j
    BY <1>3, <1>6, <2>2 DEF ChatInv, ChatOpened
  <2> QED
    BY <2>1, <2>2
<1>10. Chat!StreamsAgree'
  <2>1. streams'[j].puts = SubSeq(order, streams[j].from + 1, Len(order))
    <3>1. PICK a \in Nat \ {0}, b \in Nat :
             a = streams[j].from + 1 /\ b = Len(order) - 1 /\ a <= b + 1 /\ b < Len(order)
      <4>1. PICK f, l : f = streams[j].from /\ l = Len(order) /\ f \in Nat /\ l \in Nat \ {0} /\ f <= l - 1
        BY <1>1, <1>7
      <4>2. f + 1 \in Nat \ {0} /\ l - 1 \in Nat /\ f + 1 <= (l - 1) + 1 /\ l - 1 < l
        BY <4>1
      <4> QED
        BY <4>1, <4>2
    <3>2. SubSeq(order, a, b + 1) = Append(SubSeq(order, a, b), order[b + 1])
      BY <1>1, <3>1, ChatSubSeqExtended
    <3>3. streams[j].puts = SubSeq(order, a, b)
      BY <1>1, <1>6, <3>1 DEF ChatInv, Chat!StreamsAgree
    <3> QED
      <4>1. b + 1 = Len(order)
        BY <1>1, <3>1
      <4> QED
        BY <1>2, <1>7, <3>1, <3>2, <3>3, <4>1
  <2>2. ASSUME NEW i \in DOMAIN streams' PROVE streams'[i].puts = SubSeq(order', streams'[i].from + 1, Chat!Turns(i)')
    <3>1. CASE i = j
      BY <1>0, <1>3, <1>6, <1>7, <2>1, <3>1
    <3>2. CASE i # j
      BY <1>0, <1>3, <1>6, <2>2, <3>2 DEF ChatInv, Chat!StreamsAgree
    <3> QED
      BY <3>1, <3>2
  <2> QED
    BY <2>2 DEF Chat!StreamsAgree
<1>11. Chat!NothingLost'
  <2>1. \A i \in DOMAIN streams :
           /\ streams'[i].taken = streams[i].taken
           /\ SubSeq(streams'[i].puts, 1, streams[i].taken)
                 = SubSeq(streams[i].puts, 1, streams[i].taken)
    <3> SUFFICES ASSUME NEW i \in DOMAIN streams
                 PROVE  /\ streams'[i].taken = streams[i].taken
                        /\ SubSeq(streams'[i].puts, 1, streams[i].taken)
                              = SubSeq(streams[i].puts, 1, streams[i].taken)
      OBVIOUS
    <3>1. SubSeq(Append(streams[j].puts, x), 1, streams[j].taken)
              = SubSeq(streams[j].puts, 1, streams[j].taken)
      <4>1. /\ 1 \in Nat \ {0} /\ x \in ChatMsgs /\ streams[j].puts \in Seq(ChatMsgs)
            /\ streams[j].taken \in Nat /\ streams[j].taken <= Len(streams[j].puts)
        BY <1>2, <1>7
      <4> QED
        BY <4>1, ChatSubSeqOfAppend
    <3> QED
      BY <1>3, <1>7, <3>1
  <2> QED
    BY <1>0, <2>1 DEF ChatInv, ChatOwned, Chat!NothingLost
<1> QED
  BY <1>4, <1>5, <1>9, <1>10, <1>11 DEF ChatInv

LEMMA ChatAckInv ==
    ASSUME ChatInv, NEW c \in Clients, Chat!Ack(c)
    PROVE  ChatInv'
<1>0. /\ c \in turn /\ reached = Len(streams) /\ turn' = {}
      /\ calls' = [calls EXCEPT ![c] = NoMessage]
      /\ UNCHANGED <<order, streams, reached, clock, mine, box, copied, shown>>
  BY DEF Chat!Ack
<1>1. ChatTypeOK' /\ ChatTurn' /\ ChatOwned' /\ ChatCopied' /\ Chat!NothingLost'
  BY <1>0 DEF ChatInv, ChatTypeOK, ChatTurn, ChatOwned, ChatCopied, Chat!NothingLost
<1>2. \A i \in DOMAIN streams : Chat!Turns(i)' = Chat!Turns(i)
  <2>1. DOMAIN streams = 1 .. Len(streams) /\ Len(streams) \in Nat
    BY LenProperties DEF ChatInv, ChatTypeOK
  <2> QED
    BY <1>0, <2>1 DEF Chat!Turns
<1>3. ChatOpened' /\ Chat!StreamsAgree'
  BY <1>0, <1>2 DEF ChatInv, ChatOpened, Chat!StreamsAgree
<1> QED
  BY <1>1, <1>3 DEF ChatInv

LEMMA ChatReadMessagesInv ==
    ASSUME ChatInv, NEW c \in Clients, Chat!ReadMessages(c)
    PROVE  ChatInv'
<1>a. PICK new : new = [puts |-> << >>, taken |-> 0, from |-> Len(order), served |-> TRUE]
  OBVIOUS
<1>0. /\ mine[c] = 0 /\ turn = {}
      /\ streams' = Append(streams, new)
      /\ mine' = [mine EXCEPT ![c] = Len(streams')]
      /\ UNCHANGED <<order, turn, reached, calls, clock, box, copied, shown>>
  BY <1>a DEF Chat!ReadMessages, Chat!SubscriptionWaits, Chat!StreamLockFree
<1>1. /\ streams \in Seq(ChatStreams) /\ order \in Seq(ChatMsgs) /\ Len(order) \in Nat
      /\ new \in ChatStreams /\ Len(streams) \in Nat
      /\ DOMAIN streams = 1 .. Len(streams)
  BY <1>a, LenProperties, EmptySeq DEF ChatInv, ChatTypeOK, ChatStreams
<1>2. /\ streams' \in Seq(ChatStreams) /\ Len(streams') = Len(streams) + 1
      /\ streams'[Len(streams')] = new
      /\ \A i \in DOMAIN streams : streams'[i] = streams[i]
  BY <1>0, <1>1, AppendProperties
<1>3. DOMAIN streams' = DOMAIN streams \cup {Len(streams')}
  BY <1>1, <1>2, LenProperties
<1>4. ChatTypeOK' /\ ChatTurn' /\ ChatCopied'
  BY <1>0, <1>1, <1>2 DEF ChatInv, ChatTypeOK, ChatTurn, ChatCopied
<1>5. ChatOwned'
  <2>1. \A d \in Clients : mine'[d] = IF d = c THEN Len(streams') ELSE mine[d]
    BY <1>0 DEF ChatInv, ChatTypeOK
  <2>2. Len(streams') # 0 /\ Len(streams') \notin DOMAIN streams
    BY <1>1, <1>2
  <2> QED
    BY <1>0, <1>3, <2>1, <2>2 DEF ChatInv, ChatOwned
<1>6. \A i \in DOMAIN streams' : Chat!Turns(i) = Len(order) /\ Chat!Turns(i)' = Len(order)
  BY <1>0 DEF Chat!Turns
<1>7. ChatOpened'
  <2>1. new.from = Len(order) /\ new.taken = 0 /\ Len(new.puts) = 0
    BY <1>a, EmptySeq
  <2> QED
    BY <1>1, <1>2, <1>3, <1>6, <2>1 DEF ChatInv, ChatOpened
<1>8. Chat!StreamsAgree'
  <2>1. new.puts = SubSeq(order, new.from + 1, Len(order))
    BY <1>a, <1>1, SubSeqEmpty
  <2> QED
    BY <1>0, <1>2, <1>3, <1>6, <2>1 DEF ChatInv, Chat!StreamsAgree
<1>9. Chat!NothingLost'
  <2>1. \A d \in Clients : mine'[d] = IF d = c THEN Len(streams') ELSE mine[d]
    BY <1>0 DEF ChatInv, ChatTypeOK
  <2>2. shown[c] = << >> /\ box[c] = << >>
    BY <1>0 DEF ChatInv, ChatOwned
  <2>3. << >> \o << >> = SubSeq(new.puts, 1, new.taken)
    BY <1>a, SubSeqEmpty, EmptySeq, ConcatEmptySeq
  <2> SUFFICES ASSUME NEW d \in Clients, mine'[d] # 0
               PROVE  shown'[d] \o box'[d] =
                          SubSeq(streams'[mine'[d]].puts, 1, streams'[mine'[d]].taken)
    BY DEF Chat!NothingLost
  <2>4. CASE d = c
    BY <1>0, <1>2, <2>1, <2>2, <2>3, <2>4
  <2>5. CASE d # c
    <3>1. mine'[d] = mine[d] /\ mine[d] \in DOMAIN streams
      BY <2>1, <2>5 DEF ChatInv, ChatOwned
    <3>2. streams'[mine[d]] = streams[mine[d]]
      BY <1>2, <3>1
    <3> QED
      BY <1>0, <3>1, <3>2 DEF ChatInv, Chat!NothingLost
  <2> QED
    BY <2>4, <2>5
<1> QED
  BY <1>4, <1>5, <1>7, <1>8, <1>9 DEF ChatInv

\* Taking the next message of stream i changes what was taken from it only.
LEMMA ChatTakeNextInv ==
    ASSUME ChatInv, NEW i \in DOMAIN streams, NEW served \in BOOLEAN,
           Chat!HasMore(i), Chat!TakeNext(i, served)
    PROVE  /\ streams' \in Seq(ChatStreams) /\ DOMAIN streams' = DOMAIN streams
           /\ \A j \in DOMAIN streams :
                 /\ streams'[j].puts = streams[j].puts /\ streams'[j].from = streams[j].from
                 /\ streams'[j].taken = streams[j].taken + IF j = i THEN 1 ELSE 0
           /\ UNCHANGED <<turn, reached, order>> => ChatOpened' /\ Chat!StreamsAgree'
<1> DEFINE r == Chat!AfterNext(streams[i], served)
<1>1. /\ streams \in Seq(ChatStreams) /\ i \in 1 .. Len(streams)
      /\ DOMAIN streams = 1 .. Len(streams)
      /\ \A j \in DOMAIN streams : streams[j] \in ChatStreams
  BY LenProperties, ElementOfSeq DEF ChatInv, ChatTypeOK
<1>2. /\ r \in ChatStreams
      /\ r.puts = streams[i].puts /\ r.from = streams[i].from
      /\ r.taken = streams[i].taken + 1
  BY <1>1 DEF Chat!AfterNext, ChatStreams
<1>3. streams' = [streams EXCEPT ![i] = r]
  BY DEF Chat!TakeNext
<1>4. /\ streams' \in Seq(ChatStreams) /\ DOMAIN streams' = DOMAIN streams
      /\ \A j \in DOMAIN streams : streams'[j] = IF j = i THEN r ELSE streams[j]
  <2> HIDE DEF r
  <2> QED
    BY <1>1, <1>2, <1>3, ExceptSeq, LenProperties
<1>5. \A j \in DOMAIN streams :
         /\ streams'[j].puts = streams[j].puts /\ streams'[j].from = streams[j].from
         /\ streams'[j].taken = streams[j].taken + IF j = i THEN 1 ELSE 0
  <2> HIDE DEF r
  <2> QED
    <3>1. \A j \in DOMAIN streams : streams[j].taken \in Nat
      BY <1>1 DEF ChatStreams
    <3> QED
      BY <1>2, <1>4, <3>1
<1>6. ASSUME UNCHANGED <<turn, reached, order>>
      PROVE  ChatOpened' /\ Chat!StreamsAgree'
  <2>1. \A j \in DOMAIN streams : Chat!Turns(j)' = Chat!Turns(j)
    BY <1>6 DEF Chat!Turns
  <2>2. \A j \in DOMAIN streams :
           streams[j].taken \in Nat /\ Len(streams[j].puts) \in Nat
    BY <1>1, LenProperties DEF ChatStreams
  <2>3. ChatOpened'
    BY <1>4, <1>5, <2>1, <2>2 DEF ChatInv, ChatOpened, Chat!HasMore
  <2>4. Chat!StreamsAgree'
    BY <1>4, <1>5, <1>6, <2>1 DEF ChatInv, Chat!StreamsAgree
  <2> QED
    BY <2>3, <2>4
<1> QED
  BY <1>4, <1>5, <1>6

LEMMA ChatPutMessageInv ==
    ASSUME ChatInv, NEW c \in Clients, Chat!PutMessage(c)
    PROVE  ChatInv'
<1>a. PICK i, k, x : i = mine[c] /\ k = streams[i].taken /\ x = streams[i].puts[k + 1]
  OBVIOUS
<1>0. /\ i # 0 /\ Chat!HasMore(i) /\ copied[c] = << >>
      /\ box' = [box EXCEPT ![c] = Append(@, x)]
      /\ Chat!TakeNext(i, TRUE)
      /\ UNCHANGED <<order, turn, reached, calls, clock, mine, copied, shown>>
  BY <1>a DEF Chat!PutMessage, Chat!PutMayBegin, Chat!PostBoxFree, Chat!Append1
<1>1. i \in DOMAIN streams /\ \A d \in Clients : mine[d] = i => d = c
  BY <1>a, <1>0 DEF ChatInv, ChatOwned
<1>2. /\ streams' \in Seq(ChatStreams) /\ DOMAIN streams' = DOMAIN streams
      /\ \A j \in DOMAIN streams :
            /\ streams'[j].puts = streams[j].puts
            /\ streams'[j].taken = streams[j].taken + IF j = i THEN 1 ELSE 0
      /\ ChatOpened' /\ Chat!StreamsAgree'
  BY <1>0, <1>1, ChatTakeNextInv
<1>3. /\ k \in Nat /\ streams[i].puts \in Seq(ChatMsgs) /\ k + 1 \in 1 .. Len(streams[i].puts)
      /\ k < Len(streams[i].puts) /\ x \in ChatMsgs
  <2>1. streams[i] \in ChatStreams
    BY <1>1, LenProperties, ElementOfSeq DEF ChatInv, ChatTypeOK
  <2>2. k \in Nat /\ streams[i].puts \in Seq(ChatMsgs)
    BY <1>a, <2>1 DEF ChatStreams
  <2>3. Len(streams[i].puts) \in Nat /\ k < Len(streams[i].puts)
    BY <1>a, <1>0, <2>2, LenProperties DEF Chat!HasMore
  <2>4. k + 1 \in 1 .. Len(streams[i].puts)
    BY <2>2, <2>3
  <2> QED
    BY <1>a, <2>2, <2>3, <2>4, ElementOfSeq
<1>4. /\ box[c] \in Seq(ChatMsgs) /\ shown[c] \in Seq(ChatMsgs)
      /\ \A d \in Clients : box'[d] = IF d = c THEN Append(box[c], x) ELSE box[d]
      /\ Append(box[c], x) \in Seq(ChatMsgs)
  BY <1>0, <1>3, AppendProperties DEF ChatInv, ChatTypeOK
<1>5. ChatTypeOK' /\ ChatTurn'
  BY <1>0, <1>2, <1>4 DEF ChatInv, ChatTypeOK, ChatTurn, Chat!Calling
<1>6. ChatOwned' /\ ChatCopied'
  BY <1>a, <1>0, <1>2, <1>4 DEF ChatInv, ChatOwned, ChatCopied
<1>7. Chat!NothingLost'
  <2>1. shown[c] \o Append(box[c], x) = Append(shown[c] \o box[c], x)
    <3>1. <<x>> \in Seq(ChatMsgs) /\ shown[c] \o box[c] \in Seq(ChatMsgs)
      BY <1>3, <1>4, ConcatProperties
    <3> QED
      <4>1. Append(box[c], x) = box[c] \o <<x>>
        BY <1>3, <1>4, AppendIsConcat
      <4>2. Append(shown[c] \o box[c], x) = (shown[c] \o box[c]) \o <<x>>
        BY <1>3, <3>1, AppendIsConcat
      <4>3. (shown[c] \o box[c]) \o <<x>> = shown[c] \o (box[c] \o <<x>>)
        <5>1. PICK s, t, one : s = shown[c] /\ t = box[c] /\ one = <<x>>
          OBVIOUS
        <5>2. s \in Seq(ChatMsgs) /\ t \in Seq(ChatMsgs) /\ one \in Seq(ChatMsgs)
          BY <1>4, <3>1, <5>1
        <5>3. (s \o t) \o one = s \o (t \o one)
          BY <5>2, ConcatAssociative
        <5> QED
          BY <5>1, <5>3
      <4> QED
        BY <4>1, <4>2, <4>3
  <2>2. shown[c] \o box[c] = SubSeq(streams[i].puts, 1, k)
    BY <1>a, <1>0 DEF ChatInv, Chat!NothingLost
  <2>3. SubSeq(streams[i].puts, 1, k + 1) = Append(SubSeq(streams[i].puts, 1, k), x)
    <3>1. 1 \in Nat \ {0} /\ 1 <= k + 1
      BY <1>3
    <3> QED
      BY <1>a, <1>3, <3>1, ChatSubSeqExtended
  <2>4. streams'[i].puts = streams[i].puts /\ streams'[i].taken = k + 1
    BY <1>a, <1>1, <1>2, <1>3
  <2>5. shown'[c] \o box'[c] = SubSeq(streams'[i].puts, 1, streams'[i].taken)
    BY <1>0, <1>4, <2>1, <2>2, <2>3, <2>4
  <2> SUFFICES ASSUME NEW d \in Clients, mine[d] # 0
               PROVE  shown'[d] \o box'[d] =
                          SubSeq(streams'[mine[d]].puts, 1, streams'[mine[d]].taken)
    BY <1>0 DEF Chat!NothingLost
  <2>6. CASE d = c
    BY <1>a, <2>5, <2>6
  <2>7. CASE d # c
    <3>1. mine[d] \in DOMAIN streams /\ mine[d] # i
      BY <1>1, <2>7 DEF ChatInv, ChatOwned
    <3>2. streams[mine[d]].taken \in Nat
      <4>1. streams[mine[d]] \in ChatStreams
        BY <3>1, LenProperties, ElementOfSeq DEF ChatInv, ChatTypeOK
      <4> QED
        BY <4>1 DEF ChatStreams
    <3>3. /\ streams'[mine[d]].puts = streams[mine[d]].puts
          /\ streams'[mine[d]].taken = streams[mine[d]].taken
      BY <1>2, <3>1, <3>2
    <3> QED
      BY <1>0, <1>4, <2>7, <3>3 DEF ChatInv, Chat!NothingLost
  <2> QED
    BY <2>6, <2>7
<1> QED
  BY <1>2, <1>5, <1>6, <1>7 DEF ChatInv

LEMMA ChatReaderGoneInv ==
    ASSUME ChatInv, NEW i \in DOMAIN streams, Chat!ReaderGone(i)
    PROVE  ChatInv'
<1>0. /\ Chat!HasMore(i) /\ Chat!TakeNext(i, FALSE)
      /\ \A c \in Clients : mine[c] # i
      /\ UNCHANGED <<order, turn, reached, calls, clock, mine, box, copied, shown>>
  BY DEF Chat!ReaderGone
<1>1. /\ streams' \in Seq(ChatStreams) /\ DOMAIN streams' = DOMAIN streams
      /\ \A j \in DOMAIN streams :
            /\ streams'[j].puts = streams[j].puts
            /\ streams'[j].taken = streams[j].taken + IF j = i THEN 1 ELSE 0
      /\ ChatOpened' /\ Chat!StreamsAgree'
  BY <1>0, ChatTakeNextInv
<1>2. ChatTypeOK' /\ ChatTurn' /\ ChatOwned' /\ ChatCopied'
  BY <1>0, <1>1 DEF ChatInv, ChatTypeOK, ChatTurn, Chat!Calling, ChatOwned, ChatCopied
<1>3. Chat!NothingLost'
  <2> SUFFICES ASSUME NEW d \in Clients, mine[d] # 0
               PROVE  shown[d] \o box[d] =
                          SubSeq(streams'[mine[d]].puts, 1, streams'[mine[d]].taken)
    BY <1>0 DEF Chat!NothingLost
  <2>1. mine[d] \in DOMAIN streams /\ mine[d] # i
    BY <1>0 DEF ChatInv, ChatOwned
  <2>2. streams[mine[d]].taken \in Nat
    <3>1. streams[mine[d]] \in ChatStreams
      BY <2>1, LenProperties, ElementOfSeq DEF ChatInv, ChatTypeOK
    <3> QED
      BY <3>1 DEF ChatStreams
  <2>3. /\ streams'[mine[d]].puts = streams[mine[d]].puts
        /\ streams'[mine[d]].taken = streams[mine[d]].taken
    BY <1>1, <2>1, <2>2
  <2> QED
    BY <2>3 DEF ChatInv, Chat!NothingLost
<1> QED
  BY <1>1, <1>2, <1>3 DEF ChatInv

LEMMA ChatCollectCopyInv ==
    ASSUME ChatInv, NEW c \in Clients, Chat!CollectCopy(c)
    PROVE  ChatInv'
<1>0. /\ box[c] # << >>
      /\ copied' = [copied EXCEPT ![c] = box[c]]
      /\ UNCHANGED <<order, streams, turn, reached, calls, clock, mine, box, shown>>
  BY DEF Chat!CollectCopy
<1>1. ChatTypeOK' /\ ChatTurn' /\ ChatOwned' /\ ChatCopied'
  BY <1>0 DEF ChatInv, ChatTypeOK, ChatTurn, Chat!Calling, ChatOwned, ChatCopied
<1>2. ChatOpened' /\ Chat!StreamsAgree' /\ Chat!NothingLost'
  BY <1>0 DEF ChatInv, ChatOpened, Chat!StreamsAgree, Chat!NothingLost, Chat!Turns
<1> QED
  BY <1>1, <1>2 DEF ChatInv

LEMMA ChatCollectClearInv ==
    ASSUME ChatInv, NEW c \in Clients, Chat!CollectClear(c)
    PROVE  ChatInv'
<1>0. /\ copied[c] # << >>
      /\ box' = [box EXCEPT ![c] = << >>]
      /\ shown' = [shown EXCEPT ![c] = @ \o copied[c]]
      /\ copied' = [copied EXCEPT ![c] = << >>]
      /\ UNCHANGED <<order, streams, turn, reached, calls, clock, mine>>
  BY DEF Chat!CollectClear
<1>1. /\ copied[c] = box[c] /\ mine[c] # 0
      /\ box[c] \in Seq(ChatMsgs) /\ shown[c] \in Seq(ChatMsgs) /\ << >> \in Seq(ChatMsgs)
      /\ shown[c] \o box[c] \in Seq(ChatMsgs)
      /\ (shown[c] \o box[c]) \o << >> = shown[c] \o box[c]
  <2>1. copied[c] = box[c] /\ mine[c] # 0 /\ box[c] \in Seq(ChatMsgs) /\ shown[c] \in Seq(ChatMsgs)
    BY <1>0 DEF ChatInv, ChatOwned, ChatCopied, ChatTypeOK
  <2> QED
    BY <2>1, EmptySeq, ConcatProperties, ConcatEmptySeq
<1>2. ChatTypeOK' /\ ChatTurn'
  BY <1>0, <1>1 DEF ChatInv, ChatTypeOK, ChatTurn, Chat!Calling
<1>3. ChatOpened' /\ Chat!StreamsAgree'
  BY <1>0 DEF ChatInv, ChatOpened, Chat!StreamsAgree, Chat!Turns
<1>4. \A d \in Clients :
         /\ box'[d] = IF d = c THEN << >> ELSE box[d]
         /\ shown'[d] = IF d = c THEN shown[c] \o box[c] ELSE shown[d]
         /\ copied'[d] = IF d = c THEN << >> ELSE copied[d]
  BY <1>0, <1>1 DEF ChatInv, ChatTypeOK
<1>5. ChatOwned' /\ ChatCopied'
  BY <1>0, <1>1, <1>4 DEF ChatInv, ChatOwned, ChatCopied
<1>6. \A d \in Clients : shown'[d] \o box'[d] = shown[d] \o box[d]
  BY <1>1, <1>4
<1>7. Chat!NothingLost'
  BY <1>0, <1>6 DEF ChatInv, Chat!NothingLost
<1> QED
  BY <1>2, <1>3, <1>5, <1>7 DEF ChatInv

LEMMA ChatRestartInv ==
    ASSUME ChatInv, NEW c \in Clients, Chat!Restart(c)
    PROVE  ChatInv'
<1>0. /\ mine' = [mine EXCEPT ![c] = 0]
      /\ box' = [box EXCEPT ![c] = << >>]
      /\ copied' = [copied EXCEPT ![c] = << >>]
      /\ shown' = [shown EXCEPT ![c] = << >>]
      /\ UNCHANGED <<order, streams, turn, reached, calls, clock>>
  BY DEF Chat!Restart
<1>1. ChatTypeOK' /\ ChatTurn'
  BY <1>0, EmptySeq DEF ChatInv, ChatTypeOK, ChatTurn, Chat!Calling
<1>2. ChatOpened' /\ Chat!StreamsAgree'
  BY <1>0 DEF ChatInv, ChatOpened, Chat!StreamsAgree, Chat!Turns
<1>3. \A d \in Clients :
         IF d = c
         THEN mine'[d] = 0 /\ box'[d] = << >> /\ copied'[d] = << >> /\ shown'[d] = << >>
         ELSE /\ mine'[d] = mine[d] /\ box'[d] = box[d]
              /\ copied'[d] = copied[d] /\ shown'[d] = shown[d]
  BY <1>0 DEF ChatInv, ChatTypeOK
<1>4. ChatOwned' /\ ChatCopied'
  <2>1. \A d \in Clients : mine'[d] # 0 => mine'[d] = mine[d] /\ d # c
    BY <1>3
  <2> QED
    BY <1>0, <1>3, <2>1 DEF ChatInv, ChatOwned, ChatCopied
<1>5. Chat!NothingLost'
  BY <1>0, <1>3 DEF ChatInv, Chat!NothingLost
<1> QED
  BY <1>1, <1>2, <1>4, <1>5 DEF ChatInv

LEMMA ChatStepInv ==
    ASSUME ChatInv, [Chat!Next]_(Chat!vars)
    PROVE  ChatInv'
<1>1. CASE \E c \in Clients :
              \/ Chat!Send(c) \/ Chat!Lock(c) \/ Chat!Put(c) \/ Chat!Ack(c)
              \/ Chat!ReadMessages(c) \/ Chat!PutMessage(c)
              \/ Chat!CollectCopy(c) \/ Chat!CollectClear(c) \/ Chat!Restart(c)
  BY <1>1, ChatSendInv, ChatLockInv, ChatPutInv, ChatAckInv, ChatReadMessagesInv, ChatPutMessageInv,
     ChatCollectCopyInv, ChatCollectClearInv, ChatRestartInv
<1>2. CASE \E i \in DOMAIN streams : Chat!ReaderGone(i)
  BY <1>2, ChatReaderGoneInv
<1>3. CASE UNCHANGED Chat!vars
  BY <1>3 DEF Chat!vars, ChatInv, ChatTypeOK, ChatTurn, Chat!Calling, ChatOpened, ChatOwned, ChatCopied, Chat!StreamsAgree,
              Chat!NothingLost, Chat!Turns
<1> QED
  BY <1>1, <1>2, <1>3 DEF Chat!Next

LEMMA ChatAlwaysInv == SmallSpec => []ChatInv
<1>1. SmallInit => ChatInv
  BY ChatInitInv DEF SmallInit
<1>2. ChatInv /\ [SmallNext]_allVars => ChatInv'
  <2>1. [SmallNext]_allVars => [Chat!Next]_(Chat!vars)
    BY DEF SmallNext, RingRuns, OnceRuns, ChatRuns, RumourRuns, ProxyRuns, PingsRun, RaftRuns, FilesRun,
           allVars, chatVars, Chat!vars
  <2> QED
    BY <2>1, ChatStepInv
<1> QED
  BY <1>1, <1>2, PTL DEF SmallSpec

-----------------------------------------------------------------------------
\* However many clients there are and however their calls interleave, every stream
\* of server.py holds the messages whose turn came after it was opened, in the one
\* order of the turns.
THEOREM StreamsAgreeHolds == SmallSpec => []StreamsAgree
<1>1. ChatInv => StreamsAgree
  BY DEF ChatInv, StreamsAgree
<1> QED
  BY <1>1, ChatAlwaysInv, PTL

\* PostBox and the stream of its client lose nothing and repeat nothing, however
\* the consumer thread, the user and restarts interleave.
THEOREM NothingLostHolds == SmallSpec => []NothingLost
<1>1. ChatInv => NothingLost
  BY DEF ChatInv, NothingLost
<1> QED
  BY <1>1, ChatAlwaysInv, PTL

-----------------------------------------------------------------------------
(* The gossip processes *)

\* What a process has handed over follows from whether it is informed and stopped.
RumourSaid(p) ==
    IF p \notin informed THEN << >>
    ELSE IF Rumour!Pull \/ p \in stopped THEN <<"DELIVER", "STOPPED">> ELSE <<"DELIVER">>

RumourInv ==
    /\ impl \in Rumour!Impls
    /\ stopped \subseteq informed
    /\ outbox = [p \in Procs |-> RumourSaid(p)]

-----------------------------------------------------------------------------
\* << >> before a sequence and STOPPED after DELIVER.
LEMMA RumourWords ==
    /\ << >> \o <<"DELIVER">> = <<"DELIVER">>
    /\ << >> \o <<"DELIVER", "STOPPED">> = <<"DELIVER", "STOPPED">>
    /\ Append(<<"DELIVER">>, "STOPPED") = <<"DELIVER", "STOPPED">>
<1> DEFINE W == {"DELIVER", "STOPPED"}
           both == <<"DELIVER", "STOPPED">>
<1>1. <<"DELIVER">> \in Seq(W) /\ both \in Seq(W)
  OBVIOUS
<1>2. /\ Append(<<"DELIVER">>, "STOPPED") \in Seq(W)
      /\ Len(Append(<<"DELIVER">>, "STOPPED")) = 2
      /\ \A i \in 1 .. 2 : Append(<<"DELIVER">>, "STOPPED")[i] = both[i]
  BY <1>1, AppendProperties
<1>3. Append(<<"DELIVER">>, "STOPPED") = both
  <2>1. Len(both) = 2
    OBVIOUS
  <2> QED
    BY <1>1, <1>2, <2>1, SeqEqual
<1> QED
  BY <1>1, <1>3, ConcatEmptySeq

LEMMA RumourInitInv == Rumour!Init => RumourInv
  BY DEF Rumour!Init, RumourInv, RumourSaid, Rumour!Announcement

LEMMA RumourDeliverInv ==
    ASSUME RumourInv, NEW p, p \notin informed, Rumour!Deliver(p), UNCHANGED impl
    PROVE  RumourInv'
<1>1. /\ informed' = informed \cup {p} /\ UNCHANGED <<stopped, impl>>
      /\ outbox' = [outbox EXCEPT ![p] = @ \o Rumour!Announcement]
      /\ p \notin stopped
  BY DEF Rumour!Deliver, RumourInv
<1>2. p \in Procs => outbox[p] = << >>
  BY DEF RumourInv, RumourSaid
<1>3. << >> \o Rumour!Announcement = Rumour!Announcement
  BY RumourWords DEF Rumour!Announcement
<1>4. RumourSaid(p)' = Rumour!Announcement
  BY <1>1 DEF RumourSaid, Rumour!Announcement, Rumour!Pull
<1>5. \A q \in Procs \ {p} : RumourSaid(q)' = RumourSaid(q)
  BY <1>1 DEF RumourSaid, Rumour!Pull
<1>6. outbox' = [q \in Procs |-> RumourSaid(q)']
  BY <1>1, <1>2, <1>3, <1>4, <1>5 DEF RumourInv
<1> QED
  BY <1>1, <1>6 DEF RumourInv

LEMMA RumourStopInv ==
    ASSUME RumourInv, NEW p \in informed, impl = "push_pull_stop", Rumour!Stop(p), UNCHANGED impl
    PROVE  RumourInv'
<1>1. /\ p \notin stopped /\ stopped' = stopped \cup {p} /\ UNCHANGED <<informed, impl>>
      /\ outbox' = [outbox EXCEPT ![p] = Append(@, "STOPPED")]
      /\ ~Rumour!Pull
  BY DEF Rumour!Stop, Rumour!MayStop, Rumour!Pull
<1>2. p \in Procs => outbox[p] = <<"DELIVER">>
  BY <1>1 DEF RumourInv, RumourSaid
<1>3. RumourSaid(p)' = <<"DELIVER", "STOPPED">>
  BY <1>1 DEF RumourSaid
<1>4. \A q \in Procs \ {p} : RumourSaid(q)' = RumourSaid(q)
  BY <1>1 DEF RumourSaid, Rumour!Pull
<1>5. outbox' = [q \in Procs |-> RumourSaid(q)']
  BY <1>1, <1>2, <1>3, <1>4, RumourWords DEF RumourInv
<1> QED
  BY <1>1, <1>5 DEF RumourInv

LEMMA RumourRestInv ==
    ASSUME RumourInv, UNCHANGED <<impl, informed, stopped, outbox>>
    PROVE  RumourInv'
  BY DEF RumourInv, RumourSaid, Rumour!Pull

LEMMA RumourStepInv ==
    ASSUME RumourInv, [Rumour!Next]_(Rumour!vars)
    PROVE  RumourInv'
<1>1. CASE Rumour!Timer
  BY <1>1, RumourRestInv DEF Rumour!Timer, Rumour!OnTimer
<1>2. ASSUME NEW stops \in BOOLEAN, Rumour!OnMessage(stops)
      PROVE  RumourInv'
  <2>1. PICK x \in net : (Rumour!OnRequest(x) \/ Rumour!OnResponse(x, stops)) /\ UNCHANGED impl
    BY <1>2 DEF Rumour!OnMessage
  <2>2. \/ x.to \notin informed /\ Rumour!Deliver(x.to)
        \/ x.to \in informed /\ impl = "push_pull_stop" /\ Rumour!Stop(x.to)
        \/ Rumour!Rest
    BY <2>1 DEF Rumour!OnRequest, Rumour!OnResponse, Rumour!Heard
  <2> QED
    BY <2>1, <2>2, RumourDeliverInv, RumourStopInv, RumourRestInv DEF Rumour!Rest
<1>3. CASE Rumour!Lose \/ Rumour!Round \/ UNCHANGED Rumour!vars
  BY <1>3, RumourRestInv DEF Rumour!Lose, Rumour!Round, Rumour!vars
<1> QED
  BY <1>1, <1>2, <1>3 DEF Rumour!Next

LEMMA RumourAlwaysInv == SmallSpec => []RumourInv
<1>1. SmallInit => RumourInv
  BY RumourInitInv DEF SmallInit
<1>2. RumourInv /\ [SmallNext]_allVars => RumourInv'
  <2>1. [SmallNext]_allVars => [Rumour!Next]_(Rumour!vars)
    BY DEF SmallNext, RingRuns, OnceRuns, ChatRuns, RumourRuns, ProxyRuns, PingsRun, RaftRuns, FilesRun,
           allVars, rumourVars, Rumour!vars
  <2> QED
    BY <2>1, RumourStepInv
<1> QED
  BY <1>1, <1>2, PTL DEF SmallSpec

-----------------------------------------------------------------------------
\* In all four implementations a process tells its user of the information once,
\* and that it has stopped at most once and afterwards, whatever it receives.
THEOREM OutboxAsReadHolds == SmallSpec => []OutboxAsRead
<1>1. RumourInv => OutboxAsRead
  BY DEF RumourInv, OutboxAsRead, Rumour!OutboxAsRead, RumourSaid
<1> QED
  BY <1>1, RumourAlwaysInv, PTL

\* Whose timer is set: pull asks until it has the information, push_pull_stop until it
\* stops, the others for ever.
RumourAsks ==
    timers = CASE Rumour!Pull -> Procs \ informed
               [] impl = "push_pull_stop" -> Procs \ stopped
               [] OTHER -> Procs

LEMMA RumourStepAsks ==
    ASSUME RumourInv, RumourAsks, [Rumour!Next]_(Rumour!vars)
    PROVE  RumourAsks'
<1>1. ASSUME UNCHANGED <<impl, informed, stopped, timers>>
      PROVE  RumourAsks'
  BY <1>1 DEF RumourAsks, Rumour!Pull
<1>2. CASE Rumour!Timer
  BY <1>1, <1>2 DEF Rumour!Timer, Rumour!OnTimer
<1>3. ASSUME NEW stops \in BOOLEAN, Rumour!OnMessage(stops)
      PROVE  RumourAsks'
  <2>1. PICK x \in net : (Rumour!OnRequest(x) \/ Rumour!OnResponse(x, stops)) /\ UNCHANGED impl
    BY <1>3 DEF Rumour!OnMessage
  <2>2. \/ x.to \notin informed /\ Rumour!Deliver(x.to)
        \/ x.to \in informed /\ impl = "push_pull_stop" /\ Rumour!Stop(x.to)
        \/ Rumour!Rest
    BY <2>1 DEF Rumour!OnRequest, Rumour!OnResponse, Rumour!Heard
  <2>3. CASE Rumour!Deliver(x.to)
    BY <2>1, <2>3 DEF Rumour!Deliver, Rumour!TimersLeft, RumourAsks, Rumour!Pull
  <2>4. CASE impl = "push_pull_stop" /\ Rumour!Stop(x.to)
    BY <2>1, <2>4 DEF Rumour!Stop, RumourAsks, Rumour!Pull
  <2> QED
    BY <1>1, <2>1, <2>2, <2>3, <2>4 DEF Rumour!Rest
<1>4. CASE Rumour!Lose \/ Rumour!Round \/ UNCHANGED Rumour!vars
  BY <1>1, <1>4 DEF Rumour!Lose, Rumour!Round, Rumour!vars
<1> QED
  BY <1>2, <1>3, <1>4 DEF Rumour!Next

\* In all four, whoever has not got the information goes on asking or being asked, so
\* none comes to its end before everybody has it, whatever is lost.
THEOREM EndsInformed ==
    SmallSpec => [](Procs \ informed \subseteq timers /\ (timers = {} => Procs \subseteq informed))
<1>1. RumourInv /\ RumourAsks =>
          Procs \ informed \subseteq timers /\ (timers = {} => Procs \subseteq informed)
  BY DEF RumourInv, RumourAsks
<1>2. SmallInit => RumourAsks
  <2>1. ASSUME Rumour!Init
        PROVE  RumourAsks
    <3>1. informed = {Origin} /\ Procs \ stopped = Procs
          /\ timers = IF Rumour!Pull THEN Procs \ informed ELSE Procs
      BY <2>1 DEF Rumour!Init
    <3> QED
      BY <3>1 DEF RumourAsks, Rumour!Pull
  <2> QED
    BY <2>1 DEF SmallInit
<1>3. RumourInv /\ RumourAsks /\ [SmallNext]_allVars => RumourAsks'
  <2>1. [SmallNext]_allVars => [Rumour!Next]_(Rumour!vars)
    BY DEF SmallNext, RingRuns, OnceRuns, ChatRuns, RumourRuns, ProxyRuns, PingsRun, RaftRuns, FilesRun,
           allVars, rumourVars, Rumour!vars
  <2> QED
    BY <2>1, RumourStepAsks
<1> QED
  BY <1>1, <1>2, <1>3, RumourAlwaysInv, PTL DEF SmallSpec

-----------------------------------------------------------------------------
(* Ping-pong *)

PingsTypeOK == retry \in BOOLEAN /\ asked \in Nat /\ answers \in Nat /\ timer \in BOOLEAN

\* One PING at a time is open.  With repetition it is remembered, and the timer set, as
\* long as it is; without, it or its PONG is under way, and nothing else is.
PingsInv ==
    /\ PingsTypeOK
    /\ answers = asked \/ answers + 1 = asked
    /\ retry => ping = (IF answers = asked THEN 0 ELSE asked) /\ (answers # asked => timer)
    /\ ~retry => /\ ping = 0 /\ ~timer /\ pings \cap pongs = {}
                 /\ pings \cup pongs = IF answers = asked THEN {} ELSE {asked}

LEMMA PingsStepInv ==
    ASSUME PingsInv, [Pings!Next]_(Pings!vars)
    PROVE  PingsInv'
<1>1. CASE Pings!OnLocalMessage
  <2>1. CASE retry
    BY <1>1, <2>1 DEF Pings!OnLocalMessage, PingsInv, PingsTypeOK
  <2>2. CASE ~retry
    BY <1>1, <2>2 DEF Pings!OnLocalMessage, PingsInv, PingsTypeOK
  <2> QED
    BY <2>1, <2>2
<1>2. CASE Pings!OnTimer
  <2>1. timer /\ retry /\ UNCHANGED <<retry, asked, answers, ping, pongs>>
    BY <1>2 DEF Pings!OnTimer, PingsInv
  <2>2. CASE ping # 0
    <3>1. timer' = TRUE
      BY <1>2, <2>2 DEF Pings!OnTimer, Pings!SetAgain
    <3> QED
      BY <2>1, <3>1 DEF PingsInv, PingsTypeOK
  <2>3. CASE ping = 0
    <3>1. timer' = FALSE /\ answers = asked
      BY <1>2, <2>1, <2>3 DEF Pings!OnTimer, PingsInv, PingsTypeOK
    <3> QED
      BY <2>1, <3>1 DEF PingsInv, PingsTypeOK
  <2> QED
    BY <2>2, <2>3
<1>3. ASSUME NEW v, Pings!OnPing(v)
      PROVE  PingsInv'
  BY <1>3 DEF Pings!OnPing, PingsInv, PingsTypeOK
<1>4. ASSUME NEW v, Pings!OnPong(v)
      PROVE  PingsInv'
  <2>1. CASE retry
    BY <1>4, <2>1 DEF Pings!OnPong, Pings!Expected, PingsInv, PingsTypeOK
  <2>2. CASE ~retry
    BY <1>4, <2>2 DEF Pings!OnPong, Pings!Expected, PingsInv, PingsTypeOK
  <2> QED
    BY <2>1, <2>2
<1>5. ASSUME NEW v, Pings!Lose(v)
      PROVE  PingsInv'
  BY <1>5 DEF Pings!Lose, PingsInv, PingsTypeOK
<1>6. CASE UNCHANGED Pings!vars
  BY <1>6 DEF Pings!vars, PingsInv, PingsTypeOK
<1> QED
  BY <1>1, <1>2, <1>3, <1>4, <1>5, <1>6 DEF Pings!Next, Pings!OnMessage

\* The user never gets more PONGs than he sent PINGs, though with repetition there are
\* copies of both under way, and a PING that is not answered is not forgotten: it goes
\* out again when the timer fires, or nothing was lost and it or its PONG is under way.
THEOREM PingNotForgotten ==
    SmallSpec => [](/\ answers = asked \/ answers + 1 = asked
                    /\ answers # asked => IF retry THEN timer /\ ping = asked
                                          ELSE asked \in pings \cup pongs)
<1>1. PingsInv => /\ answers = asked \/ answers + 1 = asked
                  /\ answers # asked => IF retry THEN timer /\ ping = asked
                                        ELSE asked \in pings \cup pongs
  BY DEF PingsInv
<1>2. SmallInit => PingsInv
  <2>1. ASSUME Pings!Init
        PROVE  PingsInv
    <3>1. /\ retry \in BOOLEAN /\ asked = 0 /\ answers = 0 /\ ping = 0 /\ timer = FALSE
          /\ pings \cap pongs = {} /\ pings \cup pongs = {}
      BY <2>1 DEF Pings!Init
    <3> QED
      BY <3>1 DEF PingsInv, PingsTypeOK
  <2> QED
    BY <2>1 DEF SmallInit
<1>3. PingsInv /\ [SmallNext]_allVars => PingsInv'
  <2>1. [SmallNext]_allVars => [Pings!Next]_(Pings!vars)
    BY DEF SmallNext, RingRuns, OnceRuns, ChatRuns, RumourRuns, ProxyRuns, PingsRun, RaftRuns, FilesRun,
           allVars, pingVars, Pings!vars
  <2> QED
    BY <2>1, PingsStepInv
<1> QED
  BY <1>1, <1>2, <1>3, PTL DEF SmallSpec

-----------------------------------------------------------------------------
(* The replicated map *)

RaftValues == {Missing} \cup {q.val : q \in Queries}
RaftSnaps == [value : RaftValues, index : Nat]

RaftTypeOK ==
    /\ log \in Seq(Queries) /\ leaves \in Seq(RaftValues)
    /\ m \in [Servers -> RaftValues] /\ applied \in [Servers -> Nat]
    /\ pending \in [Servers -> SUBSET RaftSnaps]
    /\ stable \in [Servers -> RaftSnaps]

\* leaves is what its name says, one entry for each query and one before them.
RaftChain ==
    /\ Len(leaves) = Len(log) + 1
    /\ \A n \in 1 .. Len(log) : leaves[n + 1] = Raft!After(leaves[n], log[n])

\* Every snapshot, persisted or not, is what the log leaves at its index.
RaftSnapshotsFollow ==
    \A s \in Servers : \A p \in pending[s] \cup {stable[s]} :
        p.index <= Len(log) /\ p.value = leaves[p.index + 1]

RaftBehind == \A s \in Servers : applied[s] <= Len(log)

RaftInv == RaftTypeOK /\ RaftChain /\ RaftSnapshotsFollow /\ RaftBehind /\ Raft!MapFollowsLog

-----------------------------------------------------------------------------
LEMMA RaftInitInv == Raft!Init => RaftInv
<1> SUFFICES ASSUME Raft!Init PROVE RaftInv
  OBVIOUS
<1>1. /\ log = << >> /\ leaves = <<Missing>> /\ restores = 0
      /\ m = [s \in Servers |-> Missing] /\ applied = [s \in Servers |-> 0]
      /\ pending = [s \in Servers |-> {}]
      /\ stable = [s \in Servers |-> Raft!Snap(Missing, 0)]
  BY DEF Raft!Init
<1>2. Raft!Snap(Missing, 0) \in RaftSnaps /\ Raft!Snap(Missing, 0).value = Missing /\ Raft!Snap(Missing, 0).index = 0
  BY DEF Raft!Snap, RaftSnaps, RaftValues
<1>3. Len(log) = 0 /\ Len(leaves) = 1 /\ leaves[1] = Missing /\ leaves \in Seq(RaftValues)
  BY <1>1 DEF RaftValues
<1>4. RaftTypeOK
  BY <1>1, <1>2, <1>3, EmptySeq DEF RaftTypeOK, RaftValues
<1>5. RaftChain /\ RaftSnapshotsFollow /\ RaftBehind /\ Raft!MapFollowsLog
  BY <1>1, <1>2, <1>3 DEF RaftChain, RaftSnapshotsFollow, RaftBehind, Raft!MapFollowsLog
<1> QED
  BY <1>4, <1>5 DEF RaftInv

LEMMA RaftQueryInv ==
    ASSUME RaftInv, NEW q \in Queries, Raft!Query(q)
    PROVE  RaftInv'
<1>a. PICK new : new = Raft!After(leaves[Len(leaves)], q)
  OBVIOUS
<1>0. /\ log' = Append(log, q) /\ leaves' = Append(leaves, new)
      /\ UNCHANGED <<m, applied, pending, stable>>
  BY <1>a DEF Raft!Query
<1>1. /\ log \in Seq(Queries) /\ leaves \in Seq(RaftValues) /\ Len(log) \in Nat
      /\ Len(leaves) = Len(log) + 1 /\ leaves[Len(leaves)] \in RaftValues
  BY LenProperties, ElementOfSeq DEF RaftInv, RaftTypeOK, RaftChain
<1>2. new \in RaftValues
  BY <1>a, <1>1 DEF Raft!After, RaftValues
<1>3. /\ log' \in Seq(Queries) /\ Len(log') = Len(log) + 1 /\ log'[Len(log) + 1] = q
      /\ \A n \in 1 .. Len(log) : log'[n] = log[n]
  BY <1>0, <1>1, AppendProperties
<1>4. /\ leaves' \in Seq(RaftValues) /\ Len(leaves') = Len(log) + 2
      /\ leaves'[Len(log) + 2] = new
      /\ \A n \in 1 .. Len(log) + 1 : leaves'[n] = leaves[n]
  <2>1. /\ leaves' \in Seq(RaftValues) /\ Len(leaves') = Len(leaves) + 1
        /\ leaves'[Len(leaves) + 1] = new
        /\ \A n \in 1 .. Len(leaves) : leaves'[n] = leaves[n]
    BY <1>0, <1>1, <1>2, AppendProperties
  <2> QED
    BY <1>1, <2>1
<1>5. RaftTypeOK'
  BY <1>0, <1>3, <1>4 DEF RaftInv, RaftTypeOK
<1>6. RaftChain'
  <2> SUFFICES ASSUME NEW n \in 1 .. Len(log) + 1
               PROVE  leaves'[n + 1] = Raft!After(leaves'[n], log'[n])
    BY <1>1, <1>3, <1>4 DEF RaftChain
  <2>1. CASE n = Len(log) + 1
    BY <1>a, <1>1, <1>3, <1>4, <2>1
  <2>2. CASE n \in 1 .. Len(log)
    BY <1>1, <1>3, <1>4, <2>2 DEF RaftInv, RaftChain
  <2> QED
    BY <1>1, <2>1, <2>2
<1>7. RaftSnapshotsFollow'
  <2>1. \A s \in Servers : \A p \in pending[s] \cup {stable[s]} : p.index \in Nat
    BY DEF RaftInv, RaftTypeOK, RaftSnaps
  <2> QED
    BY <1>0, <1>1, <1>3, <1>4, <2>1 DEF RaftInv, RaftSnapshotsFollow
<1>8. RaftBehind' /\ Raft!MapFollowsLog'
  <2>1. \A s \in Servers : applied[s] \in Nat
    BY DEF RaftInv, RaftTypeOK
  <2> QED
    BY <1>0, <1>1, <1>3, <1>4, <2>1 DEF RaftInv, RaftBehind, Raft!MapFollowsLog
<1> QED
  BY <1>5, <1>6, <1>7, <1>8 DEF RaftInv

LEMMA RaftApplyInv ==
    ASSUME RaftInv, NEW s \in Servers, Raft!Apply(s)
    PROVE  RaftInv'
<1>a. PICK k, new : k = applied[s] + 1 /\ new = Raft!After(m[s], log[k])
  OBVIOUS
<1>0. /\ applied[s] < Len(log)
      /\ applied' = [applied EXCEPT ![s] = k]
      /\ m' = [m EXCEPT ![s] = new]
      /\ UNCHANGED <<log, leaves, pending, stable>>
  BY <1>a DEF Raft!Apply, RaftInv, RaftTypeOK
<1>1. log \in Seq(Queries) /\ Len(log) \in Nat /\ k \in 1 .. Len(log) /\ k \in Nat
  BY <1>a, <1>0, LenProperties DEF RaftInv, RaftTypeOK
<1>2. new \in RaftValues
  <2>1. log[k] \in Queries /\ m[s] \in RaftValues
    BY <1>1, ElementOfSeq DEF RaftInv, RaftTypeOK
  <2> QED
    BY <1>a, <2>1 DEF Raft!After, RaftValues
<1>3. leaves[k + 1] = new
  BY <1>a, <1>1 DEF RaftInv, RaftChain, Raft!MapFollowsLog
<1>4. \A t \in Servers :
         /\ applied'[t] = IF t = s THEN k ELSE applied[t]
         /\ m'[t] = IF t = s THEN new ELSE m[t]
  BY <1>0 DEF RaftInv, RaftTypeOK
<1>5. RaftTypeOK'
  BY <1>0, <1>1, <1>2 DEF RaftInv, RaftTypeOK
<1>6. RaftChain' /\ RaftSnapshotsFollow'
  BY <1>0 DEF RaftInv, RaftChain, RaftSnapshotsFollow
<1>7. RaftBehind' /\ Raft!MapFollowsLog'
  BY <1>0, <1>1, <1>3, <1>4 DEF RaftInv, RaftBehind, Raft!MapFollowsLog
<1> QED
  BY <1>5, <1>6, <1>7 DEF RaftInv

LEMMA RaftSnapshotInv ==
    ASSUME RaftInv, NEW s \in Servers, Raft!Snapshot(s)
    PROVE  RaftInv'
<1>a. PICK p : p = Raft!Snap(m[s], applied[s])
  OBVIOUS
<1>0. /\ pending' = [pending EXCEPT ![s] = {p}]
      /\ UNCHANGED <<log, leaves, m, applied, stable>>
  BY <1>a DEF Raft!Snapshot
<1>1. p \in RaftSnaps /\ p.value = m[s] /\ p.index = applied[s]
  BY <1>a DEF Raft!Snap, RaftSnaps, RaftInv, RaftTypeOK
<1>2. RaftTypeOK' /\ RaftChain' /\ RaftBehind' /\ Raft!MapFollowsLog'
  BY <1>0, <1>1 DEF RaftInv, RaftTypeOK, RaftChain, RaftBehind, Raft!MapFollowsLog
<1>3. \A t \in Servers : pending'[t] = IF t = s THEN {p} ELSE pending[t]
  BY <1>0 DEF RaftInv, RaftTypeOK
<1>4. RaftSnapshotsFollow'
  BY <1>0, <1>1, <1>3 DEF RaftInv, RaftSnapshotsFollow, RaftBehind, Raft!MapFollowsLog
<1> QED
  BY <1>2, <1>4 DEF RaftInv

LEMMA RaftPersistInv ==
    ASSUME RaftInv, NEW s \in Servers, Raft!Persist(s)
    PROVE  RaftInv'
<1>0. PICK p \in pending[s] : stable' = [stable EXCEPT ![s] = p]
  BY DEF Raft!Persist, Raft!Written
<1>1. /\ pending' = [pending EXCEPT ![s] = {}]
      /\ UNCHANGED <<log, leaves, m, applied>>
  BY DEF Raft!Persist
<1>2. RaftTypeOK' /\ RaftChain' /\ RaftBehind' /\ Raft!MapFollowsLog'
  BY <1>0, <1>1 DEF RaftInv, RaftTypeOK, RaftChain, RaftBehind, Raft!MapFollowsLog
<1>3. \A t \in Servers :
         /\ pending'[t] = IF t = s THEN {} ELSE pending[t]
         /\ stable'[t] = IF t = s THEN p ELSE stable[t]
  BY <1>0, <1>1 DEF RaftInv, RaftTypeOK
<1>4. RaftSnapshotsFollow'
  BY <1>0, <1>1, <1>3 DEF RaftInv, RaftSnapshotsFollow
<1> QED
  BY <1>2, <1>4 DEF RaftInv

\* A restart and an installed snapshot, from which a server goes on with its log.
LEMMA RaftRestoreInv ==
    ASSUME RaftInv, NEW s \in Servers, NEW t \in Servers, Raft!Restore(s, stable[t]),
           pending' = [pending EXCEPT ![s] = {}],
           stable' = [stable EXCEPT ![s] = stable[t]],
           UNCHANGED <<log, leaves>>
    PROVE  RaftInv'
<1>0. /\ m' = [m EXCEPT ![s] = stable[t].value]
      /\ applied' = [applied EXCEPT ![s] = stable[t].index]
  BY DEF Raft!Restore
<1>1. /\ stable[t] \in RaftSnaps /\ stable[t].value \in RaftValues /\ stable[t].index \in Nat
      /\ stable[t].index <= Len(log) /\ stable[t].value = leaves[stable[t].index + 1]
  BY DEF RaftInv, RaftTypeOK, RaftSnaps, RaftSnapshotsFollow
<1>2. RaftTypeOK' /\ RaftChain'
  BY <1>0, <1>1 DEF RaftInv, RaftTypeOK, RaftChain
<1>3. \A u \in Servers :
         /\ m'[u] = IF u = s THEN stable[t].value ELSE m[u]
         /\ applied'[u] = IF u = s THEN stable[t].index ELSE applied[u]
         /\ pending'[u] = IF u = s THEN {} ELSE pending[u]
         /\ stable'[u] = IF u = s THEN stable[t] ELSE stable[u]
  BY <1>0 DEF RaftInv, RaftTypeOK
<1>4. RaftSnapshotsFollow'
  BY <1>1, <1>3 DEF RaftInv, RaftSnapshotsFollow
<1>5. RaftBehind' /\ Raft!MapFollowsLog'
  BY <1>1, <1>3 DEF RaftInv, RaftBehind, Raft!MapFollowsLog
<1> QED
  BY <1>2, <1>4, <1>5 DEF RaftInv

LEMMA RaftStepInv ==
    ASSUME RaftInv, [Raft!Next]_(Raft!vars)
    PROVE  RaftInv'
<1>1. CASE \E q \in Queries : Raft!Query(q)
  BY <1>1, RaftQueryInv
<1>2. CASE \E s \in Servers : Raft!Apply(s) \/ Raft!Snapshot(s) \/ Raft!Persist(s)
  BY <1>2, RaftApplyInv, RaftSnapshotInv, RaftPersistInv
<1>3. ASSUME NEW s \in Servers, Raft!Restart(s)
      PROVE  RaftInv'
  <2>1. stable' = [stable EXCEPT ![s] = stable[s]]
    BY <1>3 DEF Raft!Restart, RaftInv, RaftTypeOK
  <2> QED
    BY <1>3, <2>1, RaftRestoreInv DEF Raft!Restart
<1>4. ASSUME NEW s \in Servers, NEW t \in Servers, Raft!Install(s, t)
      PROVE  RaftInv'
  BY <1>4, RaftRestoreInv DEF Raft!Install
<1>5. CASE UNCHANGED Raft!vars
  BY <1>5 DEF Raft!vars, RaftInv, RaftTypeOK, RaftChain, RaftSnapshotsFollow, RaftBehind, Raft!MapFollowsLog
<1> QED
  BY <1>1, <1>2, <1>3, <1>4, <1>5 DEF Raft!Next

LEMMA RaftAlwaysInv == SmallSpec => []RaftInv
<1>1. SmallInit => RaftInv
  BY RaftInitInv DEF SmallInit
<1>2. RaftInv /\ [SmallNext]_allVars => RaftInv'
  <2>1. [SmallNext]_allVars => [Raft!Next]_(Raft!vars)
    BY DEF SmallNext, RingRuns, OnceRuns, ChatRuns, RumourRuns, ProxyRuns, PingsRun, RaftRuns, FilesRun,
           allVars, raftVars, Raft!vars
  <2> QED
    BY <2>1, RaftStepInv
<1> QED
  BY <1>1, <1>2, PTL DEF SmallSpec

-----------------------------------------------------------------------------
\* Whatever queries are committed, retried or lost, and whichever snapshots a server
\* takes, installs or restarts from, Apply leaves in kv.m what the log leaves.
THEOREM MapFollowsLogHolds == SmallSpec => []MapFollowsLog
<1>1. RaftInv => MapFollowsLog
  BY DEF RaftInv, MapFollowsLog
<1> QED
  BY <1>1, RaftAlwaysInv, PTL

-----------------------------------------------------------------------------
(* Finite sets *)

\* R is a linear order of S.
Orders(R, S) ==
    /\ \A x, y \in S : <<x, y>> \in R \/ <<y, x>> \in R
    /\ \A x, y, z \in S : <<x, y>> \in R /\ <<y, z>> \in R => <<x, z>> \in R

\* A finite set that is not empty and linearly ordered has a first element.
LEMMA FirstExists ==
    ASSUME NEW S, IsFiniteSet(S), S # {}, NEW R, Orders(R, S)
    PROVE  \E x \in S : \A y \in S : <<x, y>> \in R
<1> DEFINE First(T, x) == x \in T /\ \A y \in T : <<x, y>> \in R
           Without == {T \in SUBSET S : T # {} /\ \A x \in T : ~First(T, x)}
           Order == StrictSubsetOrdering(S)
<1>1. ASSUME Without # {} PROVE FALSE
  <2>2. Without \subseteq FiniteSubsetsOf(S)
    BY FS_Subset DEF FiniteSubsetsOf
  <2>3. IsWellFoundedOn(Order, FiniteSubsetsOf(S))
    BY FS_StrictSubsetOrderingWellFounded
  <2>4. PICK T \in Without : \A U \in Without : <<U, T>> \notin Order
    <3> HIDE DEF Without, Order
    <3>. QED BY <1>1, <2>2, <2>3, WFMin
  <2>5. PICK x \in T : TRUE
    OBVIOUS
  <2>6. <<T \ {x}, T>> \in Order
    BY <2>5 DEF StrictSubsetOrdering
  <2>7. T \ {x} \notin Without
    BY <2>4, <2>6
  <2>8. CASE T = {x}
    BY <2>8, <2>5 DEF Orders
  <2>9. CASE T # {x}
    <3>1. PICK z \in T \ {x} : First(T \ {x}, z)
      BY <2>5, <2>7, <2>9
    <3>2. CASE <<z, x>> \in R
      BY <2>4, <3>1, <3>2
    <3>3. CASE <<x, z>> \in R
      <4>1. \A y \in T : <<x, y>> \in R
        BY <2>5, <3>1, <3>3 DEF Orders
      <4>. QED BY <2>4, <2>5, <4>1
    <3>. QED BY <2>5, <3>1, <3>2, <3>3 DEF Orders
  <2>. QED BY <2>8, <2>9
<1>. QED BY <1>1

LEMMA LeastExists ==
    ASSUME NEW S, S \subseteq Nat, IsFiniteSet(S), S # {}
    PROVE  \E x \in S : \A y \in S : x <= y
<1> DEFINE R == {p \in S \X S : p[1] <= p[2]}
<1>1. \A x, y \in S : <<x, y>> \in R <=> x <= y
  OBVIOUS
<1>2. Orders(R, S)
  <2> HIDE DEF R
  <2>. QED BY <1>1 DEF Orders
<1> HIDE DEF R
<1>. QED BY <1>1, <1>2, FirstExists

LEMMA GreatestExists ==
    ASSUME NEW S, S \subseteq Nat, IsFiniteSet(S), S # {}
    PROVE  \E x \in S : \A y \in S : x >= y
<1> DEFINE R == {p \in S \X S : p[1] >= p[2]}
<1>1. \A x, y \in S : <<x, y>> \in R <=> x >= y
  OBVIOUS
<1>2. Orders(R, S)
  <2> HIDE DEF R
  <2>. QED BY <1>1 DEF Orders
<1> HIDE DEF R
<1>. QED BY <1>1, <1>2, FirstExists

-----------------------------------------------------------------------------
(* The deque of node names *)

USE KeyStoreAssumption

Distinct == \A a, b \in Names : Hash[a] = Hash[b] => a = b

Ascending(d) == \A i, j \in 1 .. Len(d) : i < j => Hash[d[i]] < Hash[d[j]]

\* One step of the search, for all ranges.
Halving(d, h, F) ==
    [lr \in (DOMAIN d) \X (DOMAIN d) |->
        LET l == lr[1]
            r == lr[2]
            k == (l + r) \div 2 + 1
        IN  IF l = r THEN r
            ELSE IF Hash[d[k]] > h THEN F[<<l, k - 1>>] ELSE F[<<k, r>>]]

LEMMA SearchHalves ==
    ASSUME NEW d, NEW h, NEW F, F = Halving(d, h, F)
    PROVE  \E G : BinSearch(d, h) = G[<<1, Len(d)>>] /\ G = Halving(d, h, G)
<1> DEFINE G == CHOOSE G : G = Halving(d, h, G)
<1>1. G = Halving(d, h, G)
  BY Zenon
<1>2. BinSearch(d, h) = G[<<1, Len(d)>>]
  BY Zenon DEF BinSearch, Halving
<1>. QED BY <1>1, <1>2

\* The middle lies between.
LEMMA MiddleIs ==
    ASSUME NEW l \in Nat, NEW r \in Nat
    PROVE  /\ l < r => (l + r) \div 2 + 1 \in l + 1 .. r
           /\ r < l => (l + r) \div 2 + 1 \in r + 1 .. l
           /\ (l + r) \div 2 + 1 \in Nat
  OBVIOUS

\* The last place whose hash is at most h.
Reached(d, h, g) == \A i \in 1 .. Len(d) : Hash[d[i]] <= h <=> i <= g

LEMMA ReachedExists ==
    ASSUME NEW d \in Seq(Names), Ascending(d), NEW h \in Nat
    PROVE  \E g \in 0 .. Len(d) : Reached(d, h, g)
<1> DEFINE S == {i \in 1 .. Len(d) : Hash[d[i]] <= h}
<1>1. Len(d) \in Nat /\ \A i \in 1 .. Len(d) : d[i] \in Names /\ Hash[d[i]] \in Nat
  BY KeyStoreAssumption
<1>2. CASE S = {}
  <2>1. ASSUME NEW i \in 1 .. Len(d) PROVE ~(Hash[d[i]] <= h) /\ ~(i <= 0)
    BY <1>1, <1>2
  <2>2. 0 \in 0 .. Len(d) /\ Reached(d, h, 0)
    BY <1>1, <2>1 DEF Reached
  <2>. QED BY <2>2
<1>3. CASE S # {}
  <2>1. S \subseteq 1 .. Len(d) /\ IsFiniteSet(1 .. Len(d))
    BY <1>1, FS_Interval
  <2>2. IsFiniteSet(S) /\ S \subseteq Nat
    BY <1>1, <2>1, FS_Subset
  <2>3. PICK g \in S : \A i \in S : g >= i
    BY <1>3, <2>2, GreatestExists
  <2>4. ASSUME NEW i \in 1 .. Len(d), i <= g PROVE Hash[d[i]] <= h
    BY <1>1, <2>3, <2>4 DEF Ascending
  <2>5. ASSUME NEW i \in 1 .. Len(d), Hash[d[i]] <= h PROVE i <= g
    <3>1. i \in S /\ i \in Nat /\ g \in Nat
      BY <1>1, <2>2, <2>3, <2>5
    <3>. QED BY <2>3, <3>1
  <2>6. Reached(d, h, g)
    BY <2>4, <2>5 DEF Reached
  <2>7. g \in 0 .. Len(d)
    BY <1>1, <2>3
  <2>. QED BY <2>6, <2>7
<1>. QED BY <1>2, <1>3

\* The search finds it, whatever h is, if it is not before the first.
LEMMA SearchIs ==
    ASSUME NEW d \in Seq(Names), NEW h \in Nat,
           NEW g \in 1 .. Len(d), Reached(d, h, g)
    PROVE  BinSearch(d, h) = g
<1> DEFINE D == 1 .. Len(d)
           Mid(l, r) == (l + r) \div 2 + 1
           F == [lr \in D \X D |-> IF lr[1] > lr[2] THEN 1
                                   ELSE IF g < lr[1] THEN lr[1]
                                   ELSE IF g > lr[2] THEN lr[2] ELSE g]
<1>1. Len(d) \in Nat /\ DOMAIN d = D /\ \A i \in D : Hash[d[i]] \in Nat
  BY KeyStoreAssumption
<1>2. ASSUME NEW l \in D, NEW r \in D, l # r
      PROVE  /\ Mid(l, r) \in D /\ Mid(l, r) - 1 \in D
             /\ l < r => l < Mid(l, r) /\ Mid(l, r) <= r
             /\ r < l => r < Mid(l, r) /\ Mid(l, r) <= l
             /\ Hash[d[Mid(l, r)]] > h <=> g < Mid(l, r)
  <2>1. PICK k : k = Mid(l, r)
    OBVIOUS
  <2>2. l \in Nat /\ r \in Nat /\ k \in Nat
    BY <1>1, <2>1
  <2>3. (l < r => l < k /\ k <= r) /\ (r < l => r < k /\ k <= l)
    BY <2>1, <2>2, MiddleIs
  <2>4. k \in D /\ k - 1 \in D
    BY <1>1, <1>2, <2>2, <2>3
  <2>5. Hash[d[k]] > h <=> g < k
    BY <1>1, <2>4 DEF Reached
  <2>. QED BY <2>1, <2>3, <2>4, <2>5
<1> HIDE DEF Mid
<1>3. F = Halving(d, h, F)
  <2>0. \A l, r \in D : F[<<l, r>>] = IF l > r THEN 1 ELSE IF g < l THEN l ELSE IF g > r THEN r ELSE g
    BY <1>1
  <2>1. ASSUME NEW l \in D, NEW r \in D
        PROVE  F[<<l, r>>] = IF l = r THEN r
                ELSE IF Hash[d[Mid(l, r)]] > h THEN F[<<l, Mid(l, r) - 1>>] ELSE F[<<Mid(l, r), r>>]
    <3> HIDE DEF F
    <3>0. l \in Nat /\ r \in Nat /\ g \in Nat
      BY <1>1
    <3>1. CASE l = r
      BY <2>0, <3>0, <3>1
    <3>2. CASE l # r
      <4>1. PICK k : k = Mid(l, r)
        OBVIOUS
      <4>2. /\ k \in D /\ k - 1 \in D
            /\ l < r => l < k /\ k <= r
            /\ r < l => r < k /\ k <= l
            /\ Hash[d[k]] > h <=> g < k
        BY <1>2, <3>2, <4>1
      <4>3. CASE g < k
        <5>1. F[<<l, r>>] = F[<<l, k - 1>>]
          <6>1. CASE l < r
            BY <2>0, <3>0, <4>2, <4>3, <6>1
          <6>2. CASE r < l
            BY <2>0, <3>0, <4>2, <4>3, <6>2
          <6>. QED BY <3>0, <3>2, <6>1, <6>2
        <5>. QED BY <3>2, <4>1, <4>2, <4>3, <5>1
      <4>4. CASE ~(g < k)
        <5>1. F[<<l, r>>] = F[<<k, r>>]
          <6>1. CASE l < r
            BY <2>0, <3>0, <4>2, <4>4, <6>1
          <6>2. CASE r < l
            BY <2>0, <3>0, <4>2, <4>4, <6>2
          <6>. QED BY <3>0, <3>2, <6>1, <6>2
        <5>. QED BY <3>2, <4>1, <4>2, <4>4, <5>1
      <4>. QED BY <4>3, <4>4
    <3>. QED BY <3>1, <3>2
  <2>2. ASSUME NEW lr \in D \X D PROVE F[lr] = Halving(d, h, F)[lr]
    <3>1. lr = <<lr[1], lr[2]>> /\ lr[1] \in D /\ lr[2] \in D
      OBVIOUS
    <3> HIDE DEF F
    <3>. QED BY <1>1, <2>1, <3>1 DEF Halving, Mid
  <2>3. F \in [D \X D -> {F[lr] : lr \in D \X D}] /\ Halving(d, h, F) = [lr \in D \X D |-> Halving(d, h, F)[lr]]
    BY <1>1 DEF Halving
  <2>4. F = [lr \in D \X D |-> F[lr]]
    OBVIOUS
  <2> HIDE DEF F
  <2>. QED BY <2>2, <2>3, <2>4
<1>4. PICK G : BinSearch(d, h) = G[<<1, Len(d)>>] /\ G = Halving(d, h, G)
  <2> HIDE DEF F
  <2>. QED BY <1>3, SearchHalves
<1>5. ASSUME NEW l \in D, NEW r \in D
      PROVE  G[<<l, r>>] = IF l = r THEN r
                ELSE IF Hash[d[Mid(l, r)]] > h THEN G[<<l, Mid(l, r) - 1>>] ELSE G[<<Mid(l, r), r>>]
  <2>1. G[<<l, r>>] = Halving(d, h, G)[<<l, r>>]
    BY <1>4
  <2>. QED BY <1>1, <2>1 DEF Halving, Mid
<1> DEFINE Wrong == {w \in 0 .. Len(d) : \E l \in D, r \in D :
                        l <= g /\ g <= r /\ r - l = w /\ G[<<l, r>>] # g}
<1>6. Wrong = {}
  <2>1. SUFFICES ASSUME Wrong # {} PROVE FALSE
    OBVIOUS
  <2>2. IsFiniteSet(Wrong) /\ Wrong \subseteq Nat
    <3>1. IsFiniteSet(0 .. Len(d)) /\ Wrong \subseteq 0 .. Len(d)
      BY <1>1, FS_Interval
    <3>. QED BY <1>1, <3>1, FS_Subset
  <2>3. PICK w \in Wrong : \A y \in Wrong : w <= y
    <3> HIDE DEF Wrong
    <3>. QED BY <2>1, <2>2, LeastExists
  <2>4. PICK l \in D, r \in D : l <= g /\ g <= r /\ r - l = w /\ G[<<l, r>>] # g
    BY <2>3
  <2>5. l # r
    <3>1. l = r => G[<<l, r>>] = r
      BY <1>5
    <3>2. l \in Nat /\ r \in Nat /\ g \in Nat
      BY <1>1
    <3>3. l = r => g = r
      BY <2>4, <3>2
    <3>. QED BY <2>4, <3>1, <3>3
  <2>6. PICK k : k = Mid(l, r)
    OBVIOUS
  <2>7. k \in D /\ k - 1 \in D /\ l < k /\ k <= r /\ (Hash[d[k]] > h <=> g < k)
    <3>1. l < r
      BY <1>1, <2>4, <2>5
    <3>. QED BY <1>2, <2>5, <2>6, <3>1
  <2>8. ASSUME NEW x \in D, NEW y \in D, x <= g, g <= y, y - x < w
        PROVE  G[<<x, y>>] = g
    <3>1. PICK z : z = y - x
      OBVIOUS
    <3>2. z \in 0 .. Len(d) /\ ~(w <= z)
      BY <1>1, <2>2, <2>3, <2>8, <3>1
    <3>3. z \notin Wrong
      BY <2>3, <3>2
    <3>. QED BY <2>8, <3>1, <3>2, <3>3
  <2>9. CASE g < k
    <3>1. G[<<l, r>>] = G[<<l, k - 1>>]
      BY <1>5, <2>5, <2>6, <2>7, <2>9
    <3>2. g <= k - 1 /\ k - 1 - l < w
      BY <1>1, <2>4, <2>7, <2>9
    <3>. QED BY <2>4, <2>7, <2>8, <3>1, <3>2
  <2>10. CASE ~(g < k)
    <3>1. G[<<l, r>>] = G[<<k, r>>]
      BY <1>5, <2>5, <2>6, <2>7, <2>10
    <3>2. k <= g /\ r - k < w
      BY <1>1, <2>4, <2>7, <2>10
    <3>. QED BY <2>4, <2>7, <2>8, <3>1, <3>2
  <2>. QED BY <2>9, <2>10
<1>7. 1 \in D /\ Len(d) \in D /\ 1 <= g /\ g <= Len(d)
  BY <1>1
<1>8. PICK w : w = Len(d) - 1
  OBVIOUS
<1>9. w \in 0 .. Len(d)
  BY <1>1, <1>7, <1>8
<1>10. w \notin Wrong
  BY <1>6
<1>11. G[<<1, Len(d)>>] = g
  BY <1>7, <1>8, <1>9, <1>10
<1>. QED BY <1>4, <1>11


\* The deque d holds the nodes of S in the order of their hashes.
Holds(d, S) ==
    /\ d \in Seq(Names) /\ Len(d) > 0 /\ Ascending(d)
    /\ S = {d[i] : i \in 1 .. Len(d)}

RingInv == Holds(deque, members)

HashesOf(S) == {Hash[n] : n \in S}

LEMMA HoldsIs ==
    ASSUME NEW d, NEW S, Holds(d, S)
    PROVE  /\ Len(d) \in Nat \ {0}
           /\ \A i \in 1 .. Len(d) : d[i] \in S /\ d[i] \in Names /\ Hash[d[i]] \in Nat
           /\ \A n \in S : \E i \in 1 .. Len(d) : d[i] = n
           /\ S \subseteq Names /\ S # {} /\ IsFiniteSet(S) /\ HashesOf(S) \subseteq Nat
<1>1. Len(d) \in Nat \ {0} /\ \A i \in 1 .. Len(d) : d[i] \in Names /\ Hash[d[i]] \in Nat
  BY KeyStoreAssumption DEF Holds
<1>2. S \subseteq Names /\ HashesOf(S) \subseteq Nat
  BY <1>1, KeyStoreAssumption DEF Holds, HashesOf
<1>3. 1 \in 1 .. Len(d)
  BY <1>1
<1>4. S # {}
  BY <1>3 DEF Holds
<1>5. IsFiniteSet(S)
  BY <1>2, KeyStoreAssumption, FS_Subset
<1>. QED BY <1>1, <1>2, <1>4, <1>5 DEF Holds

\* What get_index_by_key returns.
LEMMA IndexIs ==
    ASSUME NEW d, NEW S, Holds(d, S), NEW h \in Nat
    PROVE  \E g \in 0 .. Len(d) :
               /\ Reached(d, h, g) /\ GetIndex(d, h, TRUE) = g
               /\ GetIndex(d, h, FALSE) = IF g = 0 THEN Len(d) ELSE g
<1>1. PICK g \in 0 .. Len(d) : Reached(d, h, g)
  BY ReachedExists DEF Holds
<1>2. 1 \in 1 .. Len(d) /\ Hash[d[1]] \in Nat
  BY HoldsIs
<1>3. h < Hash[d[1]] <=> g = 0
  BY <1>1, <1>2 DEF Reached
<1>4. CASE g = 0
  BY <1>1, <1>3, <1>4 DEF GetIndex
<1>5. CASE g # 0
  <2>1. g \in 1 .. Len(d)
    BY <1>1, <1>5
  <2>2. BinSearch(d, h) = g
    BY <1>1, <2>1, SearchIs DEF Holds
  <2>. QED BY <1>1, <1>3, <1>5, <2>2 DEF GetIndex
<1>. QED BY <1>4, <1>5

-----------------------------------------------------------------------------
(* The ring *)

\* The owner of h is the last node at or before h, or the last one of all if there
\* is none.
IsOwner(S, o, h) ==
    /\ o \in S
    /\ \/ o <= h /\ \A n \in S : n <= h => n <= o
       \/ \A n \in S : h < n /\ n <= o

LEMMA OwnerOf ==
    ASSUME NEW S, S \subseteq Nat, NEW h \in Nat, NEW o, IsOwner(S, o, h)
    PROVE  Owner(S, h) = o
<1> DEFINE below == {n \in S : n <= h}
<1>1. o \in Nat
  BY DEF IsOwner
<1>2. CASE below = {}
  <2>1. o \in S /\ \A n \in S : o >= n
    BY <1>1, <1>2 DEF IsOwner
  <2>2. PICK x : x = Max(S)
    OBVIOUS
  <2>3. x \in S /\ \A n \in S : x >= n
    BY <2>1, <2>2 DEF Max
  <2>4. x >= o /\ o >= x /\ x \in Nat
    BY <2>1, <2>3
  <2>5. Max(S) = o
    BY <1>1, <2>2, <2>4
  <2>. QED BY <1>2, <2>5 DEF Owner
<1>3. CASE below # {}
  <2>0. PICK n \in S : n <= h
    BY <1>3
  <2>1. o \in below /\ \A y \in below : o >= y
    BY <1>1, <2>0 DEF IsOwner
  <2>2. PICK x : x = Max(below)
    OBVIOUS
  <2>3. x \in below /\ \A y \in below : x >= y
    BY <2>1, <2>2 DEF Max
  <2>4. x >= o /\ o >= x /\ x \in Nat
    BY <2>1, <2>3
  <2>5. Max(below) = o
    BY <1>1, <2>2, <2>4
  <2>. QED BY <1>3, <2>5 DEF Owner
<1>. QED BY <1>2, <1>3

\* get_closest_key finds the owner.
LEMMA ClosestIs ==
    ASSUME NEW d, NEW S, Holds(d, S), NEW h \in Nat
    PROVE  /\ ClosestKey(d, h) \in S
           /\ IsOwner(HashesOf(S), Hash[ClosestKey(d, h)], h)
           /\ Owner(HashesOf(S), h) = Hash[ClosestKey(d, h)]
<1>1. PICK g \in 0 .. Len(d) : /\ Reached(d, h, g)
                               /\ GetIndex(d, h, FALSE) = IF g = 0 THEN Len(d) ELSE g
  BY IndexIs
<1>2. PICK i : i = IF g = 0 THEN Len(d) ELSE g
  OBVIOUS
<1>3. i \in 1 .. Len(d)
  BY <1>1, <1>2, HoldsIs
<1>4. ClosestKey(d, h) = d[i]
  BY <1>1, <1>2 DEF ClosestKey
<1>5. d[i] \in S /\ Hash[d[i]] \in HashesOf(S)
  BY <1>3, HoldsIs DEF HashesOf
<1>6. ASSUME NEW x \in HashesOf(S)
      PROVE  \E j \in 1 .. Len(d) : x = Hash[d[j]]
  BY <1>6, HoldsIs DEF HashesOf
<1>7. \A j, k \in 1 .. Len(d) : j <= k => Hash[d[j]] <= Hash[d[k]]
  <2>1. \A j \in 1 .. Len(d) : j \in Nat /\ Hash[d[j]] \in Nat
    BY HoldsIs
  <2>. QED BY <2>1 DEF Holds, Ascending
<1> DEFINE R == HashesOf(S)
<1>0. PICK o : o = Hash[d[i]] /\ o \in R /\ o \in Nat
  BY <1>3, <1>5, HoldsIs
<1> HIDE DEF R
<1>8. ASSUME g = 0 PROVE IsOwner(R, o, h)
  <2>1. ASSUME NEW x \in R
        PROVE  h < x /\ x <= o
    <3>1. PICK j \in 1 .. Len(d) : x = Hash[d[j]]
      BY <1>6 DEF R
    <3>2. j <= i /\ ~(j <= g) /\ x \in Nat
      BY <1>2, <1>8, <3>1, HoldsIs
    <3>. QED BY <1>0, <1>1, <1>3, <1>7, <3>1, <3>2 DEF Reached
  <2>. QED BY <1>0, <2>1 DEF IsOwner
<1>9. ASSUME g # 0 PROVE IsOwner(R, o, h)
  <2>1. o <= h
    BY <1>0, <1>1, <1>2, <1>3, <1>9 DEF Reached
  <2>2. ASSUME NEW x \in R, x <= h
        PROVE  x <= o
    <3>1. PICK j \in 1 .. Len(d) : x = Hash[d[j]]
      BY <1>6 DEF R
    <3>2. j <= i
      BY <1>1, <1>2, <1>9, <2>2, <3>1 DEF Reached
    <3>. QED BY <1>0, <1>3, <1>7, <3>1, <3>2
  <2>. QED BY <1>0, <2>1, <2>2 DEF IsOwner
<1>10. IsOwner(HashesOf(S), Hash[d[i]], h)
  BY <1>0, <1>8, <1>9 DEF R
<1>11. Owner(HashesOf(S), h) = Hash[d[i]]
  BY <1>10, HoldsIs, OwnerOf
<1>. QED BY <1>4, <1>5, <1>10, <1>11

LEMMA OwnerUnique ==
    ASSUME NEW S, S \subseteq Nat, NEW h \in Nat, NEW o, NEW q,
           IsOwner(S, o, h), IsOwner(S, q, h)
    PROVE  o = q
  BY DEF IsOwner

\* What node o keeps of hashes h when a node of hash a comes after it, where
\* top is the greatest hash, and who owns h then: a if o owned it and does not
\* keep it, the owner q there was otherwise.
Kept(o, a, h, top) ==
    \/ o <= h /\ h < a
    \/ o = top /\ (h >= o \/ h < a)
AfterAdd(o, q, t, a, h, top) ==
    /\ q = o /\ ~Kept(o, a, h, top) => t = a
    /\ ~(q = o /\ ~Kept(o, a, h, top)) => t = q

\* A new node takes keys from the node before it only; that node keeps just
\* those of its keys which it still owns.
LEMMA OwnerAfterAdd ==
    ASSUME NEW S, S \subseteq Nat, NEW a \in Nat \ S, NEW h \in Nat,
           NEW o, IsOwner(S, o, a), NEW q, IsOwner(S, q, h),
           NEW t, IsOwner(S \cup {a}, t, h),
           NEW top \in S \cup {a}, \A n \in S \cup {a} : n <= top
    PROVE  AfterAdd(o, q, t, a, h, top)
<1> DEFINE R == S \cup {a}
           keeps == Kept(o, a, h, top)
<1>1. /\ R \subseteq Nat /\ o \in S /\ o \in Nat /\ q \in S /\ q \in Nat
      /\ t \in Nat /\ a \in Nat /\ top \in Nat /\ a \notin S
  BY DEF IsOwner
<1>2. q # o => IsOwner(R, q, h)
  BY <1>1 DEF IsOwner
<1>3. q = o /\ keeps => IsOwner(R, o, h)
  BY <1>1 DEF IsOwner, Kept
<1>4. ASSUME q = o, ~keeps PROVE IsOwner(R, a, h)
  <2>1. o # top => \E n \in R : n > o
    BY <1>1
  <2>2. CASE o <= h
    <3>1. h >= a /\ o # top
      BY <1>1, <1>4, <2>2 DEF Kept
    <3>2. o <= a
      BY <1>1, <2>1, <3>1 DEF IsOwner
    <3>3. \A n \in S : n <= h => n <= o
      BY <1>1, <1>4, <2>2 DEF IsOwner, Kept
    <3>. QED BY <1>1, <3>1, <3>2, <3>3 DEF IsOwner
  <2>3. CASE h < o
    BY <1>1, <1>4, <2>1, <2>3 DEF IsOwner, Kept
  <2>. QED BY <1>1, <2>2, <2>3
<1>5. IsOwner(R, IF q = o /\ ~keeps THEN a ELSE q, h)
  BY <1>2, <1>3, <1>4
<1>6. t = IF q = o /\ ~keeps THEN a ELSE q
  BY <1>1, <1>5, OwnerUnique
<1>. QED BY <1>6 DEF AfterAdd

\* When a node goes, all its keys have one new owner.
LEMMA OwnerAfterRemove ==
    ASSUME NEW S, S \subseteq Nat, NEW r \in Nat \ S, NEW h \in Nat,
           NEW o, IsOwner(S, o, r), IsOwner(S \cup {r}, r, h)
    PROVE  IsOwner(S, o, h)
  BY DEF IsOwner


-----------------------------------------------------------------------------
(* The order of the names *)

LEMMA BeforeOrders ==
    ASSUME NEW a \in Names, NEW b \in Names, NEW c \in Names
    PROVE  /\ ~Before(a, a)
           /\ a # b => Before(a, b) \/ Before(b, a)
           /\ Before(a, b) /\ Before(b, c) => Before(a, c)
<1>1. /\ a \in Nat /\ b \in Nat /\ c \in Nat
      /\ Hash[a] \in Nat /\ Hash[b] \in Nat /\ Hash[c] \in Nat
  BY KeyStoreAssumption
<1>. QED BY <1>1 DEF Before

Below(S, n) == {x \in S : Before(x, n)}
Rank(S, n) == Cardinality(Below(S, n))

LEMMA RankGrows ==
    ASSUME NEW S, S \subseteq Names, NEW a \in S
    PROVE  /\ Rank(S, a) \in Nat /\ Cardinality(S) \in Nat /\ Rank(S, a) < Cardinality(S)
           /\ \A b \in S : Before(a, b) => Rank(S, a) < Rank(S, b)
<1>1. IsFiniteSet(S) /\ \A n : Below(S, n) \in SUBSET S
  BY KeyStoreAssumption, FS_Subset DEF Below
<1>2. ASSUME NEW T \in SUBSET S, NEW U \in SUBSET T, U # T
      PROVE  /\ Cardinality(U) \in Nat /\ Cardinality(T) \in Nat
             /\ Cardinality(U) < Cardinality(T)
  <2>1. IsFiniteSet(T) /\ IsFiniteSet(U)
    BY <1>1, FS_Subset
  <2>2. Cardinality(U) <= Cardinality(T) /\ (Cardinality(T) = Cardinality(U) => T = U)
    BY <2>1, FS_Subset
  <2>3. Cardinality(U) \in Nat /\ Cardinality(T) \in Nat
    BY <2>1, FS_CardinalityType
  <2>4. PICK u, t : u = Cardinality(U) /\ t = Cardinality(T)
    OBVIOUS
  <2>5. u \in Nat /\ t \in Nat /\ u <= t /\ u # t
    BY <1>2, <2>2, <2>3, <2>4
  <2>6. u < t
    BY <2>5
  <2>. QED BY <2>4, <2>5, <2>6
<1>3. a \in S \ Below(S, a)
  BY BeforeOrders DEF Below
<1>4. Rank(S, a) \in Nat /\ Cardinality(S) \in Nat /\ Rank(S, a) < Cardinality(S)
  BY <1>1, <1>2, <1>3 DEF Rank
<1>5. ASSUME NEW b \in S, Before(a, b) PROVE Rank(S, a) < Rank(S, b)
  <2>1. Below(S, a) \subseteq Below(S, b) /\ a \in Below(S, b)
    BY <1>5, BeforeOrders DEF Below
  <2>. QED BY <1>1, <1>2, <1>3, <2>1 DEF Rank
<1>. QED BY <1>4, <1>5

\* There is a name of each rank.
LEMMA RanksExist ==
    ASSUME NEW S, S \subseteq Names
    PROVE  \A i \in 1 .. Cardinality(S) : \E n \in S : Rank(S, n) = i - 1
<1>1. IsFiniteSet(S) /\ Cardinality(S) \in Nat
  BY KeyStoreAssumption, FS_Subset, FS_CardinalityType
<1>2. PICK c \in Nat : c = Cardinality(S)
  BY <1>1
<1>3. PICK T : T = 0 .. c - 1
  OBVIOUS
<1>4. IsFiniteSet(T) /\ Cardinality(T) = c
  BY <1>3, FS_Interval
<1> DEFINE f == [n \in S |-> Rank(S, n)]
<1>5. f \in [S -> T]
  <2>1. ASSUME NEW a \in S PROVE Rank(S, a) \in T
    <3>1. PICK x : x = Rank(S, a)
      OBVIOUS
    <3>2. x \in Nat /\ x < c
      BY <1>2, <3>1, RankGrows
    <3>. QED BY <1>3, <3>1, <3>2
  <2>. QED BY <2>1
<1>6. \A a, b \in S : f[a] = f[b] => a = b
  <2>1. \A a \in S : f[a] = Rank(S, a) /\ Rank(S, a) \in Nat
    BY RankGrows
  <2>2. ASSUME NEW a \in S, NEW b \in S, Before(a, b) PROVE Rank(S, a) # Rank(S, b)
    <3>1. Rank(S, a) < Rank(S, b) /\ Rank(S, a) \in Nat
      BY <2>2, RankGrows
    <3>2. PICK x : x = Rank(S, a)
      OBVIOUS
    <3>3. x \in Nat /\ x < Rank(S, b)
      BY <3>1, <3>2
    <3>. QED BY <3>2, <3>3
  <2>. QED BY <2>1, <2>2, BeforeOrders
<1>7. f \in Injection(S, T)
  BY <1>5, <1>6 DEF Injection, IsInjective
<1>8. f \in Surjection(S, T)
  BY <1>2, <1>4, <1>7, FS_Injection
<1>9. ASSUME NEW i \in 1 .. c PROVE \E n \in S : Rank(S, n) = i - 1
  <2>1. i - 1 \in T
    BY <1>3
  <2>. QED BY <1>8, <2>1 DEF Surjection
<1>. QED BY <1>2, <1>9

\* The constructor sorts.
LEMMA SortedHolds ==
    ASSUME Distinct, NEW S, S \subseteq Names, S # {}
    PROVE  Holds(Sorted(S), S)
<1>1. IsFiniteSet(S)
  BY KeyStoreAssumption, FS_Subset
<1>2. PICK c \in Nat : c = Cardinality(S) /\ c # 0
  BY <1>1, FS_CardinalityType, FS_EmptySet
<1>3. PICK d : d = Sorted(S)
  OBVIOUS
<1>4. d = [i \in 1 .. c |-> CHOOSE n \in S : Rank(S, n) = i - 1]
  BY <1>2, <1>3 DEF Sorted, Rank, Below
<1>5. ASSUME NEW i \in 1 .. c PROVE d[i] \in S /\ Rank(S, d[i]) = i - 1
  <2>1. \E n \in S : Rank(S, n) = i - 1
    BY <1>2, RanksExist
  <2>. QED BY <1>4, <2>1
<1>6. d \in Seq(Names) /\ Len(d) = c
  <2>1. d \in [1 .. c -> Names]
    BY <1>4, <1>5
  <2>. QED BY <2>1
<1>7. ASSUME NEW a \in S, NEW b \in S, Rank(S, a) <= Rank(S, b), a # b
      PROVE  Hash[a] < Hash[b]
  <2>1. ~Before(b, a)
    <3>1. PICK x, y : x = Rank(S, a) /\ y = Rank(S, b)
      OBVIOUS
    <3>2. x \in Nat /\ y \in Nat /\ x <= y
      BY <1>7, <3>1, RankGrows
    <3>3. ASSUME Before(b, a) PROVE y < x
      BY <3>1, <3>3, RankGrows
    <3>. QED BY <3>2, <3>3
  <2>2. Before(a, b)
    BY <1>7, <2>1, BeforeOrders
  <2>3. Hash[a] # Hash[b]
    BY <1>7 DEF Distinct
  <2>. QED BY <2>2, <2>3 DEF Before
<1>8. Ascending(d)
  <2>1. ASSUME NEW i \in 1 .. c, NEW j \in 1 .. c, i < j PROVE Hash[d[i]] < Hash[d[j]]
    <3>1. /\ d[i] \in S /\ Rank(S, d[i]) = i - 1
          /\ d[j] \in S /\ Rank(S, d[j]) = j - 1
      BY <1>5
    <3>2. i - 1 <= j - 1 /\ i - 1 # j - 1
      BY <2>1
    <3>. QED BY <1>7, <3>1, <3>2
  <2>. QED BY <1>6, <2>1 DEF Ascending
<1>9. ASSUME NEW n \in S PROVE \E i \in 1 .. c : d[i] = n
  <2>1. PICK x : x = Rank(S, n) + 1
    OBVIOUS
  <2>4. PICK y : y = Rank(S, n)
    OBVIOUS
  <2>7. y \in Nat /\ y < c /\ x = y + 1
    BY <1>2, <2>1, <2>4, RankGrows
  <2>2. x \in 1 .. c /\ y = x - 1
    BY <2>7
  <2>3. d[x] \in S /\ Rank(S, d[x]) = Rank(S, n)
    BY <1>5, <2>2, <2>4
  <2>5. d[x] # n => Hash[d[x]] < Hash[n] /\ Hash[n] < Hash[d[x]]
    <3>1. Rank(S, d[x]) <= Rank(S, n) /\ Rank(S, n) <= Rank(S, d[x])
      BY <2>3, <2>4, <2>7
    <3>. QED BY <1>7, <2>3, <3>1
  <2>6. Hash[n] \in Nat /\ Hash[d[x]] \in Nat
    BY <2>3, KeyStoreAssumption
  <2>. QED BY <2>2, <2>5, <2>6
<1>10. S = {d[i] : i \in 1 .. Len(d)}
  BY <1>5, <1>6, <1>9
<1>11. Len(d) > 0
  BY <1>2, <1>6
<1>12. Holds(d, S)
  BY <1>6, <1>8, <1>10, <1>11 DEF Holds
<1>. QED BY <1>3, <1>12


-----------------------------------------------------------------------------
(* Insertion and removal *)

\* add_key puts a new name at its place.
LEMMA InsertHolds ==
    ASSUME Distinct, NEW d, NEW S, Holds(d, S), NEW n \in Names \ S
    PROVE  Holds(InsertAt(d, InsertionIndex(d, Hash[n]), n), S \cup {n})
<1>1. Hash[n] \in Nat /\ Len(d) \in Nat /\ d \in Seq(Names)
  BY DEF Holds
<1>2. PICK g \in 0 .. Len(d) : Reached(d, Hash[n], g) /\ GetIndex(d, Hash[n], TRUE) = g
  BY <1>1, IndexIs
<1>3. PICK c \in Nat : c = Len(d)
  BY <1>1
<1>4. PICK e : e = InsertAt(d, g + 1, n)
  OBVIOUS
<1>5. e = SubSeq(d, 1, g) \o <<n>> \o SubSeq(d, g + 1, c)
  <2>1. g + 1 - 1 = g
    BY <1>2
  <2>2. SubSeq(d, 1, g + 1 - 1) = SubSeq(d, 1, g)
    BY <2>1
  <2>3. PICK i : i = g + 1 /\ e = InsertAt(d, i, n)
    BY <1>4
  <2>4. e = (SubSeq(d, 1, i - 1) \o <<n>>) \o SubSeq(d, i, Len(d))
    BY <2>3, Zenon DEF InsertAt
  <2>5. i - 1 = g + 1 - 1
    BY <2>3
  <2>. QED BY <1>3, <2>2, <2>3, <2>4, <2>5, Zenon
<1>6. /\ e \in Seq(Names) /\ Len(e) = c + 1
      /\ \A i \in 1 .. c + 1 : e[i] = IF i <= g THEN d[i] ELSE IF i = g + 1 THEN n ELSE d[i - 1]
  <2>1. g \in Nat /\ g <= c
    BY <1>2, <1>3
  <2>2. \A i \in 1 .. c : d[i] \in Names
    BY <1>1, <1>3
  <2>3. PICK a : a = SubSeq(d, 1, g)
    OBVIOUS
  <2>4. a \in Seq(Names) /\ Len(a) = g /\ \A i \in 1 .. g : a[i] = d[i]
    BY <1>1, <1>3, <2>1, <2>2, <2>3
  <2>5. PICK b : b = SubSeq(d, g + 1, c)
    OBVIOUS
  <2>6. b \in Seq(Names) /\ Len(b) = c - g /\ \A i \in 1 .. c - g : b[i] = d[g + i]
    BY <1>1, <1>3, <2>1, <2>2, <2>5
  <2>7. PICK s : s = a \o <<n>>
    OBVIOUS
  <2>8. s \in Seq(Names) /\ Len(s) = g + 1 /\ (\A i \in 1 .. g : s[i] = d[i]) /\ s[g + 1] = n
    BY <2>1, <2>4, <2>7
  <2>9. e = s \o b
    BY <1>5, <2>3, <2>5, <2>7
  <2>10. e \in Seq(Names) /\ Len(e) = c + 1
    BY <2>1, <2>6, <2>8, <2>9
  <2>11. ASSUME NEW i \in 1 .. c + 1
         PROVE  e[i] = IF i <= g THEN d[i] ELSE IF i = g + 1 THEN n ELSE d[i - 1]
    <3>1. CASE i <= g + 1
      <4>1. e[i] = s[i]
        BY <2>1, <2>6, <2>8, <2>9, <3>1
      <4>. QED BY <2>1, <2>8, <3>1, <4>1
    <3>2. CASE i > g + 1
      <4>1. e[i] = b[i - (g + 1)]
        BY <2>1, <2>6, <2>8, <2>9, <3>2
      <4>2. i - (g + 1) \in 1 .. c - g /\ g + (i - (g + 1)) = i - 1
        BY <2>1, <3>2
      <4>3. b[i - (g + 1)] = d[g + (i - (g + 1))]
        BY <2>6, <4>2
      <4>. QED BY <2>1, <3>2, <4>1, <4>2, <4>3
    <3>. QED BY <2>1, <3>1, <3>2
  <2>. QED BY <2>10, <2>11
<1>7. \A i \in 1 .. c : /\ d[i] \in S /\ Hash[d[i]] \in Nat
                        /\ i <= g => Hash[d[i]] < Hash[n]
                        /\ i > g => Hash[n] < Hash[d[i]]
  <2>1. ASSUME NEW i \in 1 .. c
        PROVE  /\ d[i] \in S /\ Hash[d[i]] \in Nat /\ Hash[d[i]] # Hash[n]
               /\ Hash[d[i]] <= Hash[n] <=> i <= g
    <3>1. d[i] \in S /\ d[i] \in Names /\ Hash[d[i]] \in Nat
      BY <1>3, HoldsIs
    <3>2. Hash[d[i]] # Hash[n]
      BY <3>1 DEF Distinct
    <3>3. Hash[d[i]] <= Hash[n] <=> i <= g
      BY <1>2, <1>3 DEF Reached
    <3>. QED BY <3>1, <3>2, <3>3
  <2>. QED BY <1>1, <1>2, <2>1
<1>8. Ascending(e)
  <2>1. ASSUME NEW i \in 1 .. c + 1, NEW j \in 1 .. c + 1, i < j
        PROVE  Hash[e[i]] < Hash[e[j]]
    <3>1. g \in Nat /\ g <= c
      BY <1>2, <1>3
    <3>2. CASE j <= g
      <4>1. e[i] = d[i] /\ e[j] = d[j] /\ i \in 1 .. c /\ j \in 1 .. c
        BY <1>6, <2>1, <3>1, <3>2
      <4>. QED BY <1>3, <2>1, <4>1 DEF Holds, Ascending
    <3>3. CASE j = g + 1
      BY <1>6, <1>7, <2>1, <3>1, <3>3
    <3>4. CASE j > g + 1
      <4>1. e[j] = d[j - 1] /\ j - 1 \in 1 .. c /\ j - 1 > g
        BY <1>6, <3>1, <3>4
      <4>2. CASE i <= g
        <5>1. e[i] = d[i] /\ i \in 1 .. c /\ i < j - 1
          BY <1>6, <3>1, <4>1, <4>2
        <5>. QED BY <1>3, <4>1, <5>1 DEF Holds, Ascending
      <4>3. CASE i = g + 1
        BY <1>6, <1>7, <3>1, <4>1, <4>3
      <4>4. CASE i > g + 1
        <5>1. e[i] = d[i - 1] /\ i - 1 \in 1 .. c /\ i - 1 < j - 1
          BY <1>6, <2>1, <3>1, <4>4
        <5>. QED BY <1>3, <4>1, <5>1 DEF Holds, Ascending
      <4>. QED BY <3>1, <4>2, <4>3, <4>4
    <3>. QED BY <3>1, <3>2, <3>3, <3>4
  <2>. QED BY <1>6, <2>1 DEF Ascending
<1>9. S \cup {n} = {e[i] : i \in 1 .. Len(e)}
  <2>1. ASSUME NEW i \in 1 .. c + 1 PROVE e[i] \in S \cup {n}
    <3>1. i <= g => i \in 1 .. c
      BY <1>2, <1>3
    <3>2. i > g + 1 => i - 1 \in 1 .. c
      BY <1>2, <1>3
    <3>. QED BY <1>2, <1>6, <1>7, <3>1, <3>2
  <2>2. g + 1 \in 1 .. c + 1 /\ e[g + 1] = n
    BY <1>2, <1>3, <1>6
  <2>3. ASSUME NEW x \in S PROVE \E i \in 1 .. c + 1 : e[i] = x
    <3>1. PICK i \in 1 .. c : d[i] = x
      BY <1>3, HoldsIs
    <3>2. CASE i <= g
      BY <1>6, <3>1, <3>2
    <3>3. CASE i > g
      <4>1. i + 1 \in 1 .. c + 1 /\ i + 1 > g + 1 /\ (i + 1) - 1 = i
        BY <1>2, <3>3
      <4>2. e[i + 1] = d[i]
        BY <1>2, <1>6, <4>1
      <4>. QED BY <3>1, <4>1, <4>2
    <3>. QED BY <1>2, <3>2, <3>3
  <2>. QED BY <1>6, <2>1, <2>2, <2>3
<1>10. Len(e) > 0
  BY <1>6
<1>11. Holds(e, S \cup {n})
  BY <1>6, <1>8, <1>9, <1>10 DEF Holds
<1>. QED BY <1>2, <1>4, <1>11 DEF InsertionIndex

\* remove_key finds the name it is to remove.
LEMMA RemoveHolds ==
    ASSUME Distinct, NEW d, NEW S, Holds(d, S), NEW n \in S, S # {n}
    PROVE  LET i == GetIndex(d, Hash[n], FALSE)
           IN  d[i] = n /\ Holds(RemoveAt(d, i), S \ {n})
<1>1. n \in Names /\ Hash[n] \in Nat /\ Len(d) \in Nat /\ d \in Seq(Names)
  BY HoldsIs DEF Holds
<1>2. PICK g \in 0 .. Len(d) : /\ Reached(d, Hash[n], g)
                               /\ GetIndex(d, Hash[n], FALSE) = IF g = 0 THEN Len(d) ELSE g
  BY <1>1, IndexIs
<1>3. PICK c \in Nat : c = Len(d)
  BY <1>1
<1>4. PICK k \in 1 .. c : d[k] = n
  BY <1>3, HoldsIs
<1>5. \A i \in 1 .. c : d[i] \in S /\ d[i] \in Names /\ Hash[d[i]] \in Nat
  BY <1>3, HoldsIs
<1>6. \A i, j \in 1 .. c : i < j => Hash[d[i]] < Hash[d[j]]
  BY <1>3 DEF Holds, Ascending
<1>7. g = k
  <2>1. k <= g
    BY <1>1, <1>2, <1>3, <1>4 DEF Reached
  <2>2. k < g => Hash[d[g]] <= Hash[n] /\ g \in 1 .. c
    BY <1>2, <1>3 DEF Reached
  <2>3. ~(k < g)
    BY <1>1, <1>4, <1>5, <1>6, <2>2
  <2>. QED BY <1>2, <2>1, <2>3
<1>8. GetIndex(d, Hash[n], FALSE) = k
  <2>1. k # 0
    BY <1>4
  <2>. QED BY <1>2, <1>7, <2>1
<1>9. PICK e : e = RemoveAt(d, k)
  OBVIOUS
<1>10. /\ e \in Seq(Names) /\ Len(e) = c - 1
       /\ \A i \in 1 .. c - 1 : e[i] = IF i < k THEN d[i] ELSE d[i + 1]
  <2>1. e = SubSeq(d, 1, k - 1) \o SubSeq(d, k + 1, c)
    BY <1>3, <1>9 DEF RemoveAt
  <2>2. PICK a : a = SubSeq(d, 1, k - 1)
    OBVIOUS
  <2>3. a \in Seq(Names) /\ Len(a) = k - 1 /\ \A i \in 1 .. k - 1 : a[i] = d[i]
    BY <1>1, <1>3, <1>5, <2>2
  <2>4. PICK b : b = SubSeq(d, k + 1, c)
    OBVIOUS
  <2>5. b \in Seq(Names) /\ Len(b) = c - k /\ \A i \in 1 .. c - k : b[i] = d[k + i]
    BY <1>1, <1>3, <1>5, <2>4
  <2>6. e \in Seq(Names) /\ Len(e) = c - 1
    BY <2>1, <2>2, <2>3, <2>4, <2>5
  <2>7. ASSUME NEW i \in 1 .. c - 1
        PROVE  e[i] = IF i < k THEN d[i] ELSE d[i + 1]
    <3>1. CASE i < k
      <4>1. e[i] = a[i] /\ i \in 1 .. k - 1
        BY <2>1, <2>2, <2>3, <2>4, <2>5, <3>1
      <4>. QED BY <2>3, <3>1, <4>1
    <3>2. CASE i >= k
      <4>0. PICK l : l = k - 1
        OBVIOUS
      <4>1. e[i] = b[i - (k - 1)]
        <5>1. l \in Nat /\ Len(a) = l /\ i \in 1 .. l + Len(b) /\ ~(i <= l)
          BY <2>3, <2>5, <3>2, <4>0
        <5>2. e = a \o b
          BY <2>1, <2>2, <2>4
        <5>3. e[i] = b[i - l]
          BY <2>3, <2>5, <5>1, <5>2
        <5>. QED BY <4>0, <5>3
      <4>2. i - (k - 1) \in 1 .. c - k /\ k + (i - (k - 1)) = i + 1
        BY <3>2
      <4>3. b[i - (k - 1)] = d[k + (i - (k - 1))]
        BY <2>5, <4>2
      <4>. QED BY <3>2, <4>1, <4>2, <4>3
    <3>. QED BY <3>1, <3>2
  <2>. QED BY <2>6, <2>7
<1>11. Ascending(e)
  <2>1. ASSUME NEW i \in 1 .. c - 1, NEW j \in 1 .. c - 1, i < j
        PROVE  Hash[e[i]] < Hash[e[j]]
    <3>1. PICK x, y : x = (IF i < k THEN i ELSE i + 1) /\ y = IF j < k THEN j ELSE j + 1
      OBVIOUS
    <3>2. x \in 1 .. c /\ y \in 1 .. c /\ x < y
      BY <2>1, <3>1
    <3>3. e[i] = d[x] /\ e[j] = d[y]
      BY <1>10, <3>1
    <3>. QED BY <1>6, <3>2, <3>3
  <2>. QED BY <1>10, <2>1 DEF Ascending
<1>12. S \ {n} = {e[i] : i \in 1 .. Len(e)}
  <2>1. ASSUME NEW i \in 1 .. c - 1 PROVE e[i] \in S \ {n}
    <3>1. PICK x : x = IF i < k THEN i ELSE i + 1
      OBVIOUS
    <3>2. x \in 1 .. c /\ (x < k \/ k < x)
      BY <3>1
    <3>3. e[i] = d[x] /\ d[x] \in S
      BY <1>5, <1>10, <3>1, <3>2
    <3>4. Hash[d[x]] # Hash[d[k]]
      BY <1>5, <1>6, <3>2
    <3>. QED BY <1>4, <3>3, <3>4
  <2>2. ASSUME NEW x \in S \ {n} PROVE \E i \in 1 .. c - 1 : e[i] = x
    <3>1. PICK i \in 1 .. c : d[i] = x
      BY <1>3, HoldsIs
    <3>2. i < k \/ k < i
      BY <1>4, <2>2, <3>1
    <3>3. CASE i < k
      <4>1. i \in 1 .. c - 1 /\ e[i] = d[i]
        BY <1>10, <3>3
      <4>. QED BY <3>1, <4>1
    <3>4. CASE k < i
      <4>1. i - 1 \in 1 .. c - 1 /\ ~(i - 1 < k) /\ (i - 1) + 1 = i
        BY <3>4
      <4>2. e[i - 1] = d[i]
        BY <1>10, <4>1
      <4>. QED BY <3>1, <4>1, <4>2
    <3>. QED BY <3>2, <3>3, <3>4
  <2>. QED BY <1>10, <2>1, <2>2
<1>13. Len(e) > 0
  <2>1. PICK x \in S \ {n} : TRUE
    OBVIOUS
  <2>2. PICK i \in 1 .. Len(e) : e[i] = x
    BY <1>12, <2>1
  <2>. QED BY <1>10, <2>2
<1>14. Holds(e, S \ {n})
  BY <1>10, <1>11, <1>12, <1>13 DEF Holds
<1>. QED BY <1>4, <1>8, <1>9, <1>14


-----------------------------------------------------------------------------
(* The class in its runs *)

LEMMA RingInitInv == Distinct /\ Init => RingInv
<1>1. ASSUME Distinct, Init PROVE RingInv
  <2>1. members \subseteq Names /\ members # {} /\ deque = Sorted(members)
    BY <1>1 DEF Init
  <2>2. Holds(Sorted(members), members)
    BY <1>1, <2>1, SortedHolds
  <2>. QED BY <2>1, <2>2 DEF RingInv
<1>. QED BY <1>1

LEMMA RingStepInv ==
    ASSUME Distinct, RingInv, [Next]_vars
    PROVE  RingInv'
<1>1. ASSUME NEW n \in Names, AddKey(n) PROVE RingInv'
  BY <1>1, InsertHolds DEF AddKey, RingInv
<1>2. ASSUME NEW n \in Names, RemoveKey(n) PROVE RingInv'
  <2>1. n \in members /\ members # {n}
    BY <1>2, FS_Singleton DEF RemoveKey
  <2>2. deque[GetIndex(deque, Hash[n], FALSE)] = n
    BY <2>1, RemoveHolds DEF RingInv
  <2>3. Holds(RemoveAt(deque, GetIndex(deque, Hash[n], FALSE)), members \ {n})
    BY <2>1, RemoveHolds DEF RingInv
  <2>. QED BY <1>2, <2>2, <2>3 DEF RemoveKey, RingInv
<1>3. CASE UNCHANGED vars
  BY <1>3 DEF vars, RingInv
<1>. QED BY <1>1, <1>2, <1>3 DEF Next

LEMMA RingStep ==
    ASSUME [SmallNext]_allVars
    PROVE  [Next]_vars
  BY DEF SmallNext, RingRuns, OnceRuns, ChatRuns, RumourRuns, ProxyRuns, PingsRun, RaftRuns, FilesRun,
         allVars, vars

LEMMA RingAlwaysInv == ASSUME Distinct PROVE SmallSpec => []RingInv
<1>1. SmallInit => RingInv
  BY RingInitInv DEF SmallInit
<1>2. RingInv /\ [SmallNext]_allVars => RingInv'
  BY RingStep, RingStepInv
<1>. QED BY <1>1, <1>2, PTL DEF SmallSpec

\* As long as no two names have the same hash, the search by halving (_bin_search)
\* finds the node that consistent hashing names, for any number of nodes, whatever
\* has been added and removed before, and on both sides of the ring's end.
THEOREM SearchFindsOwnerHolds == ASSUME Distinct PROVE SmallSpec => []SearchFindsOwner
<1>1. RingInv => SearchFindsOwner
  <2>1. SUFFICES ASSUME RingInv, NEW h \in Hashes
                 PROVE  Hash[ClosestKey(deque, h)] = Owner(MemberHashes, h)
    BY DEF SearchFindsOwner
  <2>2. h \in Nat /\ MemberHashes = HashesOf(members)
    BY DEF MemberHashes, HashesOf
  <2>. QED BY <2>1, <2>2, ClosestIs DEF RingInv
<1>. QED BY <1>1, RingAlwaysInv, PTL

\* When a node is added, its predecessor keeps exactly those of its keys that still
\* belong to it (split_by_key), and the new node becomes the owner of the others.
THEOREM SplitFollowsOwnerHolds == ASSUME Distinct PROVE SmallSpec => SplitFollowsOwner
<1>1. ASSUME RingInv, RingInv', [Next]_vars PROVE [Splits]_vars
  <2>1. ASSUME NEW a \in Names, AddKey(a), NEW n \in members' \ members, NEW h \in Hashes
        PROVE  Owner(MemberHashes', h) = OwnerAfterSplit(n, h)
    <3>1. n = a /\ a \in Names \ members /\ members' = members \cup {a}
      BY <2>1 DEF AddKey
    <3>2. PICK S : S = HashesOf(members)
      OBVIOUS
    <3>3. PICK p : p = Hash[a]
      OBVIOUS
    <3>4. MemberHashes' = S \cup {p} /\ MemberHashes = S /\ HashesOf(members') = S \cup {p}
      BY <3>1, <3>2, <3>3 DEF HashesOf, MemberHashes
    <3>5. h \in Nat /\ p \in Nat \ S /\ S \subseteq Nat
      <4>1. members \subseteq Names /\ S \subseteq Nat
        BY <1>1, <3>2, HoldsIs DEF RingInv
      <4>2. p \notin S
        BY <3>1, <3>2, <3>3, <4>1 DEF HashesOf, Distinct
      <4>. QED BY <3>1, <3>3, <4>1, <4>2
    <3>6. PICK from : from = ClosestKey(deque, p)
      OBVIOUS
    <3>7. from \in members /\ IsOwner(S, Hash[from], p)
      BY <1>1, <3>2, <3>5, <3>6, ClosestIs DEF RingInv
    <3>8. PICK q : q = Owner(S, h) /\ IsOwner(S, q, h)
      BY <1>1, <3>2, <3>5, ClosestIs DEF RingInv
    <3>9. PICK t : t = Owner(S \cup {p}, h) /\ IsOwner(S \cup {p}, t, h)
      <4>1. Holds(deque', members')
        BY <1>1 DEF RingInv
      <4>. QED BY <3>4, <3>5, <4>1, ClosestIs
    <3>10. PICK last : last = Last(deque')
      OBVIOUS
    <3>11. last \in members' /\ Hash[last] \in S \cup {p} /\ \A x \in S \cup {p} : x <= Hash[last]
      <4>1. PICK d : d = deque' /\ Holds(d, members')
        BY <1>1 DEF RingInv
      <4>2. Len(d) \in 1 .. Len(d) /\ last = d[Len(d)]
        BY <3>10, <4>1, HoldsIs DEF Last
      <4>3. last \in members'
        BY <4>1, <4>2, HoldsIs
      <4>4. ASSUME NEW x \in S \cup {p} PROVE x <= Hash[last]
        <5>1. PICK y \in members' : x = Hash[y]
          BY <3>4 DEF HashesOf
        <5>2. PICK i \in 1 .. Len(d) : d[i] = y
          BY <4>1, HoldsIs
        <5>3. Hash[d[i]] \in Nat /\ Hash[last] \in Nat /\ (i < Len(d) => Hash[d[i]] < Hash[last])
          BY <4>1, <4>2, HoldsIs DEF Holds, Ascending
        <5>4. i = Len(d) => d[i] = last
          BY <4>2
        <5>5. i < Len(d) \/ i = Len(d)
          BY <4>2
        <5>. QED BY <5>1, <5>2, <5>3, <5>4, <5>5
      <4>. QED BY <3>4, <4>3, <4>4 DEF HashesOf
    <3>12. SplitKeeps(deque', from, n, h) <=>
               (\/ Hash[from] <= h /\ h < p
                \/ Hash[from] = Hash[last] /\ (h >= Hash[from] \/ h < p))
      <4>1. from = last <=> Hash[from] = Hash[last]
        <5>1. members \subseteq Names /\ members' \subseteq Names
          BY <1>1, <3>1, HoldsIs DEF RingInv
        <5>. QED BY <3>7, <3>11, <5>1 DEF Distinct
      <4>. QED BY <3>1, <3>3, <3>10, <4>1 DEF SplitKeeps
    <3>13. t = IF q = Hash[from] /\ ~SplitKeeps(deque', from, n, h) THEN p ELSE q
      <4>1. PICK o, top :
                /\ o = Hash[from] /\ top = Hash[last]
        OBVIOUS
      <4>2. AfterAdd(o, q, t, p, h, top)
        BY <3>5, <3>7, <3>8, <3>9, <3>11, <4>1, OwnerAfterAdd
      <4>3. Kept(o, p, h, top) <=> SplitKeeps(deque', from, n, h)
        BY <3>12, <4>1 DEF Kept
      <4>. QED BY <4>1, <4>2, <4>3 DEF AfterAdd
    <3>. QED BY <3>1, <3>3, <3>4, <3>6, <3>8, <3>9, <3>13 DEF OwnerAfterSplit
  <2>2. ASSUME NEW a \in Names, AddKey(a) PROVE Splits
    BY <2>1, <2>2 DEF Splits
  <2>3. ASSUME NEW a \in Names, RemoveKey(a) PROVE Splits
    BY <2>3 DEF RemoveKey, Splits
  <2>4. CASE UNCHANGED vars
    BY <2>4
  <2>. QED BY <1>1, <2>2, <2>3, <2>4 DEF Next
<1>2. RingInv /\ RingInv' /\ [SmallNext]_allVars => [Splits]_vars
  BY <1>1, RingStep
<1>. QED BY <1>2, RingAlwaysInv, PTL DEF SmallSpec, SplitFollowsOwner

\* When a node is removed, the node found at its place is the new owner of every key
\* it answered for.
THEOREM HeirOwnsAllHolds == ASSUME Distinct PROVE SmallSpec => HeirOwnsAll
<1>1. ASSUME RingInv, RingInv', [Next]_vars PROVE [Inherits]_vars
  <2>1. ASSUME NEW a \in Names, RemoveKey(a), NEW n \in members \ members', NEW h \in Hashes,
               Owner(MemberHashes, h) = Hash[n]
        PROVE  Owner(MemberHashes', h) = Hash[ClosestKey(deque', Hash[n])]
    <3>1. n = a /\ a \in members /\ members' = members \ {a}
      BY <2>1 DEF RemoveKey
    <3>2. PICK S : S = HashesOf(members')
      OBVIOUS
    <3>3. PICK p : p = Hash[a]
      OBVIOUS
    <3>4. members \subseteq Names
      BY <1>1, HoldsIs DEF RingInv
    <3>5. MemberHashes' = S /\ MemberHashes = S \cup {p} /\ HashesOf(members) = S \cup {p}
      BY <3>1, <3>2, <3>3 DEF HashesOf, MemberHashes
    <3>6. h \in Nat /\ p \in Nat \ S
      BY <3>1, <3>2, <3>3, <3>4 DEF HashesOf, Distinct
    <3>7. PICK d : d = deque' /\ Holds(d, members')
      BY <1>1 DEF RingInv
    <3>8. S \subseteq Nat /\ IsOwner(S, Hash[ClosestKey(d, p)], p)
      BY <3>2, <3>6, <3>7, ClosestIs, HoldsIs
    <3>9. IsOwner(S \cup {p}, p, h)
      <4>1. IsOwner(HashesOf(members), Hash[ClosestKey(deque, h)], h)
        BY <1>1, <3>6, ClosestIs DEF RingInv
      <4>2. Owner(HashesOf(members), h) = Hash[ClosestKey(deque, h)]
        BY <1>1, <3>6, ClosestIs DEF RingInv
      <4>. QED BY <2>1, <3>1, <3>3, <3>5, <4>1, <4>2
    <3>10. IsOwner(S, Hash[ClosestKey(d, p)], h)
      BY <3>6, <3>8, <3>9, OwnerAfterRemove
    <3>11. Owner(S, h) = Hash[ClosestKey(d, p)]
      BY <3>6, <3>8, <3>10, OwnerOf
    <3>. QED BY <3>1, <3>3, <3>5, <3>7, <3>11
  <2>2. ASSUME NEW a \in Names, RemoveKey(a) PROVE Inherits
    BY <2>1, <2>2 DEF Inherits
  <2>3. ASSUME NEW a \in Names, AddKey(a) PROVE Inherits
    BY <2>3 DEF AddKey, Inherits
  <2>4. CASE UNCHANGED vars
    BY <2>4
  <2>. QED BY <1>1, <2>2, <2>3, <2>4 DEF Next
<1>2. RingInv /\ RingInv' /\ [SmallNext]_allVars => [Inherits]_vars
  BY <1>1, RingStep
<1>. QED BY <1>2, RingAlwaysInv, PTL DEF SmallSpec, HeirOwnsAll

HIDE KeyStoreAssumption

-----------------------------------------------------------------------------
(* The key-value proxy: what a request does to the nodes *)

USE KvProxyAssumption

ProxyContents == {NoValue} \cup Seq(SUBSET Nat)
PutRequests == [op : {"put"}, id : Nat, at : Nat, acks : Nat, alone : BOOLEAN, old : SUBSET Nat]
GetRequests == [op : {"get"}, at : Nat, seen : Seq(ProxyContents), first : Nat,
                may : SUBSET Nat, clean : BOOLEAN, floor : Nat]
RaidMode == "replication-raid3"
QuorumMode == "replication-quorum"

\* Operators of the community modules, which the instance has for itself.
LEMMA SameCardinality == ASSUME NEW S PROVE Proxy!Cardinality(S) = Cardinality(S)
  BY Zenon DEF Proxy!Cardinality, Cardinality
LEMMA SameMax == ASSUME NEW S PROVE Proxy!Max(S) = Max(S)
  BY Zenon DEF Proxy!Max, Max
LEMMA SameMin == ASSUME NEW S PROVE Proxy!Min(S) = Min(S)
  BY Zenon DEF Proxy!Min, Min
LEMMA SameFlattenSeq == ASSUME NEW s PROVE Proxy!FlattenSeq(s) = FlattenSeq(s)
  BY Zenon DEF Proxy!FlattenSeq, FlattenSeq

\* What a put under way looks like, and a get.
Putting(r) ==
    /\ r \in PutRequests /\ r.id \in 1 .. begun /\ r.id \in current /\ r.at \in 1 .. Proxy!Visits
    /\ r.old \subseteq 1 .. begun /\ ~Proxy!TooShort(Puts[r.id])
Allowed(r) == r.may \cup (r.first + 1 .. begun)
Getting(r) ==
    /\ r \in GetRequests /\ r.at \in 1 .. Proxy!Visits /\ Len(r.seen) = r.at - 1
    /\ r.first \in 0 .. begun /\ r.may \subseteq 1 .. begun /\ current \subseteq Allowed(r)

\* A put that is not refused has a part for each node it visits.
PartsFit ==
    \A i \in DOMAIN Puts :
        ~Proxy!TooShort(Puts[i]) => /\ Proxy!Parts(Puts[i]) \in Seq(Seq(SUBSET Nat))
                                    /\ Len(Proxy!Parts(Puts[i])) = Proxy!Visits

ProxyTypes ==
    /\ mode \in Proxy!Modes /\ (mode = RaidMode => N >= 3)
    /\ home \in Proxy!Nodes /\ begun \in 0 .. Len(Puts) /\ current \subseteq 1 .. begun
    /\ mixed \in BOOLEAN /\ serial \in BOOLEAN /\ newest \in Nat
    /\ stored \in [Proxy!Nodes -> ProxyContents]
    /\ reqs = [u \in Users |-> reqs[u]]

\* No put under way counts as replaced by another one.
ProxyRequests ==
    \A u \in Users : \A r \in reqs[u] :
        /\ r.op \in {"put", "get"}
        /\ r.op = "put" => /\ Putting(r)
                           /\ \A v \in Users : \A s \in reqs[v] : s.op = "put" => s.id \notin r.old
        /\ r.op = "get" => Getting(r)

ProxyBase == PartsFit /\ ProxyTypes /\ ProxyRequests

-----------------------------------------------------------------------------
(* The steps of requests *)

Fixed == UNCHANGED <<mode, home, up, begun, serial, faults>>

\* A put writes to its next node and goes on; it writes to the last one and is
\* answered; it meets a node out of reach.
Writes(r) == stored' = [stored EXCEPT ![Proxy!Visited(r.at)] = Proxy!Parts(Puts[r.id])[r.at]]
PutGoesOn(u, r) ==
    /\ r.at < Proxy!Visits /\ Writes(r) /\ Fixed /\ Proxy!NotFound
    /\ reqs' = [reqs EXCEPT ![u] = {[r EXCEPT !.at = @ + 1, !.acks = @ + 1]}]
    /\ UNCHANGED <<current, mixed>>
PutIsDone(u, r) ==
    /\ r.at = Proxy!Visits /\ Writes(r) /\ Fixed /\ Proxy!NotFound
    /\ reqs' = [reqs EXCEPT ![u] = {}]
    /\ \/ UNCHANGED <<current, mixed>>
       \/ current' = current \ r.old /\ mixed' = (mixed /\ ~(r.alone /\ begun = r.id))
PutBreaks(u, r) ==
    /\ reqs' = [reqs EXCEPT ![u] = {}]
    /\ Fixed /\ Proxy!NotFound /\ UNCHANGED <<stored, current, mixed>>
PutSteps(u, r) == PutGoesOn(u, r) \/ PutIsDone(u, r) \/ PutBreaks(u, r)

\* A get sees x at its next node and goes on, finds a value, or fails.
Sees(r, x) == x \in {stored[Proxy!Visited(r.at)], NoValue}
GetRests == Fixed /\ UNCHANGED <<stored, current, mixed>>
GetGoesOn(u, r, x) ==
    /\ r.at < Proxy!Visits /\ GetRests /\ Proxy!NotFound
    /\ reqs' = [reqs EXCEPT ![u] = {[r EXCEPT !.at = @ + 1, !.seen = Append(r.seen, x)]}]
Lost(seen) == {i \in DOMAIN seen : seen[i] = NoValue}
Answers(r, seen, v) ==
    /\ mode = QuorumMode => r.at = Proxy!Visits /\ v \in Proxy!Agreed(seen)
    /\ mode = RaidMode =>
           /\ r.at = Proxy!Visits /\ Cardinality(Lost(seen)) <= 1
           /\ Lost(seen) = {} => v = Proxy!Raid3Join(seen)
           /\ Lost(seen) # {} => v = Proxy!Raid3Recover(seen, CHOOSE i \in Lost(seen) : TRUE)
GetFinds(u, r, x, v) ==
    /\ GetRests /\ Proxy!Found(r, v) /\ reqs' = [reqs EXCEPT ![u] = {}]
    /\ Answers(r, Append(r.seen, x), v)
    /\ mode \notin {QuorumMode, RaidMode} => v = x /\ x # NoValue
GetFails(u) == GetRests /\ Proxy!NotFound /\ reqs' = [reqs EXCEPT ![u] = {}]
GetSteps(u, r) ==
    \/ \E x : Sees(r, x) /\ (GetGoesOn(u, r, x) \/ \E v : GetFinds(u, r, x, v))
    \/ GetFails(u)

LEMMA PutNodeSteps ==
    ASSUME ProxyBase, NEW u \in Users, Proxy!PutNode(u)
    PROVE  \E r \in reqs[u] : r.op = "put" /\ PutSteps(u, r)
<1>1. PICK r \in reqs[u] :
          LET n == Proxy!Visited(r.at)
              parts == Proxy!Parts(Puts[r.id])
          IN  /\ r.op = "put"
              /\ IF n \notin up THEN Proxy!PutUnreachable(u, r) /\ UNCHANGED stored
                 ELSE /\ stored' = [stored EXCEPT ![n] = parts[r.at]]
                      /\ IF r.at = Len(parts) THEN Proxy!PutAnswer(u, r, r.acks + 1)
                         ELSE /\ reqs' = [reqs EXCEPT ![u] =
                                     {[r EXCEPT !.at = @ + 1, !.acks = @ + 1]}]
                              /\ UNCHANGED <<current, mixed>>
              /\ Proxy!NotFound /\ UNCHANGED <<mode, home, up, begun, serial, faults>>
  BY DEF Proxy!PutNode
<1>2. Putting(r) /\ r.id \in DOMAIN Puts
  BY <1>1 DEF ProxyBase, ProxyRequests, ProxyTypes, Putting
<1>3. Len(Proxy!Parts(Puts[r.id])) = Proxy!Visits /\ r.at \in 1 .. Proxy!Visits /\ Proxy!Visits \in Nat
  BY <1>2 DEF ProxyBase, PartsFit, Putting, Proxy!Visits
<1>4. PutSteps(u, r)
  <2>1. CASE Proxy!Visited(r.at) \notin up
    BY <1>1, <2>1 DEF Proxy!PutUnreachable, Proxy!End, PutSteps, PutBreaks, Fixed
  <2>2. CASE Proxy!Visited(r.at) \in up /\ r.at = Proxy!Visits
    BY <1>1, <1>3, <2>2 DEF Proxy!PutAnswer, Proxy!End, PutSteps, PutIsDone, Fixed, Writes
  <2>3. CASE Proxy!Visited(r.at) \in up /\ r.at # Proxy!Visits
    <3>1. r.at < Proxy!Visits
      BY <1>3, <2>3
    <3>. QED BY <1>1, <1>3, <2>3, <3>1 DEF PutSteps, PutGoesOn, Fixed, Writes
  <2>. QED BY <2>1, <2>2, <2>3
<1>. QED BY <1>1, <1>4

LEMMA GetNodeSteps ==
    ASSUME ProxyBase, NEW u \in Users, Proxy!GetNode(u)
    PROVE  \E r \in reqs[u] : r.op = "get" /\ GetSteps(u, r)
<1>1. PICK r \in reqs[u] :
          LET n == Proxy!Visited(r.at)
          IN  /\ r.op = "get"
              /\ IF n \in up THEN Proxy!Decide(u, r, Append(r.seen, stored[n]))
                 ELSE IF mode = "replication-raid3" THEN Proxy!Decide(u, r, Append(r.seen, NoValue))
                 ELSE Proxy!End(u) /\ Proxy!NotFound
              /\ UNCHANGED <<mode, home, stored, up, begun, current, mixed, serial, faults>>
  BY DEF Proxy!GetNode
<1>2. Getting(r) /\ Proxy!Visits \in Nat
  BY <1>1 DEF ProxyBase, ProxyRequests, Proxy!Visits
<1>3. GetRests
  BY <1>1 DEF GetRests, Fixed
<1>4. CASE Proxy!End(u) /\ Proxy!NotFound
  BY <1>1, <1>3, <1>4 DEF Proxy!End, GetSteps, GetFails
<1>5. ASSUME NEW x, Sees(r, x), Proxy!Decide(u, r, Append(r.seen, x)) PROVE GetSteps(u, r)
  <2>1. PICK seen : seen = Append(r.seen, x)
    OBVIOUS
  <2>2. Len(seen) = r.at /\ r.at \in Nat /\ r.at <= Proxy!Visits /\ Proxy!Last(seen) = x
    <3>1. r.seen \in Seq(ProxyContents) /\ Len(r.seen) = r.at - 1 /\ r.at \in 1 .. Proxy!Visits
      BY <1>2 DEF Getting, GetRequests
    <3>2. x \in ProxyContents
      <4>1. Proxy!Visited(r.at) \in Proxy!Nodes
        BY <1>2, <3>1 DEF Proxy!Visited, Proxy!Visits, Proxy!Nodes, ProxyBase, ProxyTypes
      <4>. QED BY <1>5, <4>1 DEF Sees, ProxyBase, ProxyTypes, ProxyContents
    <3>. QED BY <1>2, <2>1, <3>1, <3>2 DEF Proxy!Last
  <2> DEFINE last == Len(seen) = Proxy!Visits
             missing == {i \in DOMAIN seen : seen[i] = NoValue}
             values ==
                 CASE mode = "replication-quorum" -> IF last THEN Proxy!Agreed(seen) ELSE {}
                   [] mode = "replication-raid3" ->
                         IF ~last \/ Proxy!Cardinality(missing) > 1 THEN {}
                         ELSE IF missing = {} THEN {Proxy!Raid3Join(seen)}
                         ELSE {Proxy!Raid3Recover(seen, CHOOSE i \in missing : TRUE)}
                   [] OTHER -> {Proxy!Last(seen)} \ {NoValue}
             fails == last \/ (mode = "replication-raid3" /\ Proxy!Cardinality(missing) > 1)
  <2>a. Proxy!Decide(u, r, seen)
    BY <1>5, <2>1
  <2>3. \/ \E v \in values : Proxy!Found(r, v) /\ Proxy!End(u)
        \/ values = {} /\ fails /\ Proxy!End(u) /\ Proxy!NotFound
        \/ /\ values = {} /\ ~fails
           /\ reqs' = [reqs EXCEPT ![u] = {[r EXCEPT !.at = @ + 1, !.seen = seen]}]
           /\ Proxy!NotFound
    BY <2>a DEF Proxy!Decide
  <2>4. ASSUME NEW v \in values, Proxy!Found(r, v), Proxy!End(u) PROVE GetFinds(u, r, x, v)
    <3>1. Cardinality(missing) \in Nat
      <4>1. DOMAIN seen = 1 .. r.at
        BY <2>1, <2>2, <1>2, LenProperties DEF Getting, GetRequests
      <4>2. IsFiniteSet(DOMAIN seen)
        <5>1. 1 \in Int /\ r.at \in Int
          BY <2>2
        <5>2. IsFiniteSet(1 .. r.at)
          BY <5>1, FS_Interval
        <5>. QED BY <4>1, <5>2
      <4>3. IsFiniteSet(missing)
        BY <4>2, FS_Subset
      <4>. QED BY <4>3, FS_CardinalityType
    <3>2. missing = Lost(seen) /\ Proxy!Cardinality(missing) = Cardinality(missing)
      BY SameCardinality DEF Lost
    <3> HIDE DEF missing
    <3>3. Answers(r, seen, v)
      <4>1. CASE mode = QuorumMode
        BY <2>2, <2>4, <4>1 DEF Answers, QuorumMode, RaidMode
      <4>2. CASE mode = RaidMode
        BY <2>2, <2>4, <3>1, <3>2, <4>2 DEF Answers, QuorumMode, RaidMode
      <4>. QED BY <4>1, <4>2 DEF Answers
    <3>4. mode \notin {QuorumMode, RaidMode} => v = x /\ x # NoValue
      BY <2>2, <2>4 DEF QuorumMode, RaidMode
    <3>. QED BY <1>3, <2>1, <2>4, <3>3, <3>4 DEF GetFinds, Proxy!End
  <2>5. CASE ~fails /\ reqs' = [reqs EXCEPT ![u] = {[r EXCEPT !.at = @ + 1, !.seen = seen]}]
             /\ Proxy!NotFound
    <3>1. r.at < Proxy!Visits
      BY <1>2, <2>2, <2>5
    <3>. QED BY <1>3, <1>5, <2>1, <2>5, <3>1 DEF GetGoesOn, GetSteps
  <2>6. CASE Proxy!End(u) /\ Proxy!NotFound
    BY <1>3, <2>6 DEF Proxy!End, GetSteps, GetFails
  <2>. QED BY <1>5, <2>3, <2>4, <2>5, <2>6 DEF GetSteps
<1>6. Sees(r, stored[Proxy!Visited(r.at)]) /\ Sees(r, NoValue)
  BY DEF Sees
<1>. QED BY <1>1, <1>4, <1>5, <1>6

-----------------------------------------------------------------------------
(* Types, and which puts a request still allows *)

LEMMA PartsFitElsewhere ==
    ASSUME mode \in Proxy!Modes, mode # RaidMode
    PROVE  /\ PartsFit
           /\ \A i \in DOMAIN Puts : \A p \in 1 .. Proxy!Visits :
                  Proxy!Parts(Puts[i])[p] = Puts[i]
<1>1. ASSUME NEW i \in DOMAIN Puts
      PROVE  /\ Proxy!Parts(Puts[i]) \in Seq(Seq(SUBSET Nat))
             /\ Len(Proxy!Parts(Puts[i])) = Proxy!Visits
             /\ \A p \in 1 .. Proxy!Visits : Proxy!Parts(Puts[i])[p] = Puts[i]
  <2>1. PICK value : value = Puts[i] /\ value \in Seq(SUBSET Nat)
    OBVIOUS
  <2>2. CASE mode = "sharding"
    <3>1. Proxy!Parts(value) = <<value>> /\ Proxy!Visits = 1
      BY <2>2 DEF Proxy!Parts, Proxy!Visits
    <3>. QED BY <2>1, <3>1
  <2>3. CASE mode # "sharding"
    <3>1. Proxy!Parts(value) = [n \in 1 .. N |-> value] /\ Proxy!Visits = N
      BY <2>3 DEF Proxy!Parts, Proxy!Visits, Proxy!Nodes, RaidMode
    <3>. QED BY <2>1, <3>1
  <2>. QED BY <2>2, <2>3
<1>. QED BY <1>1 DEF PartsFit

LEMMA ProxyInitBase ==
    ASSUME Proxy!Init, PartsFit
    PROVE  ProxyBase
<1>1. ProxyTypes
  <2>1. stored \in [Proxy!Nodes -> ProxyContents] /\ reqs = [u \in Users |-> reqs[u]]
    BY DEF Proxy!Init, ProxyContents
  <2>2. home \in Proxy!Nodes
    <3>1. 1 \in Proxy!Nodes
      BY DEF Proxy!Nodes
    <3>. QED BY <3>1 DEF Proxy!Init
  <2>3. begun \in 0 .. Len(Puts)
    BY DEF Proxy!Init
  <2>. QED BY <2>1, <2>2, <2>3 DEF Proxy!Init, ProxyTypes, RaidMode
<1>2. \A u \in Users : reqs[u] = {}
  BY DEF Proxy!Init
<1>. QED BY <1>1, <1>2 DEF ProxyBase, ProxyRequests

LEMMA SameMode ==
    ASSUME mode' = mode
    PROVE  /\ Proxy!Visits' = Proxy!Visits /\ (PartsFit => PartsFit')
           /\ \A i \in Nat : /\ Proxy!TooShort(Puts[i])' <=> Proxy!TooShort(Puts[i])
                            /\ Proxy!Parts(Puts[i])' = Proxy!Parts(Puts[i])
<1>1. Proxy!Visits' = Proxy!Visits
  BY DEF Proxy!Visits
<1>2. ASSUME NEW i PROVE /\ Proxy!TooShort(Puts[i])' <=> Proxy!TooShort(Puts[i])
                         /\ Proxy!Parts(Puts[i])' = Proxy!Parts(Puts[i])
  BY DEF Proxy!TooShort, Proxy!Parts
<1>. QED BY <1>1, <1>2 DEF PartsFit

LEMMA KeptPut ==
    ASSUME ProxyBase, NEW s, Putting(s), mode' = mode,
           begun' \in Nat, begun <= begun', s.id \in current'
    PROVE  Putting(s)'
<1>1. begun \in Nat
  BY DEF ProxyBase, ProxyTypes
<1>2. Proxy!Visits' = Proxy!Visits /\ (Proxy!TooShort(Puts[s.id])' <=> Proxy!TooShort(Puts[s.id]))
  BY DEF Proxy!Visits, Proxy!TooShort
<1>. QED BY <1>1, <1>2 DEF Putting

LEMMA KeptGet ==
    ASSUME ProxyBase, NEW s, Getting(s), mode' = mode,
           begun' \in Nat, begun <= begun', current' \subseteq current \cup (begun + 1 .. begun')
    PROVE  Getting(s)'
<1>1. begun \in Nat
  BY DEF ProxyBase, ProxyTypes
<1>2. Proxy!Visits' = Proxy!Visits
  BY DEF Proxy!Visits
<1>3. s.first \in 0 .. begun
  BY DEF Getting
<1>4. begun + 1 .. begun' \subseteq s.first + 1 .. begun' /\ s.first + 1 .. begun \subseteq s.first + 1 .. begun'
  BY <1>1, <1>3
<1>5. current' \subseteq Allowed(s)'
  BY <1>4 DEF Getting, Allowed
<1>. QED BY <1>1, <1>2, <1>5 DEF Getting

\* The numbers that are new are of no put under way.
LEMMA ProxyBaseBegin ==
    ASSUME ProxyBase, NEW u \in Users, Proxy!BeginPut(u)
    PROVE  ProxyBase'
<1>1. begun \in Nat /\ begun' = begun + 1 /\ begun' \in 0 .. Len(Puts) /\ mode' = mode /\ Len(Puts) \in Nat
  BY DEF ProxyBase, ProxyTypes, Proxy!BeginPut
<1>2. PartsFit' /\ DOMAIN Puts = 1 .. Len(Puts)
  BY <1>1, SameMode DEF ProxyBase
<1>3. reqs[u] = {} /\ stored' = stored
  BY DEF Proxy!BeginPut
<1>4. CASE Proxy!TooShort(Puts[begun'])
  <2>1. reqs' = reqs /\ current' = current
    BY <1>4 DEF Proxy!BeginPut
  <2>2. ProxyTypes'
    <3>1. current' \subseteq 1 .. begun'
      BY <1>1, <2>1 DEF ProxyBase, ProxyTypes
    <3>. QED BY <1>1, <1>3, <1>4, <2>1, <3>1 DEF Proxy!BeginPut, Proxy!NotFound, ProxyBase, ProxyTypes
  <2>3. ASSUME NEW v \in Users, NEW s \in reqs'[v] PROVE
            /\ s.op \in {"put", "get"}
            /\ s.op = "put" => /\ Putting(s)'
                               /\ \A w \in Users : \A t \in reqs'[w] : t.op = "put" => t.id \notin s.old
            /\ s.op = "get" => Getting(s)'
    <3>1. s \in reqs[v]
      BY <2>1
    <3>2. s.op = "put" => Putting(s) /\ s.id \in current'
      BY <2>1, <3>1 DEF ProxyBase, ProxyRequests, Putting
    <3>3. s.op = "put" => Putting(s)'
      BY <1>1, <3>2, KeptPut
    <3>4. s.op = "get" => Getting(s)'
      BY <1>1, <2>1, <3>1, KeptGet DEF ProxyBase, ProxyRequests
    <3>. QED BY <2>1, <3>1, <3>3, <3>4 DEF ProxyBase, ProxyRequests
  <2>. QED BY <1>2, <2>2, <2>3 DEF ProxyBase, ProxyRequests
<1>5. CASE ~Proxy!TooShort(Puts[begun'])
  <2>1. PICK running : running = Proxy!Running("put")
    OBVIOUS
  <2>a. PICK o : o = current \ {s.id : s \in UNION {reqs[v] : v \in running}}
    OBVIOUS
  <2>b. PICK i \in Nat : i = begun'
    BY <1>1
  <2>2. PICK r : r = [op |-> "put", id |-> i, at |-> 1, acks |-> 0, alone |-> running = {}, old |-> o]
    OBVIOUS
  <2>3. reqs' = [reqs EXCEPT ![u] = {r}] /\ current' = current \cup {begun'}
    BY <1>5, <2>1, <2>a, <2>b, <2>2 DEF Proxy!BeginPut
  <2>4. /\ r.op = "put" /\ r.id = begun' /\ r.at = 1 /\ r.old \subseteq current
        /\ \A v \in running : \A s \in reqs[v] : s.id \notin r.old
    BY <2>2, <2>a, <2>b
  <2>5. current \subseteq 1 .. begun
    BY DEF ProxyBase, ProxyTypes
  <2>6. Putting(r)'
    <3>1. r \in PutRequests
      <4>1. o \in SUBSET Nat
        <5>1. o \subseteq current
          BY <2>a
        <5>2. current \subseteq Nat
          BY <1>1, <2>5
        <5>. QED BY <5>1, <5>2
      <4>2. PICK a \in BOOLEAN : a = (running = {})
        BY Zenon
      <4>. QED BY <2>b, <2>2, <4>1, <4>2 DEF PutRequests
    <3>2. 1 \in 1 .. Proxy!Visits'
      BY DEF Proxy!Visits
    <3>3. ~Proxy!TooShort(Puts[i])'
      BY <1>1, <1>5, <2>b, SameMode
    <3>4. r.id = i /\ ~Proxy!TooShort(Puts[r.id])'
      BY <2>b, <2>4, <3>3
    <3>5. r.id \in 1 .. begun' /\ r.id \in current' /\ r.old \subseteq 1 .. begun'
      <4>1. current \subseteq 1 .. begun'
        BY <1>1, <2>5
      <4>2. begun' \in 1 .. begun'
        BY <1>1
      <4>. QED BY <2>3, <2>4, <4>1, <4>2
    <3>. QED BY <2>4, <3>1, <3>2, <3>4, <3>5 DEF Putting
  <2>7. ProxyTypes'
    <3>1. current' \subseteq 1 .. begun'
      BY <1>1, <2>3, <2>5
    <3>2. reqs' = [v \in Users |-> reqs'[v]]
      BY <2>3 DEF ProxyBase, ProxyTypes
    <3>3. mixed' = TRUE /\ serial' \in BOOLEAN
      BY <1>5 DEF Proxy!BeginPut
    <3>. QED BY <1>1, <1>3, <3>1, <3>2, <3>3 DEF Proxy!BeginPut, Proxy!NotFound, ProxyBase, ProxyTypes
  <2>8. ASSUME NEW v \in Users, NEW s \in reqs'[v] PROVE
            /\ s.op \in {"put", "get"}
            /\ s.op = "put" => /\ Putting(s)'
                               /\ \A w \in Users : \A t \in reqs'[w] : t.op = "put" => t.id \notin s.old
            /\ s.op = "get" => Getting(s)'
    <3>1. \A w \in Users : \A t \in reqs'[w] : t = r \/ (t \in reqs[w] /\ w # u)
      BY <2>3 DEF ProxyBase, ProxyTypes
    <3>2. \A w \in Users : \A t \in reqs[w] : t.op = "put" => w \in running
      BY <2>1 DEF Proxy!Running
    <3>3. CASE s = r
      <4>1. ASSUME NEW w \in Users, NEW t \in reqs'[w], t.op = "put" PROVE t.id \notin r.old
        BY <1>1, <2>4, <2>5, <3>1, <3>2, <4>1
      <4>. QED BY <2>4, <2>6, <3>3, <4>1
    <3>4. CASE s \in reqs[v]
      <4>1. s.op = "put" => Putting(s)'
        <5>1. s.op = "put" => Putting(s) /\ s.id \in current'
          BY <2>3, <3>4 DEF ProxyBase, ProxyRequests, Putting
        <5>. QED BY <1>1, <5>1, KeptPut
      <4>2. s.op = "get" => Getting(s)'
        <5>1. current' \subseteq current \cup (begun + 1 .. begun')
          BY <1>1, <2>3
        <5>. QED BY <1>1, <3>4, <5>1, KeptGet DEF ProxyBase, ProxyRequests
      <4>3. s.op = "put" => \A w \in Users : \A t \in reqs'[w] : t.op = "put" => t.id \notin s.old
        <5>1. s.op = "put" => r.id \notin s.old
          BY <1>1, <2>4, <3>4 DEF ProxyBase, ProxyRequests, Putting
        <5>. QED BY <3>1, <3>4, <5>1 DEF ProxyBase, ProxyRequests
      <4>. QED BY <3>4, <4>1, <4>2, <4>3 DEF ProxyBase, ProxyRequests
    <3>. QED BY <3>1, <3>3, <3>4
  <2>. QED BY <1>2, <2>7, <2>8 DEF ProxyBase, ProxyRequests
<1>. QED BY <1>4, <1>5

\* The latest put with the value v, or that before, in newest.
LEMMA NewestIs ==
    ASSUME NEW k \in Nat, NEW v
    PROVE  /\ Proxy!Max(Proxy!PutOf(v) \cup {k}) \in Nat
           /\ Proxy!Max(Proxy!PutOf(v) \cup {k}) \in Proxy!PutOf(v) \cup {k}
<1>1. PICK S : S = Proxy!PutOf(v) \cup {k}
  OBVIOUS
<1>2. S \subseteq Nat /\ S # {} /\ IsFiniteSet(S)
  <2>1. DOMAIN Puts = 1 .. Len(Puts) /\ Len(Puts) \in Nat
    OBVIOUS
  <2>2. IsFiniteSet(Proxy!PutOf(v))
    <3>1. IsFiniteSet(1 .. Len(Puts))
      BY <2>1, FS_Interval
    <3>2. Proxy!PutOf(v) \subseteq 1 .. Len(Puts)
      BY <2>1 DEF Proxy!PutOf
    <3>. QED BY <3>1, <3>2, FS_Subset
  <2>3. IsFiniteSet(S)
    BY <1>1, <2>2, FS_AddElement
  <2>4. Proxy!PutOf(v) \subseteq Nat
    BY <2>1 DEF Proxy!PutOf
  <2>. QED BY <1>1, <2>3, <2>4
<1>3. \E x \in S : \A y \in S : x >= y
  BY <1>2, GreatestExists
<1>4. Max(S) \in S
  BY <1>3 DEF Max
<1>. QED BY <1>1, <1>2, <1>4, SameMax

\* What user u is left with, X, in a step that begins no put.
FitsIn(u, s) ==
    \/ s.op = "get" /\ Getting(s)'
    \/ /\ s.op = "put" /\ Putting(s)'
       /\ \E r \in reqs[u] : r.op = "put" /\ r.id = s.id /\ r.old = s.old
LeavesWith(u, X) ==
    /\ mode' = mode /\ home' = home /\ begun' = begun
    /\ mixed' \in BOOLEAN /\ serial' \in BOOLEAN /\ newest' \in Nat
    /\ stored' \in [Proxy!Nodes -> ProxyContents]
    /\ reqs' = [reqs EXCEPT ![u] = X] /\ current' \subseteq current
    /\ \A v \in Users : \A s \in reqs[v] : s.op = "put" => s.id \in current'
    /\ \A s \in X : FitsIn(u, s)

LEMMA ProxyBaseRest ==
    ASSUME ProxyBase, NEW u \in Users, NEW X, LeavesWith(u, X)
    PROVE  ProxyBase'
<1>0. \A s \in X :
          /\ s.op \in {"put", "get"}
          /\ s.op = "put" => /\ Putting(s)'
                             /\ \E r \in reqs[u] : r.op = "put" /\ r.id = s.id /\ r.old = s.old
          /\ s.op = "get" => Getting(s)'
  BY DEF LeavesWith, FitsIn
<1>1. begun \in Nat
  BY DEF ProxyBase, ProxyTypes
<1>2. ProxyTypes'
  <2>1. reqs' = [v \in Users |-> reqs'[v]]
    BY DEF LeavesWith, ProxyBase, ProxyTypes
  <2>2. current' \subseteq 1 .. begun'
    BY DEF LeavesWith, ProxyBase, ProxyTypes
  <2>. QED BY <2>1, <2>2 DEF LeavesWith, ProxyBase, ProxyTypes, Proxy!Nodes
<1>3. \A v \in Users : \A s \in reqs'[v] : (s \in X /\ v = u) \/ s \in reqs[v]
  BY DEF LeavesWith, ProxyBase, ProxyTypes
<1>4. ASSUME NEW v \in Users, NEW s \in reqs'[v] PROVE
          /\ s.op \in {"put", "get"}
          /\ s.op = "put" => /\ Putting(s)'
                             /\ \A w \in Users : \A t \in reqs'[w] : t.op = "put" => t.id \notin s.old
          /\ s.op = "get" => Getting(s)'
  <2>1. s.op \in {"put", "get"}
    BY <1>0, <1>3 DEF ProxyBase, ProxyRequests
  <2>2. s.op = "put" => Putting(s)'
    <3>1. s.op = "put" /\ s \in reqs[v] => Putting(s)
      BY DEF ProxyBase, ProxyRequests
    <3>. QED BY <1>0, <1>1, <1>3, <3>1, KeptPut DEF LeavesWith
  <2>3. s.op = "get" => Getting(s)'
    <3>1. s.op = "get" /\ s \in reqs[v] => Getting(s)
      BY DEF ProxyBase, ProxyRequests
    <3>. QED BY <1>0, <1>1, <1>3, <3>1, KeptGet DEF LeavesWith
  <2>4. ASSUME s.op = "put", NEW w \in Users, NEW t \in reqs'[w], t.op = "put" PROVE t.id \notin s.old
    <3>1. PICK p \in reqs[v] : p.op = "put" /\ p.old = s.old
      BY <1>0, <1>3, <2>4
    <3>2. PICK q \in reqs[w] : q.op = "put" /\ q.id = t.id
      BY <1>0, <1>3, <2>4
    <3>. QED BY <3>1, <3>2 DEF ProxyBase, ProxyRequests
  <2>. QED BY <2>1, <2>2, <2>3, <2>4
<1>. QED BY <1>2, <1>4, SameMode DEF LeavesWith, ProxyBase, ProxyRequests

LEMMA VisitedIs ==
    ASSUME ProxyBase, NEW p \in 1 .. Proxy!Visits
    PROVE  Proxy!Visited(p) \in Proxy!Nodes
  BY DEF Proxy!Visited, Proxy!Visits, Proxy!Nodes, ProxyBase, ProxyTypes

LEMMA WritesContents ==
    ASSUME ProxyBase, NEW u \in Users, NEW r \in reqs[u], r.op = "put", Writes(r)
    PROVE  stored' \in [Proxy!Nodes -> ProxyContents]
<1>1. Putting(r) /\ r.id \in DOMAIN Puts
  BY DEF ProxyBase, ProxyRequests, ProxyTypes, Putting
<1>2. Proxy!Parts(Puts[r.id]) \in Seq(Seq(SUBSET Nat)) /\ r.at \in 1 .. Len(Proxy!Parts(Puts[r.id]))
  BY <1>1 DEF ProxyBase, PartsFit, Putting
<1>3. Proxy!Parts(Puts[r.id])[r.at] \in ProxyContents
  BY <1>2 DEF ProxyContents
<1>. QED BY <1>3 DEF Writes, ProxyBase, ProxyTypes

LEMMA ProxyBasePut ==
    ASSUME ProxyBase, NEW u \in Users, Proxy!PutNode(u)
    PROVE  ProxyBase'
<1>1. PICK r \in reqs[u] : r.op = "put" /\ PutSteps(u, r)
  BY PutNodeSteps
<1>2. Putting(r) /\ r \in PutRequests
  BY <1>1 DEF ProxyBase, ProxyRequests, Putting
<1>3. /\ mode' = mode /\ home' = home /\ begun' = begun /\ serial' \in BOOLEAN /\ newest' \in Nat
      /\ begun \in Nat
  BY <1>1 DEF PutSteps, PutGoesOn, PutIsDone, PutBreaks, Fixed, Proxy!NotFound, ProxyBase, ProxyTypes
<1>4. stored' \in [Proxy!Nodes -> ProxyContents]
  BY <1>1, WritesContents DEF PutSteps, PutGoesOn, PutIsDone, PutBreaks, ProxyBase, ProxyTypes
<1>5. \A v \in Users : \A s \in reqs[v] : s.op = "put" => s.id \in current /\ s.id \notin r.old
  BY <1>1 DEF ProxyBase, ProxyRequests, Putting
<1>6. mixed \in BOOLEAN
  BY DEF ProxyBase, ProxyTypes
<1>7. CASE PutGoesOn(u, r)
  <2>1. PICK s : s = [r EXCEPT !.at = @ + 1, !.acks = @ + 1]
    OBVIOUS
  <2>2. reqs' = [reqs EXCEPT ![u] = {s}] /\ current' = current /\ mixed' = mixed /\ r.at < Proxy!Visits
    BY <1>7, <2>1 DEF PutGoesOn
  <2>3. s \in PutRequests /\ s.op = "put" /\ s.id = r.id /\ s.old = r.old /\ s.at = r.at + 1
    <3>1. PICK a \in Nat, b \in Nat : a = r.at + 1 /\ b = r.acks + 1
      BY <1>2 DEF PutRequests
    <3>2. s = [r EXCEPT !.at = a, !.acks = b]
      BY <2>1, <3>1
    <3>. QED BY <1>2, <3>1, <3>2 DEF PutRequests
  <2>4. s.at \in 1 .. Proxy!Visits'
    BY <1>2, <1>3, <2>2, <2>3, SameMode DEF Putting, Proxy!Visits
  <2>5. ~Proxy!TooShort(Puts[s.id])'
    BY <1>2, <1>3, <2>3, SameMode DEF Putting, PutRequests
  <2>6. Putting(s)'
    BY <1>2, <1>3, <2>2, <2>3, <2>4, <2>5 DEF Putting
  <2>9. LeavesWith(u, {s})
    BY <1>1, <1>3, <1>4, <1>5, <1>6, <2>2, <2>3, <2>6 DEF LeavesWith, FitsIn
  <2>. QED BY <2>9, ProxyBaseRest
<1>8. CASE PutIsDone(u, r)
  <2>1. reqs' = [reqs EXCEPT ![u] = {}] /\ mixed' \in BOOLEAN
    BY <1>6, <1>8 DEF PutIsDone
  <2>2. current' = current \/ current' = current \ r.old
    BY <1>8 DEF PutIsDone
  <2>9. LeavesWith(u, {})
    BY <1>3, <1>4, <1>5, <2>1, <2>2 DEF LeavesWith, FitsIn
  <2>. QED BY <2>9, ProxyBaseRest
<1>9. CASE PutBreaks(u, r)
  <2>1. reqs' = [reqs EXCEPT ![u] = {}] /\ mixed' = mixed /\ current' = current
    BY <1>9 DEF PutBreaks
  <2>9. LeavesWith(u, {})
    BY <1>3, <1>4, <1>5, <1>6, <2>1 DEF LeavesWith, FitsIn
  <2>. QED BY <2>9, ProxyBaseRest
<1>. QED BY <1>1, <1>7, <1>8, <1>9 DEF PutSteps

LEMMA ProxyBaseGet ==
    ASSUME ProxyBase, NEW u \in Users, Proxy!GetNode(u)
    PROVE  ProxyBase'
<1>1. PICK r \in reqs[u] : r.op = "get" /\ GetSteps(u, r)
  BY GetNodeSteps
<1>2. Getting(r) /\ r \in GetRequests
  BY <1>1 DEF ProxyBase, ProxyRequests, Getting
<1>3. /\ mode' = mode /\ home' = home /\ begun' = begun /\ serial' \in BOOLEAN
      /\ mixed' \in BOOLEAN /\ current' = current /\ begun \in Nat
      /\ stored' \in [Proxy!Nodes -> ProxyContents]
  <2>1. GetRests
    BY <1>1 DEF GetSteps, GetGoesOn, GetFinds, GetFails
  <2>. QED BY <2>1 DEF GetRests, Fixed, ProxyBase, ProxyTypes
<1>4. \A v \in Users : \A s \in reqs[v] : s.op = "put" => s.id \in current'
  BY <1>3 DEF ProxyBase, ProxyRequests, Putting
<1>5. newest \in Nat
  BY DEF ProxyBase, ProxyTypes
<1>6. CASE GetFails(u)
  <2>1. reqs' = [reqs EXCEPT ![u] = {}] /\ newest' \in Nat
    BY <1>5, <1>6 DEF GetFails, Proxy!NotFound
  <2>9. LeavesWith(u, {})
    BY <1>3, <1>4, <2>1 DEF LeavesWith
  <2>. QED BY <2>9, ProxyBaseRest
<1>7. ASSUME NEW x, Sees(r, x), GetGoesOn(u, r, x) PROVE ProxyBase'
  <2>1. PICK s : s = [r EXCEPT !.at = @ + 1, !.seen = Append(r.seen, x)]
    OBVIOUS
  <2>2. reqs' = [reqs EXCEPT ![u] = {s}] /\ newest' \in Nat /\ r.at < Proxy!Visits
    BY <1>5, <1>7, <2>1 DEF GetGoesOn, Proxy!NotFound
  <2>3. x \in ProxyContents
    <3>1. Proxy!Visited(r.at) \in Proxy!Nodes
      BY <1>2, VisitedIs DEF Getting
    <3>. QED BY <1>7, <3>1 DEF Sees, ProxyBase, ProxyTypes, ProxyContents
  <2>4. PICK t : t = Append(r.seen, x)
    OBVIOUS
  <2>5. t \in Seq(ProxyContents) /\ Len(t) = Len(r.seen) + 1
    BY <1>2, <2>3, <2>4 DEF GetRequests
  <2>6. /\ s \in GetRequests /\ s.op = "get" /\ s.at = r.at + 1 /\ s.seen = t
        /\ s.first = r.first /\ s.may = r.may
    <3>1. PICK a \in Nat : a = r.at + 1
      BY <1>2 DEF GetRequests
    <3>2. s = [r EXCEPT !.at = a, !.seen = t]
      BY <2>1, <2>4, <3>1
    <3>. QED BY <1>2, <2>5, <3>1, <3>2 DEF GetRequests
  <2>7. s.at \in 1 .. Proxy!Visits' /\ Len(s.seen) = s.at - 1
    BY <1>2, <1>3, <2>2, <2>5, <2>6, SameMode DEF Getting, Proxy!Visits
  <2>8. Getting(s)'
    BY <1>2, <1>3, <2>6, <2>7 DEF Getting, Allowed
  <2>9. LeavesWith(u, {s})
    BY <1>3, <1>4, <2>2, <2>6, <2>8 DEF LeavesWith, FitsIn
  <2>. QED BY <2>9, ProxyBaseRest
<1>8. ASSUME NEW x, NEW v, Sees(r, x), GetFinds(u, r, x, v) PROVE ProxyBase'
  <2>1. reqs' = [reqs EXCEPT ![u] = {}] /\ newest' = Proxy!Max(Proxy!PutOf(v) \cup {newest})
    BY <1>8 DEF GetFinds, Proxy!Found
  <2>2. newest' \in Nat
    BY <1>5, <2>1, NewestIs
  <2>9. LeavesWith(u, {})
    BY <1>3, <1>4, <2>1, <2>2 DEF LeavesWith, FitsIn
  <2>. QED BY <2>9, ProxyBaseRest
<1>. QED BY <1>1, <1>6, <1>7, <1>8 DEF GetSteps

LEMMA ProxyBaseBeginGet ==
    ASSUME ProxyBase, NEW u \in Users, Proxy!BeginGet(u)
    PROVE  ProxyBase'
<1>1. PICK r : r = [op |-> "get", at |-> 1, seen |-> << >>, first |-> begun, may |-> current,
                    clean |-> ~mixed, floor |-> newest]
  OBVIOUS
<1>2. /\ reqs' = [reqs EXCEPT ![u] = {r}] 
      /\ UNCHANGED <<mode, home, stored, begun, current, mixed, serial, newest>>
  BY <1>1 DEF Proxy!BeginGet, Proxy!NotFound
<1>3. begun \in Nat /\ current \subseteq 1 .. begun /\ newest \in Nat /\ mixed \in BOOLEAN /\ serial \in BOOLEAN
  BY DEF ProxyBase, ProxyTypes
<1>4. Getting(r)'
  <2>1. r \in GetRequests
    <3>1. PICK c \in BOOLEAN : c = ~mixed
      BY <1>3
    <3>. QED BY <1>1, <1>3, <3>1 DEF GetRequests
  <2>2. 1 \in 1 .. Proxy!Visits'
    BY DEF Proxy!Visits
  <2>3. r.at = 1 /\ r.seen = << >> /\ r.first = begun /\ r.may = current
    BY <1>1
  <2>. QED BY <1>2, <1>3, <2>1, <2>2, <2>3 DEF Getting, Allowed
<1>5. \A v \in Users : \A s \in reqs[v] : s.op = "put" => s.id \in current'
  BY <1>2 DEF ProxyBase, ProxyRequests, Putting
<1>6. r.op = "get" /\ stored' \in [Proxy!Nodes -> ProxyContents]
  BY <1>1, <1>2 DEF ProxyBase, ProxyTypes
<1>9. LeavesWith(u, {r})
  BY <1>2, <1>3, <1>4, <1>5, <1>6 DEF LeavesWith, FitsIn
<1>. QED BY <1>9, ProxyBaseRest

\* Steps of the nodes, and those of other programs.
LEMMA ProxyBaseNodes ==
    ASSUME ProxyBase, UNCHANGED <<mode, home, reqs, begun, current, mixed, serial, newest>>,
           stored' \in [Proxy!Nodes -> ProxyContents]
    PROVE  ProxyBase'
<1>1. ProxyTypes'
  BY DEF ProxyBase, ProxyTypes, Proxy!Nodes
<1>2. ProxyRequests'
  <2>1. ASSUME NEW s PROVE (Putting(s) => Putting(s)') /\ (Getting(s) => Getting(s)')
    BY SameMode DEF Putting, Getting, Allowed, Proxy!TooShort
  <2>. QED BY <2>1 DEF ProxyBase, ProxyRequests
<1>. QED BY <1>1, <1>2, SameMode DEF ProxyBase

LEMMA ProxyFaults ==
    ASSUME ProxyBase, NEW n, Proxy!Fault(n) \/ Proxy!Reconnect(n) \/ UNCHANGED proxyVars
    PROVE  /\ UNCHANGED <<mode, home, reqs, begun, current, mixed, serial, newest>>
           /\ \A k \in Proxy!Nodes : stored'[k] \in {stored[k], NoValue}
           /\ stored' \in [Proxy!Nodes -> ProxyContents]
           /\ read' \in {Proxy!NoRead, read}
  BY DEF Proxy!Fault, Proxy!Reconnect, proxyVars, Proxy!NotFound, ProxyBase, ProxyTypes, ProxyContents

LEMMA ProxyBaseStep ==
    ASSUME ProxyBase, [Proxy!Next]_proxyVars
    PROVE  ProxyBase'
<1>1. ASSUME NEW n \in Proxy!Nodes, Proxy!Fault(n) \/ Proxy!Reconnect(n) PROVE ProxyBase'
  BY <1>1, ProxyFaults, ProxyBaseNodes
<1>2. ASSUME UNCHANGED proxyVars PROVE ProxyBase'
  BY <1>2, ProxyFaults, ProxyBaseNodes
<1>. QED BY <1>1, <1>2, ProxyBaseBegin, ProxyBasePut, ProxyBaseBeginGet, ProxyBaseGet DEF Proxy!Next

-----------------------------------------------------------------------------
(* Reads are current, when whole values are stored *)

Offered(x, I) == x = NoValue \/ \E i \in I : x = Puts[i]
Unlike(x, I) == x = NoValue \/ \A i \in I : x # Puts[i]

\* Nodes hold current puts; those that a put has visited hold none that it replaces;
\* a get has seen such as it allows.
CopyOf(r) ==
    /\ r.op = "put" => \A p \in 1 .. r.at - 1 : Unlike(stored[Proxy!Visited(p)], r.old)
    /\ r.op = "get" => \A j \in 1 .. Len(r.seen) : Offered(r.seen[j], Allowed(r))
ProxyCopies ==
    /\ \A n \in Proxy!Nodes : Offered(stored[n], current)
    /\ mode = "sharding" => \A n \in Proxy!Nodes \ {home} : stored[n] = NoValue
    /\ \A u \in Users : \A r \in reqs[u] : CopyOf(r)

CopiesInv == mode # RaidMode /\ ProxyBase /\ ProxyCopies

LEMMA CopiesInit ==
    ASSUME Proxy!Init, mode # RaidMode
    PROVE  CopiesInv
<1>1. ProxyBase
  BY ProxyInitBase, PartsFitElsewhere DEF Proxy!Init
<1>. QED BY <1>1 DEF Proxy!Init, CopiesInv, ProxyCopies, Offered

LEMMA CopiesBeginPut ==
    ASSUME CopiesInv, NEW u \in Users, Proxy!BeginPut(u)
    PROVE  CopiesInv' /\ read' = Proxy!NoRead
<1>1. /\ ProxyBase' /\ UNCHANGED <<mode, home, stored>> /\ begun' = begun + 1 /\ begun \in Nat
      /\ read' = Proxy!NoRead
  <2>1. ProxyBase' /\ begun \in Nat
    BY ProxyBaseBegin DEF CopiesInv, ProxyBase, ProxyTypes
  <2>. QED BY <2>1 DEF Proxy!BeginPut, Proxy!NotFound
<1>2. current \subseteq current' /\ \A v \in Users : \A s \in reqs'[v] : s \in reqs[v] \/ (s.op = "put" /\ s.at = 1)
  <2>1. CASE Proxy!TooShort(Puts[begun'])
    BY <2>1 DEF Proxy!BeginPut
  <2>2. CASE ~Proxy!TooShort(Puts[begun'])
    <3>1. PICK s : reqs' = [reqs EXCEPT ![u] = {s}] /\ s.op = "put" /\ s.at = 1
      <4>1. PICK s : s = [op |-> "put", id |-> begun', at |-> 1, acks |-> 0,
                          alone |-> Proxy!Running("put") = {},
                          old |-> current \ {q.id : q \in UNION {reqs[v] : v \in Proxy!Running("put")}}]
        OBVIOUS
      <4>2. reqs' = [reqs EXCEPT ![u] = {s}]
        BY <2>2, <4>1 DEF Proxy!BeginPut
      <4>3. s.op = "put" /\ s.at = 1
        BY <4>1
      <4>. QED BY <4>2, <4>3, Zenon
    <3>2. current' = current \cup {begun'}
      BY <2>2 DEF Proxy!BeginPut
    <3>. QED BY <3>1, <3>2 DEF CopiesInv, ProxyBase, ProxyTypes
  <2>. QED BY <2>1, <2>2
<1>3. ASSUME NEW v \in Users, NEW s \in reqs'[v] PROVE CopyOf(s)'
  <2>1. CASE s \in reqs[v]
    <3>1. CopyOf(s) /\ (s.op = "get" => Getting(s))
      BY <2>1 DEF CopiesInv, ProxyCopies, ProxyBase, ProxyRequests
    <3>2. s.op = "get" => Allowed(s) \subseteq Allowed(s)'
      BY <1>1, <3>1 DEF Getting, Allowed
    <3>. QED BY <1>1, <3>1, <3>2 DEF CopyOf, Offered, Unlike, Proxy!Visited
  <2>2. CASE s.op = "put" /\ s.at = 1
    BY <2>2 DEF CopyOf
  <2>. QED BY <1>2, <2>1, <2>2
<1>4. \A n \in Proxy!Nodes' : Offered(stored[n], current)'
  BY <1>1, <1>2 DEF CopiesInv, ProxyCopies, Offered, Proxy!Nodes
<1>. QED BY <1>1, <1>3, <1>4 DEF CopiesInv, ProxyCopies, Proxy!Nodes

LEMMA CopiesPut ==
    ASSUME CopiesInv, NEW u \in Users, Proxy!PutNode(u)
    PROVE  CopiesInv' /\ read' = Proxy!NoRead
<1>1. PICK r \in reqs[u] : r.op = "put" /\ PutSteps(u, r)
  BY PutNodeSteps DEF CopiesInv
<1>2. /\ ProxyBase' /\ UNCHANGED <<mode, home, begun>> /\ read' = Proxy!NoRead
  BY <1>1, ProxyBasePut DEF CopiesInv, PutSteps, PutGoesOn, PutIsDone, PutBreaks, Fixed, Proxy!NotFound
<1>3. Putting(r) /\ r.id \in DOMAIN Puts /\ r.id \notin r.old
  BY <1>1 DEF CopiesInv, ProxyBase, ProxyRequests, ProxyTypes, Putting
<1>4. Proxy!Visited(r.at) \in Proxy!Nodes /\ Proxy!Parts(Puts[r.id])[r.at] = Puts[r.id]
  BY <1>3, VisitedIs, PartsFitElsewhere DEF CopiesInv, ProxyBase, ProxyTypes, Putting
<1>5. \A n \in Proxy!Nodes : stored'[n] = stored[n] \/ stored'[n] = Puts[r.id]
  BY <1>1, <1>4 DEF PutSteps, PutGoesOn, PutIsDone, PutBreaks, Writes, CopiesInv, ProxyBase, ProxyTypes
<1>6. mode = "sharding" => \A n \in Proxy!Nodes \ {home} : stored'[n] = stored[n]
  BY <1>1 DEF PutSteps, PutGoesOn, PutIsDone, PutBreaks, Writes, CopiesInv, ProxyBase, ProxyTypes, Proxy!Visited
<1>7. ASSUME NEW v \in Users, NEW s \in reqs[v], s.op = "put", NEW n \in Proxy!Nodes,
             Unlike(stored[n], s.old)
      PROVE  Unlike(stored'[n], s.old)
  <2>1. r.id \notin s.old /\ s.old \subseteq DOMAIN Puts
    BY <1>1, <1>7 DEF CopiesInv, ProxyBase, ProxyRequests, ProxyTypes, Putting
  <2>. QED BY <1>3, <1>5, <1>7, <2>1 DEF Unlike
<1>8. ASSUME NEW v \in Users, NEW s \in reqs[v] PROVE CopyOf(s)'
  <2>1. CopyOf(s) /\ (s.op = "put" => Putting(s))
    BY DEF CopiesInv, ProxyCopies, ProxyBase, ProxyRequests
  <2>2. ASSUME s.op = "put", NEW p \in 1 .. s.at - 1 PROVE Unlike(stored'[Proxy!Visited(p)], s.old)
    <3>1. p \in 1 .. Proxy!Visits
      BY <2>1, <2>2 DEF Putting, Proxy!Visits
    <3>. QED BY <1>7, <2>1, <2>2, <3>1, VisitedIs DEF CopyOf, CopiesInv
  <2>3. \A p : Proxy!Visited(p)' = Proxy!Visited(p)
    BY <1>2 DEF Proxy!Visited
  <2>. QED BY <1>2, <2>1, <2>2, <2>3 DEF CopyOf, Allowed, Offered, Unlike
<1>9. ASSUME NEW p \in 1 .. r.at, PutGoesOn(u, r) \/ PutIsDone(u, r)
      PROVE  Unlike(stored'[Proxy!Visited(p)], r.old)
  <2>1. CASE p = r.at
    <3>1. stored'[Proxy!Visited(p)] = Puts[r.id]
      BY <1>4, <1>9, <2>1 DEF PutGoesOn, PutIsDone, Writes, CopiesInv, ProxyBase, ProxyTypes
    <3>2. r.old \subseteq DOMAIN Puts
      BY <1>3 DEF Putting, CopiesInv, ProxyBase, ProxyTypes
    <3>. QED BY <1>3, <3>1, <3>2 DEF Unlike
  <2>2. CASE p # r.at
    <3>1. p \in 1 .. r.at - 1 /\ p \in 1 .. Proxy!Visits
      BY <1>3, <2>2 DEF Putting, Proxy!Visits
    <3>2. Unlike(stored[Proxy!Visited(p)], r.old)
      BY <1>1, <3>1 DEF CopiesInv, ProxyCopies, CopyOf
    <3>. QED BY <1>1, <1>7, <3>1, <3>2, VisitedIs DEF CopiesInv
  <2>. QED BY <2>1, <2>2
<1>10. \A v \in Users : \A s \in reqs'[v] : CopyOf(s)'
  <2>1. CASE PutGoesOn(u, r)
    <3>1. PICK s : s = [r EXCEPT !.at = @ + 1, !.acks = @ + 1]
      OBVIOUS
    <3>2. s.op = "put" /\ s.at = r.at + 1 /\ s.old = r.old
      BY <1>1, <1>3, <3>1 DEF Putting, PutRequests
    <3>3. \A p \in 1 .. s.at - 1 : Unlike(stored'[Proxy!Visited(p)], s.old)
      BY <1>3, <1>9, <2>1, <3>2 DEF Putting
    <3>4. \A p : Proxy!Visited(p)' = Proxy!Visited(p)
      BY <1>2 DEF Proxy!Visited
    <3>5. CopyOf(s)'
      BY <3>2, <3>3, <3>4 DEF CopyOf, Unlike
    <3>6. \A v \in Users : \A t \in reqs'[v] : t = s \/ t \in reqs[v]
      BY <2>1, <3>1 DEF PutGoesOn, CopiesInv, ProxyBase, ProxyTypes
    <3>. QED BY <1>8, <3>5, <3>6
  <2>2. CASE PutIsDone(u, r) \/ PutBreaks(u, r)
    <3>1. \A v \in Users : \A t \in reqs'[v] : t \in reqs[v]
      BY <2>2 DEF PutIsDone, PutBreaks, CopiesInv, ProxyBase, ProxyTypes
    <3>. QED BY <1>8, <3>1
  <2>. QED BY <1>1, <2>1, <2>2 DEF PutSteps
<1>11. ASSUME NEW n \in Proxy!Nodes PROVE Offered(stored'[n], current')
  <2>1. Offered(stored'[n], current)
    BY <1>3, <1>5 DEF CopiesInv, ProxyCopies, Offered, Putting
  <2>2. CASE current' = current
    BY <2>1, <2>2
  <2>3. CASE PutIsDone(u, r) /\ current' = current \ r.old
    <3>1. CASE mode = "sharding" /\ n # home
      BY <1>6, <3>1 DEF CopiesInv, ProxyCopies, Offered
    <3>2. CASE ~(mode = "sharding" /\ n # home)
      <4>1. PICK p \in 1 .. Proxy!Visits : Proxy!Visited(p) = n
        <5>1. 1 \in 1 .. Proxy!Visits
          BY DEF Proxy!Visits
        <5>2. mode # "sharding" => n \in 1 .. Proxy!Visits
          BY DEF Proxy!Nodes, Proxy!Visits
        <5>. QED BY <3>2, <5>1, <5>2 DEF Proxy!Visited
      <4>2. p \in 1 .. r.at
        BY <2>3 DEF PutIsDone
      <4>3. Unlike(stored'[n], r.old)
        BY <1>9, <2>3, <4>1, <4>2
      <4>. QED BY <2>1, <2>3, <4>3 DEF Unlike, Offered
    <3>. QED BY <3>1, <3>2
  <2>. QED BY <1>1, <2>2, <2>3 DEF PutSteps, PutGoesOn, PutIsDone, PutBreaks
<1>12. mode = "sharding" => \A n \in Proxy!Nodes \ {home} : stored'[n] = NoValue
  BY <1>6 DEF CopiesInv, ProxyCopies
<1>13. \A n \in Proxy!Nodes' : Offered(stored[n], current)'
  BY <1>11 DEF Offered, Proxy!Nodes
<1>. QED BY <1>2, <1>10, <1>12, <1>13 DEF CopiesInv, ProxyCopies, Proxy!Nodes

LEMMA CopiesBeginGet ==
    ASSUME CopiesInv, NEW u \in Users, Proxy!BeginGet(u)
    PROVE  CopiesInv' /\ read' = Proxy!NoRead
<1>1. PICK r : /\ reqs' = [reqs EXCEPT ![u] = {r}] /\ r.op = "get" /\ r.seen = << >>
  <2>1. PICK r : r = [op |-> "get", at |-> 1, seen |-> << >>, first |-> begun, may |-> current,
                      clean |-> ~mixed, floor |-> newest]
    OBVIOUS
  <2>2. reqs' = [reqs EXCEPT ![u] = {r}]
    BY <2>1 DEF Proxy!BeginGet
  <2>3. r.op = "get" /\ r.seen = << >>
    BY <2>1
  <2>. QED BY <2>2, <2>3, Zenon
<1>2. UNCHANGED <<mode, home, stored, begun, current>> /\ read' = Proxy!NoRead /\ ProxyBase'
  BY ProxyBaseBeginGet DEF Proxy!BeginGet, Proxy!NotFound, CopiesInv
<1>3. \A v \in Users : \A s \in reqs'[v] : s = r \/ s \in reqs[v]
  BY <1>1 DEF CopiesInv, ProxyBase, ProxyTypes
<1>4. CopyOf(r)'
  BY <1>1 DEF CopyOf
<1>5. ASSUME NEW v \in Users, NEW s \in reqs[v] PROVE CopyOf(s)'
  BY <1>2 DEF CopyOf, CopiesInv, ProxyCopies, Allowed, Offered, Unlike, Proxy!Visited
<1>. QED BY <1>2, <1>3, <1>4, <1>5 DEF CopiesInv, ProxyCopies, Proxy!Nodes, Offered

LEMMA CopiesGet ==
    ASSUME CopiesInv, NEW u \in Users, Proxy!GetNode(u)
    PROVE  CopiesInv' /\ ReadsAreCurrent'
<1>1. PICK r \in reqs[u] : r.op = "get" /\ GetSteps(u, r)
  BY GetNodeSteps DEF CopiesInv
<1>2. Getting(r) /\ CopyOf(r) /\ r \in GetRequests
  BY <1>1 DEF CopiesInv, ProxyCopies, ProxyBase, ProxyRequests, Getting
<1>3. /\ UNCHANGED <<mode, home, stored, begun, current>> /\ ProxyBase'
  <2>1. GetRests
    BY <1>1 DEF GetSteps, GetGoesOn, GetFinds, GetFails
  <2>. QED BY <2>1, ProxyBaseGet DEF GetRests, Fixed, CopiesInv
<1>4. ASSUME NEW x, Sees(r, x) PROVE Offered(x, Allowed(r)) /\ x \in ProxyContents
  <2>1. Proxy!Visited(r.at) \in Proxy!Nodes
    BY <1>2, VisitedIs DEF Getting, CopiesInv
  <2>2. Offered(x, current) /\ x \in ProxyContents
    <3>1. /\ Offered(stored[Proxy!Visited(r.at)], current)
          /\ stored[Proxy!Visited(r.at)] \in ProxyContents
      BY <2>1 DEF CopiesInv, ProxyCopies, ProxyBase, ProxyTypes
    <3>2. Offered(NoValue, current) /\ NoValue \in ProxyContents
      BY DEF Offered, ProxyContents
    <3>. QED BY <1>4, <3>1, <3>2 DEF Sees
  <2>. QED BY <1>2, <2>2 DEF Getting, Offered
<1>5. ASSUME NEW x, Sees(r, x), NEW j \in 1 .. Len(Append(r.seen, x))
      PROVE  Offered(Append(r.seen, x)[j], Allowed(r))
  <2>1. PICK t : t = Append(r.seen, x)
    OBVIOUS
  <2>2. r.seen \in Seq(ProxyContents) /\ x \in ProxyContents /\ Offered(x, Allowed(r))
    BY <1>2, <1>4, <1>5 DEF GetRequests
  <2>3. t[j] = x \/ (j \in 1 .. Len(r.seen) /\ t[j] = r.seen[j])
    BY <1>5, <2>1, <2>2
  <2>. QED BY <1>1, <1>2, <2>1, <2>2, <2>3 DEF CopyOf
<1>6. ASSUME NEW v \in Users, NEW s \in reqs[v] PROVE CopyOf(s)'
  BY <1>3 DEF CopyOf, CopiesInv, ProxyCopies, Allowed, Offered, Unlike, Proxy!Visited
<1>7. ASSUME \A v \in Users : \A s \in reqs'[v] : CopyOf(s)' PROVE CopiesInv'
  BY <1>3, <1>7 DEF CopiesInv, ProxyCopies, Proxy!Nodes, Offered
<1>8. CASE GetFails(u)
  <2>1. \A v \in Users : \A s \in reqs'[v] : s \in reqs[v]
    BY <1>8 DEF GetFails, CopiesInv, ProxyBase, ProxyTypes
  <2>2. read' = Proxy!NoRead
    BY <1>8 DEF GetFails, Proxy!NotFound
  <2>. QED BY <1>6, <1>7, <2>1, <2>2 DEF ReadsAreCurrent, Proxy!ReadsAreCurrent, Proxy!NoRead
<1>9. ASSUME NEW x, Sees(r, x), GetGoesOn(u, r, x) PROVE CopiesInv' /\ ReadsAreCurrent'
  <2>1. PICK t : t = Append(r.seen, x)
    OBVIOUS
  <2>2. PICK s : s = [r EXCEPT !.at = @ + 1, !.seen = t]
    OBVIOUS
  <2>3. s.op = "get" /\ s.seen = t /\ s.may = r.may /\ s.first = r.first
    BY <1>2, <2>2 DEF GetRequests
  <2>4. CopyOf(s)'
    <3>1. \A j \in 1 .. Len(t) : Offered(t[j], Allowed(r))
      BY <1>5, <1>9, <2>1
    <3>2. Allowed(s)' = Allowed(r)
      BY <1>3, <2>3 DEF Allowed
    <3>. QED BY <2>3, <3>1, <3>2 DEF CopyOf, Offered
  <2>5. \A v \in Users : \A q \in reqs'[v] : q = s \/ q \in reqs[v]
    BY <1>9, <2>1, <2>2 DEF GetGoesOn, CopiesInv, ProxyBase, ProxyTypes
  <2>6. read' = Proxy!NoRead
    BY <1>9 DEF GetGoesOn, Proxy!NotFound
  <2>. QED BY <1>6, <1>7, <2>4, <2>5, <2>6 DEF ReadsAreCurrent, Proxy!ReadsAreCurrent, Proxy!NoRead
<1>10. ASSUME NEW x, NEW v, Sees(r, x), GetFinds(u, r, x, v) PROVE CopiesInv' /\ ReadsAreCurrent'
  <2>1. \A w \in Users : \A s \in reqs'[w] : s \in reqs[w]
    BY <1>10 DEF GetFinds, CopiesInv, ProxyBase, ProxyTypes
  <2>2. v # NoValue /\ Offered(v, Allowed(r))
    <3>1. CASE mode = QuorumMode
      <4>1. PICK t : t = Append(r.seen, x)
        OBVIOUS
      <4>2. t \in Seq(ProxyContents)
        BY <1>2, <1>4, <1>10, <4>1 DEF GetRequests
      <4>3. v \in Proxy!Agreed(t)
        BY <1>10, <3>1, <4>1 DEF GetFinds, Answers
      <4>4. v # NoValue /\ \E j \in DOMAIN t : v = t[j]
        BY <4>3 DEF Proxy!Agreed, Proxy!ToSet
      <4>5. DOMAIN t = 1 .. Len(t)
        BY <4>2
      <4>. QED BY <1>5, <1>10, <4>1, <4>4, <4>5
    <3>2. CASE mode # QuorumMode
      BY <1>4, <1>10, <3>2 DEF GetFinds, CopiesInv
    <3>. QED BY <3>1, <3>2
  <2>3. read'.value = v /\ read'.may = Allowed(r)
    BY <1>10 DEF GetFinds, Proxy!Found, Allowed
  <2>. QED BY <1>6, <1>7, <2>1, <2>2, <2>3 DEF ReadsAreCurrent, Proxy!ReadsAreCurrent, Offered
<1>. QED BY <1>1, <1>8, <1>9, <1>10 DEF GetSteps

LEMMA CopiesNodes ==
    ASSUME CopiesInv, NEW n, Proxy!Fault(n) \/ Proxy!Reconnect(n) \/ UNCHANGED proxyVars
    PROVE  CopiesInv' /\ read' \in {Proxy!NoRead, read}
<1>1. /\ UNCHANGED <<mode, home, reqs, begun, current>> /\ ProxyBase'
      /\ \A k \in Proxy!Nodes : stored'[k] \in {stored[k], NoValue}
      /\ read' \in {Proxy!NoRead, read}
  BY ProxyFaults, ProxyBaseNodes DEF CopiesInv
<1>2. ASSUME NEW v \in Users, NEW s \in reqs[v] PROVE CopyOf(s)'
  <2>1. CopyOf(s) /\ (s.op = "put" => Putting(s))
    BY DEF CopiesInv, ProxyCopies, ProxyBase, ProxyRequests
  <2>2. ASSUME s.op = "put", NEW p \in 1 .. s.at - 1 PROVE Unlike(stored'[Proxy!Visited(p)], s.old)
    <3>1. p \in 1 .. Proxy!Visits
      BY <2>1, <2>2 DEF Putting, Proxy!Visits
    <3>. QED BY <1>1, <2>1, <2>2, <3>1, VisitedIs DEF CopyOf, Unlike, CopiesInv
  <2>3. \A p : Proxy!Visited(p)' = Proxy!Visited(p)
    BY <1>1 DEF Proxy!Visited
  <2>. QED BY <1>1, <2>1, <2>2, <2>3 DEF CopyOf, Allowed, Offered, Unlike
<1>. QED BY <1>1, <1>2 DEF CopiesInv, ProxyCopies, Proxy!Nodes, Offered

LEMMA CopiesStep ==
    ASSUME CopiesInv, ReadsAreCurrent, [Proxy!Next]_proxyVars
    PROVE  CopiesInv' /\ ReadsAreCurrent'
<1>1. ASSUME read' \in {Proxy!NoRead, read}, mode' = mode PROVE ReadsAreCurrent'
  BY <1>1 DEF ReadsAreCurrent, Proxy!ReadsAreCurrent, Proxy!NoRead
<1>2. ASSUME NEW n, Proxy!Fault(n) \/ Proxy!Reconnect(n) \/ UNCHANGED proxyVars
      PROVE  CopiesInv' /\ ReadsAreCurrent'
  BY <1>1, <1>2, CopiesNodes, ProxyFaults DEF CopiesInv
<1>3. ASSUME NEW u \in Users, Proxy!BeginPut(u) \/ Proxy!PutNode(u) \/ Proxy!BeginGet(u)
      PROVE  CopiesInv' /\ ReadsAreCurrent'
  <2>1. mode' = mode
    BY <1>3 DEF Proxy!BeginPut, Proxy!PutNode, Proxy!BeginGet
  <2>. QED BY <1>1, <1>3, <2>1, CopiesBeginPut, CopiesPut, CopiesBeginGet
<1>. QED BY <1>2, <1>3, CopiesGet DEF Proxy!Next

-----------------------------------------------------------------------------
(* With a quorum, reads do not go back *)

\* x is put k or a later one, or nothing; W is more than half of the nodes.
NotOlder(x, k) == x = NoValue \/ \E i \in 1 .. begun : i >= k /\ x = Puts[i]
Most(W) == W \subseteq Proxy!Nodes /\ 2 * Cardinality(W) > N

\* Most nodes hold nothing older than what a get returned before r began, nor did r
\* see older values there; a node holds nothing older than what r saw there.
WatchOf(r) ==
    /\ r.floor \in 0 .. begun
    /\ \E W : /\ Most(W)
              /\ \A n \in W : /\ NotOlder(stored[n], r.floor)
                              /\ n \in 1 .. Len(r.seen) => NotOlder(r.seen[n], r.floor)
    /\ \A n \in 1 .. Len(r.seen) : \A i \in 1 .. begun :
           r.seen[n] = Puts[i] => r.seen[n] = NoValue \/ NotOlder(stored[n], i)
Advancing ==
    /\ newest \in 0 .. begun
    /\ \E W : Most(W) /\ \A n \in W : NotOlder(stored[n], newest)
    /\ \A u \in Users : \A r \in reqs[u] : /\ r.op = "put" => r.id = begun
                                           /\ r.op = "get" => WatchOf(r)

AdvanceInv == mode = QuorumMode /\ CopiesInv /\ (serial => Advancing)

LEMMA MostMeet ==
    ASSUME NEW V, NEW W, Most(V), Most(W)
    PROVE  \E n \in Proxy!Nodes : n \in V /\ n \in W
<1>1. IsFiniteSet(Proxy!Nodes) /\ Cardinality(Proxy!Nodes) = N
  BY FS_Interval DEF Proxy!Nodes
<1>2. IsFiniteSet(V) /\ IsFiniteSet(W) /\ IsFiniteSet(V \cup W) /\ V \cup W \subseteq Proxy!Nodes
  <2>1. V \cup W \subseteq Proxy!Nodes
    BY DEF Most
  <2>. QED BY <1>1, <2>1, FS_Subset DEF Most
<1>3. /\ Cardinality(V) \in Nat /\ Cardinality(W) \in Nat /\ Cardinality(V \cap W) \in Nat
      /\ Cardinality(V \cup W) = Cardinality(V) + Cardinality(W) - Cardinality(V \cap W)
      /\ Cardinality(V \cup W) <= N
  <2>1. IsFiniteSet(V \cap W)
    BY <1>2, FS_Intersection
  <2>2. Cardinality(V \cup W) = Cardinality(V) + Cardinality(W) - Cardinality(V \cap W)
    BY <1>2, FS_Union
  <2>3. Cardinality(V \cup W) <= Cardinality(Proxy!Nodes)
    BY <1>1, <1>2, FS_Subset
  <2>. QED BY <1>1, <1>2, <2>1, <2>2, <2>3, FS_CardinalityType
<1>4. Cardinality(V \cap W) # 0
  BY <1>3 DEF Most
<1>5. V \cap W # {}
  BY <1>4, FS_EmptySet
<1>. QED BY <1>5 DEF Most

LEMMA AdvanceInit ==
    ASSUME Proxy!Init, mode = QuorumMode
    PROVE  AdvanceInv
<1>1. CopiesInv
  BY CopiesInit DEF QuorumMode, RaidMode
<1>2. Most(Proxy!Nodes)
  <2>1. Cardinality(Proxy!Nodes) = N
    BY FS_Interval DEF Proxy!Nodes
  <2>. QED BY <2>1 DEF Most
<1>3. \A n \in Proxy!Nodes : NotOlder(stored[n], newest)
  BY DEF Proxy!Init, NotOlder
<1>. QED BY <1>1, <1>2, <1>3 DEF Proxy!Init, AdvanceInv, Advancing

\* What is not older than put k remains so when the latest put writes.
LEMMA StaysNotOlder ==
    ASSUME AdvanceInv, begun' \in Nat, begun <= begun', NEW n, NEW k \in 0 .. begun,
           NotOlder(stored[n], k),
           \/ stored'[n] \in {stored[n], NoValue}
           \/ stored'[n] = Puts[begun] /\ begun > 0
    PROVE  NotOlder(stored[n], k)'
<1>1. begun \in Nat
  BY DEF AdvanceInv, CopiesInv, ProxyBase, ProxyTypes
<1>. QED BY <1>1 DEF NotOlder

LEMMA WatchStays ==
    ASSUME AdvanceInv, serial, begun' \in 0 .. Len(Puts), begun <= begun',
           \A n \in Proxy!Nodes : \/ stored'[n] \in {stored[n], NoValue}
                                  \/ stored'[n] = Puts[begun] /\ begun > 0,
           NEW u \in Users, NEW r \in reqs[u], r.op = "get"
    PROVE  WatchOf(r)'
<1>1. begun \in Nat /\ Getting(r) /\ WatchOf(r)
  BY DEF AdvanceInv, CopiesInv, ProxyBase, ProxyTypes, ProxyRequests, Advancing
<1>2. PICK W : /\ Most(W)
               /\ \A n \in W : /\ NotOlder(stored[n], r.floor)
                               /\ n \in 1 .. Len(r.seen) => NotOlder(r.seen[n], r.floor)
  BY <1>1 DEF WatchOf
<1>3. ASSUME NEW n \in W PROVE NotOlder(stored[n], r.floor)'
  <2>1. NotOlder(stored[n], r.floor) /\ n \in Proxy!Nodes /\ r.floor \in 0 .. begun
    BY <1>1, <1>2 DEF Most, WatchOf
  <2>2. begun' \in Nat
    OBVIOUS
  <2>. QED BY <2>1, <2>2, StaysNotOlder
<1>4. ASSUME NEW n \in W, n \in 1 .. Len(r.seen) PROVE NotOlder(r.seen[n], r.floor)'
  <2>1. NotOlder(r.seen[n], r.floor) /\ begun' \in Nat
    BY <1>2, <1>4
  <2>. QED BY <1>1, <2>1 DEF NotOlder
<1>5. ASSUME NEW n \in 1 .. Len(r.seen), NEW i \in 1 .. begun', r.seen[n] = Puts[i]
      PROVE  r.seen[n] = NoValue \/ NotOlder(stored[n], i)'
  <2>1. CASE r.seen[n] # NoValue
    <3>1. PICK j \in Allowed(r) : r.seen[n] = Puts[j]
      BY <2>1 DEF AdvanceInv, CopiesInv, ProxyCopies, CopyOf, Offered
    <3>2. j \in 1 .. begun /\ begun <= Len(Puts)
      <4>1. begun <= Len(Puts)
        BY DEF AdvanceInv, CopiesInv, ProxyBase, ProxyTypes
      <4>2. r.first \in Nat /\ r.may \subseteq 1 .. begun
        BY <1>1 DEF Getting
      <4>. QED BY <1>1, <3>1, <4>1, <4>2 DEF Allowed
    <3>3. NotOlder(stored[n], j)
      BY <1>1, <2>1, <3>1, <3>2 DEF WatchOf
    <3>4. n \in Proxy!Nodes
      BY <1>1 DEF Getting, Proxy!Visits, Proxy!Nodes, AdvanceInv, QuorumMode
    <3>5. NotOlder(stored[n], j)'
      <4>1. begun' \in Nat /\ j \in 0 .. begun
        BY <3>2
      <4>. QED BY <3>3, <3>4, <4>1, StaysNotOlder
    <3>6. i \in DOMAIN Puts /\ j \in DOMAIN Puts
      BY <1>1, <1>5, <3>2
    <3>7. j = i
      BY <1>5, <3>1, <3>6
    <3>. QED BY <3>5, <3>7
  <2>. QED BY <2>1
<1>6. r.floor \in 0 .. begun'
  BY <1>1 DEF WatchOf
<1>7. \E V : /\ Most(V)'
             /\ \A n \in V : /\ NotOlder(stored[n], r.floor)'
                             /\ n \in 1 .. Len(r.seen) => NotOlder(r.seen[n], r.floor)'
  BY <1>2, <1>3, <1>4 DEF Most, Proxy!Nodes
<1>. QED BY <1>5, <1>6, <1>7 DEF WatchOf

LEMMA AdvanceBeginPut ==
    ASSUME AdvanceInv, NEW u \in Users, Proxy!BeginPut(u)
    PROVE  AdvanceInv'
<1>1. CopiesInv' /\ begun \in Nat /\ begun' = begun + 1 /\ begun' \in 0 .. Len(Puts)
  <2>1. CopiesInv'
    BY CopiesBeginPut DEF AdvanceInv
  <2>2. begun \in Nat
    BY DEF AdvanceInv, CopiesInv, ProxyBase, ProxyTypes
  <2>3. begun' \in 0 .. Len(Puts)
    BY <2>1 DEF CopiesInv, ProxyBase, ProxyTypes
  <2>. QED BY <2>1, <2>2, <2>3 DEF Proxy!BeginPut
<1>2. UNCHANGED <<mode, stored, newest>>
  BY DEF Proxy!BeginPut, Proxy!NotFound
<1>3. ASSUME serial' PROVE Advancing'
  <2>1. serial /\ Proxy!Running("put") = {}
    BY <1>3 DEF Proxy!BeginPut
  <2>2. Advancing
    BY <2>1 DEF AdvanceInv
  <2>3. ~Proxy!TooShort(Puts[begun'])
    BY DEF Proxy!TooShort, AdvanceInv, QuorumMode
  <2>4. PICK s : reqs' = [reqs EXCEPT ![u] = {s}] /\ s.op = "put" /\ s.id = begun'
    <3>1. PICK s : s = [op |-> "put", id |-> begun', at |-> 1, acks |-> 0,
                        alone |-> Proxy!Running("put") = {},
                        old |-> current \ {q.id : q \in UNION {reqs[v] : v \in Proxy!Running("put")}}]
      OBVIOUS
    <3>2. reqs' = [reqs EXCEPT ![u] = {s}]
      BY <2>3, <3>1 DEF Proxy!BeginPut
    <3>3. s.op = "put" /\ s.id = begun'
      BY <3>1
    <3>. QED BY <3>2, <3>3, Zenon
  <2>5. \A v \in Users : \A r \in reqs'[v] : r = s \/ r \in reqs[v]
    BY <2>4 DEF AdvanceInv, CopiesInv, ProxyBase, ProxyTypes
  <2>6. \A v \in Users : \A r \in reqs[v] : r.op # "put"
    BY <2>1 DEF Proxy!Running
  <2>7. ASSUME NEW v \in Users, NEW r \in reqs'[v]
        PROVE  (r.op = "put" => r.id = begun') /\ (r.op = "get" => WatchOf(r)')
    <3>1. CASE r = s
      BY <2>4, <3>1
    <3>2. CASE r \in reqs[v]
      BY <1>1, <1>2, <2>1, <2>6, <3>2, WatchStays
    <3>. QED BY <2>5, <3>1, <3>2
  <2>8. PICK W : Most(W) /\ \A n \in W : NotOlder(stored[n], newest)
    BY <2>2 DEF Advancing
  <2>9. Most(W)' /\ \A n \in W : NotOlder(stored[n], newest)'
    BY <1>1, <1>2, <2>8 DEF Most, Proxy!Nodes, NotOlder
  <2>. QED BY <1>1, <1>2, <2>2, <2>7, <2>9 DEF Advancing
<1>. QED BY <1>1, <1>2, <1>3 DEF AdvanceInv

\* A step that begins no request and finds nothing.
LEMMA AdvanceKeeps ==
    ASSUME AdvanceInv, CopiesInv', UNCHANGED <<mode, begun, serial, newest>>,
           \A n \in Proxy!Nodes : \/ stored'[n] \in {stored[n], NoValue}
                                  \/ serial => stored'[n] = Puts[begun] /\ begun > 0,
           \A v \in Users : \A s \in reqs'[v] :
               \/ s \in reqs[v]
               \/ serial => /\ s.op = "put" => s.id = begun
                            /\ s.op = "get" => WatchOf(s)'
    PROVE  AdvanceInv'
<1>1. ASSUME serial PROVE Advancing'
  <2>1. Advancing /\ begun \in 0 .. Len(Puts) /\ begun' = begun
    BY <1>1 DEF AdvanceInv, CopiesInv, ProxyBase, ProxyTypes
  <2>2. PICK W : Most(W) /\ \A n \in W : NotOlder(stored[n], newest)
    BY <2>1 DEF Advancing
  <2>3. ASSUME NEW n \in W PROVE NotOlder(stored[n], newest)'
    <3>1. NotOlder(stored[n], newest) /\ n \in Proxy!Nodes /\ newest \in 0 .. begun
      BY <2>1, <2>2 DEF Most, Advancing
    <3>. QED BY <1>1, <2>1, <3>1, StaysNotOlder
  <2>4. Most(W)'
    BY <2>2 DEF Most, Proxy!Nodes
  <2>5. ASSUME NEW v \in Users, NEW s \in reqs'[v]
        PROVE  (s.op = "put" => s.id = begun') /\ (s.op = "get" => WatchOf(s)')
    <3>1. CASE s \in reqs[v]
      <4>1. s.op = "get" => WatchOf(s)'
        BY <1>1, <2>1, <3>1, WatchStays
      <4>. QED BY <2>1, <3>1, <4>1 DEF Advancing
    <3>. QED BY <1>1, <2>1, <3>1
  <2>. QED BY <2>1, <2>3, <2>4, <2>5 DEF Advancing
<1>. QED BY <1>1 DEF AdvanceInv

LEMMA AdvancePut ==
    ASSUME AdvanceInv, NEW u \in Users, Proxy!PutNode(u)
    PROVE  AdvanceInv'
<1>1. CopiesInv' /\ CopiesInv /\ ProxyBase /\ ProxyTypes
  BY CopiesPut DEF AdvanceInv, CopiesInv, ProxyBase
<1>2. PICK r \in reqs[u] : r.op = "put" /\ PutSteps(u, r)
  BY <1>1, PutNodeSteps
<1>3. Putting(r) /\ r \in PutRequests /\ r.id \in DOMAIN Puts /\ (serial => r.id = begun)
  BY <1>1, <1>2 DEF ProxyBase, ProxyRequests, ProxyTypes, Putting, AdvanceInv, Advancing
<1>4. UNCHANGED <<mode, begun, serial, newest>>
  BY <1>2 DEF PutSteps, PutGoesOn, PutIsDone, PutBreaks, Fixed, Proxy!NotFound
<1>5. Proxy!Parts(Puts[r.id])[r.at] = Puts[r.id]
  BY <1>1, <1>3, PartsFitElsewhere DEF CopiesInv, ProxyTypes, Putting
<1>6. \A n \in Proxy!Nodes : stored'[n] = stored[n] \/ stored'[n] = Puts[r.id]
  BY <1>1, <1>2, <1>5 DEF PutSteps, PutGoesOn, PutIsDone, PutBreaks, Writes, ProxyTypes
<1>7. serial => begun > 0
  BY <1>3
<1>8. \A v \in Users : \A s \in reqs'[v] :
          s \in reqs[v] \/ (s.op = "put" /\ s.id = r.id)
  <2>1. CASE PutGoesOn(u, r)
    <3>1. PICK s : s = [r EXCEPT !.at = @ + 1, !.acks = @ + 1]
      OBVIOUS
    <3>2. s.op = "put" /\ s.id = r.id
      BY <1>2, <1>3, <3>1 DEF PutRequests
    <3>3. reqs' = [reqs EXCEPT ![u] = {s}]
      BY <2>1, <3>1 DEF PutGoesOn
    <3>. QED BY <1>1, <3>2, <3>3 DEF ProxyTypes
  <2>2. CASE PutIsDone(u, r) \/ PutBreaks(u, r)
    BY <1>1, <2>2 DEF PutIsDone, PutBreaks, ProxyTypes
  <2>. QED BY <1>2, <2>1, <2>2 DEF PutSteps
<1>9. \A n \in Proxy!Nodes : \/ stored'[n] \in {stored[n], NoValue}
                             \/ serial => stored'[n] = Puts[begun] /\ begun > 0
  <2>1. ASSUME NEW n \in Proxy!Nodes
        PROVE  stored'[n] \in {stored[n], NoValue} \/ (serial => stored'[n] = Puts[begun] /\ begun > 0)
    <3>1. CASE stored'[n] = stored[n]
      BY <3>1
    <3>2. CASE stored'[n] = Puts[r.id]
      BY <1>3, <1>7, <3>2
    <3>. QED BY <1>6, <3>1, <3>2
  <2>. QED BY <2>1
<1>10. \A v \in Users : \A s \in reqs'[v] :
           \/ s \in reqs[v]
           \/ serial => /\ s.op = "put" => s.id = begun
                        /\ s.op = "get" => WatchOf(s)'
  BY <1>3, <1>8
<1>. QED BY <1>1, <1>4, <1>9, <1>10, AdvanceKeeps

LEMMA AdvanceBeginGet ==
    ASSUME AdvanceInv, NEW u \in Users, Proxy!BeginGet(u)
    PROVE  AdvanceInv'
<1>1. CopiesInv' /\ CopiesInv /\ ProxyTypes
  BY CopiesBeginGet DEF AdvanceInv, CopiesInv, ProxyBase
<1>2. UNCHANGED <<mode, begun, serial, newest, stored>>
  BY DEF Proxy!BeginGet, Proxy!NotFound
<1>3. PICK r : /\ reqs' = [reqs EXCEPT ![u] = {r}] /\ r.op = "get" /\ r.seen = << >> /\ r.floor = newest
  <2>1. PICK r : r = [op |-> "get", at |-> 1, seen |-> << >>, first |-> begun, may |-> current,
                      clean |-> ~mixed, floor |-> newest]
    OBVIOUS
  <2>2. reqs' = [reqs EXCEPT ![u] = {r}]
    BY <2>1 DEF Proxy!BeginGet
  <2>3. r.op = "get" /\ r.seen = << >> /\ r.floor = newest
    BY <2>1
  <2>. QED BY <2>2, <2>3, Zenon
<1>4. \A v \in Users : \A s \in reqs'[v] : s = r \/ s \in reqs[v]
  BY <1>1, <1>3 DEF ProxyTypes
<1>5. ASSUME serial PROVE WatchOf(r)'
  <2>1. Advancing
    BY <1>5 DEF AdvanceInv
  <2>2. PICK W : Most(W) /\ \A n \in W : NotOlder(stored[n], newest)
    BY <2>1 DEF Advancing
  <2>3. Most(W)' /\ \A n \in W : NotOlder(stored[n], r.floor)'
    BY <1>2, <1>3, <2>2 DEF Most, Proxy!Nodes, NotOlder
  <2>4. r.floor \in 0 .. begun'
    BY <1>2, <1>3, <2>1 DEF Advancing
  <2>. QED BY <1>3, <2>3, <2>4 DEF WatchOf
<1>6. \A n \in Proxy!Nodes : stored'[n] \in {stored[n], NoValue}
  BY <1>2
<1>7. \A v \in Users : \A s \in reqs'[v] :
           \/ s \in reqs[v]
           \/ serial => /\ s.op = "put" => s.id = begun
                        /\ s.op = "get" => WatchOf(s)'
  BY <1>3, <1>4, <1>5
<1>. QED BY <1>1, <1>2, <1>6, <1>7, AdvanceKeeps

LEMMA AdvanceNodes ==
    ASSUME AdvanceInv, NEW n, Proxy!Fault(n) \/ Proxy!Reconnect(n) \/ UNCHANGED proxyVars
    PROVE  AdvanceInv'
<1>1. /\ UNCHANGED <<mode, reqs, begun, serial, newest>> /\ CopiesInv'
      /\ \A k \in Proxy!Nodes : stored'[k] \in {stored[k], NoValue}
  BY ProxyFaults, CopiesNodes DEF AdvanceInv, CopiesInv
<1>. QED BY <1>1, AdvanceKeeps

LEMMA AdvanceGet ==
    ASSUME AdvanceInv, NEW u \in Users, Proxy!GetNode(u)
    PROVE  AdvanceInv' /\ QuorumReadsAdvance'
<1>1. CopiesInv' /\ CopiesInv /\ ProxyBase /\ ProxyTypes
  BY CopiesGet DEF AdvanceInv, CopiesInv, ProxyBase
<1>2. PICK r \in reqs[u] : r.op = "get" /\ GetSteps(u, r)
  BY <1>1, GetNodeSteps
<1>3. Getting(r) /\ r \in GetRequests /\ (serial => WatchOf(r)) /\ r.at \in Nat
  BY <1>1, <1>2 DEF ProxyBase, ProxyRequests, Getting, AdvanceInv, Advancing, Proxy!Visits
<1>4. UNCHANGED <<mode, begun, serial, stored>> /\ begun \in 0 .. Len(Puts)
  <2>1. GetRests
    BY <1>2 DEF GetSteps, GetGoesOn, GetFinds, GetFails
  <2>. QED BY <1>1, <2>1 DEF GetRests, Fixed, ProxyTypes
<1>5. r.at \in Proxy!Nodes /\ Proxy!Visited(r.at) = r.at /\ Proxy!Visits = N
  BY <1>3 DEF Getting, Proxy!Visits, Proxy!Visited, Proxy!Nodes, AdvanceInv, QuorumMode
<1>6. ASSUME newest' = newest, \A v \in Users : \A s \in reqs'[v] :
                   \/ s \in reqs[v]
                   \/ serial => /\ s.op = "put" => s.id = begun
                                /\ s.op = "get" => WatchOf(s)'
      PROVE  AdvanceInv'
  <2>1. \A n \in Proxy!Nodes : stored'[n] \in {stored[n], NoValue}
    BY <1>4
  <2>. QED BY <1>1, <1>4, <1>6, <2>1, AdvanceKeeps
<1>7. ASSUME read' = Proxy!NoRead PROVE QuorumReadsAdvance'
  BY <1>7 DEF QuorumReadsAdvance, Proxy!QuorumReadsAdvance, Proxy!NoRead
<1>8. CASE GetFails(u)
  <2>1. \A v \in Users : \A s \in reqs'[v] : s \in reqs[v]
    BY <1>1, <1>8 DEF GetFails, ProxyTypes
  <2>2. read' = Proxy!NoRead /\ newest' = newest
    BY <1>8 DEF GetFails, Proxy!NotFound
  <2>. QED BY <1>6, <1>7, <2>1, <2>2
\* What is in t = Append(r.seen, x) is no older than what has been returned, nor
\* than what the nodes now hold.
<1>9. ASSUME NEW x, Sees(r, x), NEW t, t = Append(r.seen, x), serial
      PROVE  /\ t \in Seq(ProxyContents) /\ Len(t) = r.at
             /\ \E W : /\ Most(W)
                       /\ \A n \in W : /\ NotOlder(stored[n], r.floor)
                                       /\ n \in 1 .. Len(t) => NotOlder(t[n], r.floor)
             /\ \A n \in 1 .. Len(t) : \A i \in 1 .. begun :
                    t[n] = Puts[i] => t[n] = NoValue \/ NotOlder(stored[n], i)
  <2>1. x \in {stored[r.at], NoValue} /\ x \in ProxyContents
    BY <1>1, <1>5, <1>9 DEF Sees, ProxyTypes, ProxyContents
  <2>2. r.seen \in Seq(ProxyContents) /\ Len(r.seen) = r.at - 1 /\ WatchOf(r)
    BY <1>3, <1>9 DEF Getting, GetRequests
  <2>3. /\ t \in Seq(ProxyContents) /\ Len(t) = r.at /\ t[r.at] = x
        /\ \A n \in 1 .. r.at : n # r.at => n \in 1 .. Len(r.seen) /\ t[n] = r.seen[n]
    BY <1>3, <1>9, <2>1, <2>2
  <2>4. PICK W : /\ Most(W)
                 /\ \A n \in W : /\ NotOlder(stored[n], r.floor)
                                 /\ n \in 1 .. Len(r.seen) => NotOlder(r.seen[n], r.floor)
    BY <2>2 DEF WatchOf
  <2>5. ASSUME NEW n \in W, n \in 1 .. r.at PROVE NotOlder(t[n], r.floor)
    <3>1. CASE n = r.at
      BY <2>1, <2>3, <2>4, <3>1 DEF NotOlder
    <3>2. CASE n # r.at
      BY <2>3, <2>4, <2>5, <3>2
    <3>. QED BY <3>1, <3>2
  <2>6. ASSUME NEW n \in 1 .. r.at, NEW i \in 1 .. begun, t[n] = Puts[i]
        PROVE  t[n] = NoValue \/ NotOlder(stored[n], i)
    <3>1. CASE n = r.at
      BY <2>1, <2>3, <2>6, <3>1 DEF NotOlder
    <3>2. CASE n # r.at
      BY <2>2, <2>3, <2>6, <3>2 DEF WatchOf
    <3>. QED BY <3>1, <3>2
  <2>. QED BY <2>3, <2>4, <2>5, <2>6
<1>10. ASSUME NEW x, Sees(r, x), GetGoesOn(u, r, x) PROVE AdvanceInv' /\ QuorumReadsAdvance'
  <2>1. PICK t : t = Append(r.seen, x)
    OBVIOUS
  <2>2. PICK s : s = [r EXCEPT !.at = @ + 1, !.seen = t]
    OBVIOUS
  <2>3. s.op = "get" /\ s.seen = t /\ s.floor = r.floor
    BY <1>3, <2>2 DEF GetRequests
  <2>4. ASSUME serial PROVE WatchOf(s)'
    <3>1. PICK W : /\ Most(W)
                   /\ \A n \in W : /\ NotOlder(stored[n], r.floor)
                                   /\ n \in 1 .. Len(t) => NotOlder(t[n], r.floor)
      BY <1>9, <1>10, <2>1, <2>4
    <3>2. \A n \in 1 .. Len(t) : \A i \in 1 .. begun :
                t[n] = Puts[i] => t[n] = NoValue \/ NotOlder(stored[n], i)
      BY <1>9, <1>10, <2>1, <2>4
    <3>3. Most(W)' /\ \A n \in W : /\ NotOlder(stored[n], s.floor)'
                                   /\ n \in 1 .. Len(s.seen) => NotOlder(s.seen[n], s.floor)'
      BY <1>4, <2>3, <3>1 DEF Most, Proxy!Nodes, NotOlder
    <3>4. \A n \in 1 .. Len(s.seen) : \A i \in 1 .. begun' :
                s.seen[n] = Puts[i] => s.seen[n] = NoValue \/ NotOlder(stored[n], i)'
      BY <1>4, <2>3, <3>2 DEF NotOlder
    <3>5. s.floor \in 0 .. begun'
      BY <1>3, <1>4, <2>3, <2>4 DEF WatchOf
    <3>. QED BY <3>3, <3>4, <3>5 DEF WatchOf
  <2>5. \A v \in Users : \A q \in reqs'[v] : q = s \/ q \in reqs[v]
    BY <1>1, <1>10, <2>1, <2>2 DEF GetGoesOn, ProxyTypes
  <2>6. read' = Proxy!NoRead /\ newest' = newest
    BY <1>10 DEF GetGoesOn, Proxy!NotFound
  <2>. QED BY <1>6, <1>7, <2>3, <2>4, <2>5, <2>6
<1>11. ASSUME NEW x, NEW v, Sees(r, x), GetFinds(u, r, x, v)
       PROVE  AdvanceInv' /\ QuorumReadsAdvance'
  <2>1. PICK t : t = Append(r.seen, x)
    OBVIOUS
  <2>2. r.at = Proxy!Visits /\ v \in Proxy!Agreed(t)
    BY <1>11, <2>1 DEF GetFinds, Answers, AdvanceInv
  <2>3. /\ read'.value = v /\ read'.serial = serial /\ read'.floor = r.floor
        /\ newest' = Proxy!Max(Proxy!PutOf(v) \cup {newest})
    BY <1>11 DEF GetFinds, Proxy!Found
  <2>4. \A w \in Users : \A s \in reqs'[w] : s \in reqs[w]
    BY <1>1, <1>11 DEF GetFinds, ProxyTypes
  <2>5. ASSUME serial PROVE Advancing' /\ \A i \in Proxy!PutOf(v) : i >= r.floor
    <3>1. Advancing /\ WatchOf(r)
      BY <1>3, <2>5 DEF AdvanceInv
    <3>2. t \in Seq(ProxyContents) /\ Len(t) = N /\ DOMAIN t = Proxy!Nodes
      <4>1. t \in Seq(ProxyContents) /\ Len(t) = r.at
        BY <1>9, <1>11, <2>1, <2>5
      <4>2. Len(t) = N
        BY <1>5, <2>2, <4>1
      <4>3. DOMAIN t = 1 .. Len(t)
        BY <4>1
      <4>. QED BY <4>1, <4>2, <4>3 DEF Proxy!Nodes
    <3>3. PICK A : A = {i \in DOMAIN t : t[i] = v}
      OBVIOUS
    <3>4. v # NoValue /\ Most(A)
      <4>1. v # NoValue /\ 2 * Proxy!Cardinality(A) > N
        BY <2>2, <3>3 DEF Proxy!Agreed, Proxy!IsQuorum
      <4>. QED BY <3>2, <3>3, <4>1, SameCardinality DEF Most
    <3>5. PICK W : /\ Most(W)
                   /\ \A n \in W : /\ NotOlder(stored[n], r.floor)
                                   /\ n \in 1 .. Len(t) => NotOlder(t[n], r.floor)
      BY <1>9, <1>11, <2>1, <2>5
    <3>6. PICK n \in Proxy!Nodes : n \in A /\ n \in W
      BY <3>4, <3>5, MostMeet
    <3>7. NotOlder(v, r.floor)
      BY <3>2, <3>3, <3>5, <3>6 DEF Proxy!Nodes
    <3>8. PICK i \in 1 .. begun : i >= r.floor /\ v = Puts[i]
      BY <3>4, <3>7 DEF NotOlder
    <3>9. Proxy!PutOf(v) = {i}
      <4>1. i \in DOMAIN Puts
        BY <1>4, <3>8
      <4>. QED BY <3>8, <4>1 DEF Proxy!PutOf
    <3>10. i \in Nat /\ newest \in Nat /\ newest' \in {i, newest}
      <4>1. newest \in Nat /\ i \in Nat
        BY <3>1, <3>8 DEF Advancing
      <4>. QED BY <2>3, <3>9, <4>1, NewestIs
    <3>11. PICK V : Most(V) /\ \A k \in V : NotOlder(stored[k], newest')
      <4>1. CASE newest' = newest
        BY <3>1, <4>1 DEF Advancing
      <4>2. CASE newest' = i
        <5>1. \A k \in A : NotOlder(stored[k], i)
          <6>1. \A k \in 1 .. Len(t) : t[k] = Puts[i] => t[k] = NoValue \/ NotOlder(stored[k], i)
            BY <1>9, <1>11, <2>1, <2>5, <3>8
          <6>. QED BY <3>2, <3>3, <3>4, <3>8, <6>1 DEF Proxy!Nodes
        <5>. QED BY <3>4, <4>2, <5>1
      <4>. QED BY <3>10, <4>1, <4>2
    <3>12. Most(V)' /\ \A k \in V : NotOlder(stored[k], newest)'
      BY <1>4, <3>11 DEF Most, Proxy!Nodes, NotOlder
    <3>13. newest' \in 0 .. begun'
      BY <1>4, <3>1, <3>8, <3>10 DEF Advancing
    <3>14. ASSUME NEW w \in Users, NEW s \in reqs'[w]
           PROVE  (s.op = "put" => s.id = begun') /\ (s.op = "get" => WatchOf(s)')
      <4>1. \A k \in Proxy!Nodes : stored'[k] \in {stored[k], NoValue}
        BY <1>4
      <4>2. s.op = "get" => WatchOf(s)'
        BY <1>4, <2>4, <2>5, <4>1, WatchStays
      <4>. QED BY <1>4, <2>4, <3>1, <4>2 DEF Advancing
    <3>. QED BY <3>8, <3>9, <3>12, <3>13, <3>14 DEF Advancing
  <2>6. AdvanceInv'
    BY <1>1, <1>4, <2>5 DEF AdvanceInv
  <2>7. QuorumReadsAdvance'
    BY <2>3, <2>5 DEF QuorumReadsAdvance, Proxy!QuorumReadsAdvance, Proxy!PutOf
  <2>. QED BY <2>6, <2>7
<1>. QED BY <1>2, <1>8, <1>10, <1>11 DEF GetSteps

LEMMA AdvanceStep ==
    ASSUME AdvanceInv, QuorumReadsAdvance, [Proxy!Next]_proxyVars
    PROVE  AdvanceInv' /\ QuorumReadsAdvance'
<1>1. ASSUME read' \in {Proxy!NoRead, read}, mode' = mode PROVE QuorumReadsAdvance'
  BY <1>1 DEF QuorumReadsAdvance, Proxy!QuorumReadsAdvance, Proxy!NoRead, Proxy!PutOf
<1>2. ASSUME NEW n, Proxy!Fault(n) \/ Proxy!Reconnect(n) \/ UNCHANGED proxyVars
      PROVE  AdvanceInv' /\ QuorumReadsAdvance'
  BY <1>1, <1>2, AdvanceNodes, ProxyFaults DEF AdvanceInv, CopiesInv
<1>3. ASSUME NEW u \in Users, Proxy!BeginPut(u) \/ Proxy!PutNode(u) \/ Proxy!BeginGet(u)
      PROVE  AdvanceInv' /\ QuorumReadsAdvance'
  <2>1. mode' = mode /\ read' = Proxy!NoRead
    BY <1>3 DEF Proxy!BeginPut, Proxy!PutNode, Proxy!BeginGet, Proxy!NotFound
  <2>. QED BY <1>1, <1>3, <2>1, AdvanceBeginPut, AdvancePut, AdvanceBeginGet
<1>. QED BY <1>2, <1>3, AdvanceGet DEF Proxy!Next

LEMMA ProxyStep ==
    ASSUME [SmallNext]_allVars
    PROVE  [Proxy!Next]_proxyVars
  BY DEF SmallNext, RingRuns, OnceRuns, ChatRuns, RumourRuns, ProxyRuns, PingsRun, RaftRuns, FilesRun,
         allVars, proxyVars

LEMMA ModeStays ==
    ASSUME [Proxy!Next]_proxyVars
    PROVE  mode' = mode
  BY DEF Proxy!Next, Proxy!BeginPut, Proxy!PutNode, Proxy!BeginGet, Proxy!GetNode, Proxy!Fault,
         Proxy!Reconnect, proxyVars

\* While puts do not overlap, no get through ReplicatingQuorumProxy returns an older
\* value than a get that ended before it began, for any number of nodes and users,
\* whichever puts fail half-way and whichever nodes lose their data.
THEOREM QuorumReadsAdvanceHolds == SmallSpec => []QuorumReadsAdvance
<1> DEFINE Inv == (mode = QuorumMode => AdvanceInv) /\ QuorumReadsAdvance
<1>1. SmallInit => Inv
  BY AdvanceInit DEF SmallInit, QuorumReadsAdvance, Proxy!QuorumReadsAdvance, Proxy!Init, Proxy!NoRead
<1>2. Inv /\ [SmallNext]_allVars => Inv'
  <2>1. ASSUME Inv, [Proxy!Next]_proxyVars, mode = QuorumMode PROVE Inv'
    BY <2>1, AdvanceStep
  <2>2. ASSUME Inv, [Proxy!Next]_proxyVars, mode # QuorumMode PROVE Inv'
    <3>1. mode' # "replication-quorum"
      BY <2>2, ModeStays DEF QuorumMode
    <3>. QED BY <3>1 DEF QuorumReadsAdvance, Proxy!QuorumReadsAdvance, QuorumMode
  <2>. QED BY <2>1, <2>2, ProxyStep
<1>. QED BY <1>1, <1>2, PTL DEF SmallSpec

-----------------------------------------------------------------------------
(* What RAID 3 cuts, it joins *)

\* The bytes of a value, followed by zeros; it cut into w blocks of l bytes.
ByteOf(v, p) == IF p <= Len(v) THEN v[p] ELSE {}
Bytes(v, k) == [p \in 1 .. k |-> ByteOf(v, p)]
Block(v, l, c) == [j \in 1 .. l |-> ByteOf(v, c + j)]
Cut(v, w, l) == [i \in 1 .. w |-> Block(v, l, (i - 1) * l)]

LEMMA BytesType ==
    ASSUME NEW S, {} \in S, NEW v \in Seq(S), NEW k \in Nat
    PROVE  Bytes(v, k) \in Seq(S) /\ Len(Bytes(v, k)) = k
<1>1. \A p \in 1 .. k : ByteOf(v, p) \in S
  BY DEF ByteOf
<1>. QED BY <1>1 DEF Bytes

LEMMA BlockType ==
    ASSUME NEW S, {} \in S, NEW v \in Seq(S), NEW l \in Nat, NEW c \in Nat
    PROVE  Block(v, l, c) \in Seq(S) /\ Len(Block(v, l, c)) = l
<1>1. ASSUME NEW j \in 1 .. l PROVE ByteOf(v, c + j) \in S
  BY DEF ByteOf
<1>. QED BY <1>1 DEF Block

LEMMA CutLength ==
    ASSUME NEW S, {} \in S, NEW v \in Seq(S), NEW w \in Nat, NEW l \in Nat, NEW i \in 1 .. w
    PROVE  Cut(v, w, l)[i] \in Seq(S) /\ Len(Cut(v, w, l)[i]) = l
<1>1. PICK c \in Nat : c = (i - 1) * l
  <2>1. PICK h \in Nat : h = i - 1
    OBVIOUS
  <2>2. h * l \in Nat
    OBVIOUS
  <2>. QED BY <2>1, <2>2
<1>2. Cut(v, w, l)[i] = Block(v, l, c)
  BY <1>1 DEF Cut
<1>3. Block(v, l, c) \in Seq(S) /\ Len(Block(v, l, c)) = l
  <2> HIDE KvProxyAssumption
  <2>. QED BY BlockType
<1>. QED BY <1>2, <1>3, Zenon

LEMMA CutType ==
    ASSUME NEW S, {} \in S, NEW v \in Seq(S), NEW w \in Nat, NEW l \in Nat
    PROVE  Cut(v, w, l) \in Seq(Seq(S)) /\ Len(Cut(v, w, l)) = w
<1>1. PICK c : c = Cut(v, w, l)
  OBVIOUS
<1>2. \A i \in 1 .. w : c[i] \in Seq(S)
  BY <1>1, CutLength
<1>3. DOMAIN c = 1 .. w /\ c = [i \in 1 .. w |-> c[i]]
  BY <1>1 DEF Cut
<1>4. c \in [1 .. w -> Seq(S)]
  BY <1>2, <1>3
<1>5. c \in Seq(Seq(S)) /\ Len(c) = w
  BY <1>4
<1>. QED BY <1>1, <1>5

\* One more block.
LEMMA BytesGrow ==
    ASSUME NEW S, {} \in S, NEW v \in Seq(S), NEW w \in Nat, NEW l \in Nat, NEW k \in 2 .. w
    PROVE  Bytes(v, (k - 1) * l) \o Cut(v, w, l)[k] = Bytes(v, k * l)
<1>1. PICK c \in Nat, e \in Nat : c = (k - 1) * l /\ e = k * l /\ e = c + l
  <2>1. PICK h \in Nat : h = k - 1
    OBVIOUS
  <2>2. h * l \in Nat /\ k * l \in Nat /\ k * l = h * l + l
    BY <2>1
  <2>. QED BY <2>1, <2>2
<1>2. PICK b : b = Block(v, l, c)
  OBVIOUS
<1>3. Cut(v, w, l)[k] = b
  BY <1>1, <1>2 DEF Cut
<1>4. b \in Seq(S) /\ Len(b) = l /\ \A j \in 1 .. l : b[j] = ByteOf(v, c + j)
  <2>1. b \in Seq(S) /\ Len(b) = l
    BY <1>2, BlockType
  <2>. QED BY <1>2, <2>1 DEF Block
<1>5. PICK a : a = Bytes(v, c)
  OBVIOUS
<1>6. a \in Seq(S) /\ Len(a) = c /\ \A p \in 1 .. c : a[p] = ByteOf(v, p)
  <2>1. a \in Seq(S) /\ Len(a) = c
    BY <1>5, BytesType
  <2>. QED BY <1>5, <2>1 DEF Bytes
<1>7. PICK t : t = a \o b
  OBVIOUS
<1>8. /\ t \in Seq(S) /\ Len(t) = e
      /\ \A p \in 1 .. e : t[p] = IF p <= c THEN a[p] ELSE b[p - c]
  <2>1. a \in Seq(S) /\ b \in Seq(S)
    BY <1>4, <1>6
  <2>2. t \in Seq(S) /\ Len(t) = Len(a) + Len(b)
    BY <1>7, <2>1
  <2>3. \A p \in 1 .. Len(a) + Len(b) : t[p] = IF p <= Len(a) THEN a[p] ELSE b[p - Len(a)]
    BY <1>7, <2>1
  <2>. QED BY <1>1, <1>4, <1>6, <2>2, <2>3
<1>9. ASSUME NEW p \in 1 .. e PROVE t[p] = ByteOf(v, p)
  <2>1. CASE p <= c
    BY <1>6, <1>8, <2>1
  <2>2. CASE p > c
    <3>1. PICK j \in 1 .. l : j = p - c /\ p = c + j
      BY <1>1, <2>2
    <3>2. t[p] = b[j]
      BY <1>8, <2>2, <3>1
    <3>. QED BY <1>4, <3>1, <3>2
  <2>. QED BY <2>1, <2>2
<1>10. t = [p \in 1 .. e |-> ByteOf(v, p)]
  BY <1>8, <1>9
<1>. QED BY <1>1, <1>3, <1>5, <1>7, <1>10 DEF Bytes

\* One step of FlattenSeq, for all lengths.
Flattening(s, F) == [i \in 1 .. Len(s) |-> IF i = 1 THEN s[i] ELSE F[i - 1] \o s[i]]

LEMMA FlattenSteps ==
    ASSUME NEW s, Len(s) # 0, NEW F, F = Flattening(s, F)
    PROVE  \E G : FlattenSeq(s) = G[Len(s)] /\ G = Flattening(s, G)
<1> DEFINE G == CHOOSE G : G = Flattening(s, G)
<1>1. G = Flattening(s, G)
  BY Zenon
<1>2. FlattenSeq(s) = G[Len(s)]
  BY Zenon DEF FlattenSeq, Flattening
<1>. QED BY <1>1, <1>2

LEMMA FlattenCut ==
    ASSUME NEW S, {} \in S, NEW v \in Seq(S), NEW w \in Nat \ {0}, NEW l \in Nat
    PROVE  FlattenSeq(Cut(v, w, l)) = Bytes(v, w * l)
<1>1. PICK s : s = Cut(v, w, l)
  OBVIOUS
<1>2. Len(s) = w /\ s \in Seq(Seq(S))
  BY <1>1, CutType
<1>3. s[1] = Bytes(v, 1 * l)
  <2>1. s[1] = Block(v, l, (1 - 1) * l)
    BY <1>1 DEF Cut
  <2>2. (1 - 1) * l = 0 /\ 1 * l = l
    OBVIOUS
  <2>3. Block(v, l, 0) = Bytes(v, l)
    BY DEF Block, Bytes
  <2>. QED BY <2>1, <2>2, <2>3
<1>4. PICK F : F = [i \in 1 .. w |-> Bytes(v, i * l)]
  OBVIOUS
<1>5. ASSUME NEW i \in 2 .. w PROVE Bytes(v, i * l) = Bytes(v, (i - 1) * l) \o s[i]
  BY <1>1, <1>5, BytesGrow
<1>6. F = Flattening(s, F)
  <2>1. ASSUME NEW i \in 1 .. w PROVE F[i] = IF i = 1 THEN s[i] ELSE F[i - 1] \o s[i]
    <3>1. CASE i = 1
      BY <1>3, <1>4, <3>1
    <3>2. CASE i # 1
      <4>1. PICK h \in 1 .. w : h = i - 1
        BY <3>2
      <4>2. F[i] = Bytes(v, i * l) /\ F[h] = Bytes(v, (i - 1) * l) /\ i \in 2 .. w
        BY <1>4, <3>2, <4>1
      <4>. QED BY <1>5, <3>2, <4>1, <4>2
    <3>. QED BY <3>1, <3>2
  <2>2. F = [i \in 1 .. w |-> F[i]]
    BY <1>4
  <2>. QED BY <1>2, <2>1, <2>2 DEF Flattening
<1>7. PICK G : FlattenSeq(s) = G[Len(s)] /\ G = Flattening(s, G)
  BY <1>2, <1>6, FlattenSteps
<1>8. ASSUME NEW i \in 1 .. w PROVE G[i] = IF i = 1 THEN s[i] ELSE G[i - 1] \o s[i]
  <2>1. G[i] = Flattening(s, G)[i]
    BY <1>7
  <2>. QED BY <1>2, <2>1 DEF Flattening
<1> DEFINE Wrong == {i \in 1 .. w : G[i] # Bytes(v, i * l)}
<1>9. Wrong = {}
  <2>1. SUFFICES ASSUME Wrong # {} PROVE FALSE
    OBVIOUS
  <2>2. IsFiniteSet(Wrong) /\ Wrong \subseteq Nat
    <3>1. IsFiniteSet(1 .. w) /\ Wrong \subseteq 1 .. w
      BY FS_Interval
    <3>. QED BY <3>1, FS_Subset
  <2>3. PICK i \in Wrong : \A j \in Wrong : i <= j
    <3> HIDE DEF Wrong
    <3>. QED BY <2>1, <2>2, LeastExists
  <2>4. i # 1
    BY <1>3, <1>8, <2>3
  <2>5. PICK h \in 1 .. w : h = i - 1
    BY <2>3, <2>4
  <2>6. h \notin Wrong
    <3>1. i \in Nat /\ ~(i <= h)
      BY <2>3, <2>5
    <3>. QED BY <2>3, <3>1
  <2>7. G[i] = G[h] \o s[i] /\ G[h] = Bytes(v, h * l)
    BY <1>8, <2>3, <2>4, <2>5, <2>6
  <2>8. i \in 2 .. w
    BY <2>3, <2>4
  <2>9. Bytes(v, i * l) = Bytes(v, (i - 1) * l) \o s[i]
    BY <1>5, <2>8
  <2>10. G[i] = Bytes(v, i * l)
    BY <2>5, <2>7, <2>9
  <2>. QED BY <2>3, <2>10
<1>10. w \in 1 .. w
  OBVIOUS
<1>11. G[w] = Bytes(v, w * l)
  BY <1>9, <1>10
<1>. QED BY <1>1, <1>2, <1>7, <1>11

LEMMA SameFront == ASSUME NEW s PROVE Proxy!Front(s) = SubSeq(s, 1, Len(s) - 1)
  BY DEF Proxy!Front

\* A value that RAID 3 accepts, that is cut into as many blocks as there are nodes
\* but one, and whose last byte is not zero.
Cuttable(v) ==
    /\ N >= 3 /\ v \in Seq(SUBSET Nat) /\ Len(v) >= N - 1 /\ v[Len(v)] # {}
    /\ Len(Proxy!Raid3Split(v)) = N - 1

LEMMA DivisionIs ==
    ASSUME NEW a \in Nat, NEW b \in Nat \ {0}
    PROVE  a \div b \in Nat /\ b * (a \div b) <= a /\ a < b * (a \div b) + b
  OBVIOUS

LEMMA SplitIs ==
    ASSUME NEW v, Cuttable(v)
    PROVE  \E l \in Nat \ {0} : Proxy!Raid3Split(v) = Cut(v, N - 1, l) /\ Len(v) <= (N - 1) * l
<1>1. PICK c \in Nat, w \in Nat : c = Len(v) /\ w = N - 1 /\ w >= 2 /\ c >= w
  BY DEF Cuttable
<1>2. PICK l : l = (Len(v) + N - 2) \div (N - 1)
  OBVIOUS
<1>3. l \in Nat \ {0}
  <2>1. Len(v) + N - 2 = c + w - 1 /\ c + w - 1 \in Nat /\ w \in Nat \ {0}
    BY <1>1
  <2>2. l \in Nat /\ c + w - 1 < w * l + w
    BY <1>1, <1>2, <2>1, DivisionIs
  <2>3. l # 0
    BY <1>1, <2>2
  <2>. QED BY <2>2, <2>3
<1>4. PICK k : k = (c + l - 1) \div l
  OBVIOUS
<1>5. k \in Nat /\ c + l - 1 < l * k + l
  <2>1. c + l - 1 \in Nat
    BY <1>1, <1>3
  <2>. QED BY <1>3, <1>4, <2>1, DivisionIs
<1>6. Proxy!Raid3Split(v) = Cut(v, k, l)
  BY <1>1, <1>2, <1>4 DEF Proxy!Raid3Split, Cut, Block, ByteOf
<1>7. k = w
  <2>1. Len(Cut(v, k, l)) = k
    <3>1. {} \in SUBSET Nat /\ v \in Seq(SUBSET Nat)
      BY DEF Cuttable
    <3>. QED BY <1>3, <1>5, <3>1, CutType
  <2>. QED BY <1>1, <1>6, <2>1 DEF Cuttable
<1>8. c <= w * l
  <2>1. PICK p \in Nat : p = w * l
    BY <1>1, <1>3
  <2>2. l * k = p
    BY <1>1, <1>3, <1>7, <2>1
  <2>3. c + l - 1 < p + l
    BY <1>5, <2>2
  <2>4. c <= p
    <3>1. c \in Nat /\ l \in Nat
      BY <1>1, <1>3
    <3>. QED BY <2>3, <3>1
  <2>. QED BY <2>1, <2>4
<1>. QED BY <1>1, <1>3, <1>6, <1>7, <1>8

LEMMA JoinIs ==
    ASSUME NEW v, Cuttable(v), NEW l \in Nat \ {0}, Len(v) <= (N - 1) * l,
           NEW s, SubSeq(s, 1, Len(s) - 1) = Cut(v, N - 1, l)
    PROVE  Proxy!Raid3Join(s) = v
<1>1. PICK c \in Nat, w \in Nat \ {0} : c = Len(v) /\ w = N - 1 /\ c >= w
  BY DEF Cuttable
<1>2. PICK k \in Nat : k = (N - 1) * l
  BY <1>1
<1>3. PICK t : t = Bytes(v, k)
  OBVIOUS
<1>4. {} \in SUBSET Nat /\ v \in Seq(SUBSET Nat) /\ v[c] # {}
  BY <1>1 DEF Cuttable
<1>5. Proxy!FlattenSeq(Proxy!Front(s)) = t
  <2>1. Proxy!FlattenSeq(Proxy!Front(s)) = FlattenSeq(Cut(v, w, l))
    BY <1>1, SameFront, SameFlattenSeq
  <2>2. FlattenSeq(Cut(v, w, l)) = Bytes(v, w * l)
    BY <1>1, <1>4, FlattenCut
  <2>. QED BY <1>1, <1>2, <1>3, <2>1, <2>2
<1>6. t \in Seq(SUBSET Nat) /\ Len(t) = k /\ \A p \in 1 .. k : t[p] = ByteOf(v, p)
  <2>1. t \in Seq(SUBSET Nat) /\ Len(t) = k
    BY <1>3, <1>4, BytesType
  <2>. QED BY <1>3, <2>1 DEF Bytes
<1>7. c <= k
  BY <1>1, <1>2
<1>8. PICK ends : ends = {p \in DOMAIN t : t[p] # {}} \cup {0}
  OBVIOUS
<1>9. Max(ends) = c
  <2>1. c \in ends
    BY <1>1, <1>4, <1>6, <1>7, <1>8 DEF ByteOf
  <2>2. \A p \in ends : p \in Nat /\ p <= c
    BY <1>1, <1>6, <1>8 DEF ByteOf
  <2>3. Max(ends) \in ends /\ \A p \in ends : Max(ends) >= p
    BY <2>1, <2>2 DEF Max
  <2>4. PICK g : g = Max(ends)
    OBVIOUS
  <2>5. g \in Nat /\ c \in Nat /\ g >= c /\ g <= c
    BY <1>1, <2>1, <2>2, <2>3, <2>4
  <2>6. g = c
    BY <2>5
  <2>. QED BY <2>4, <2>6
<1>10. Proxy!Raid3Join(s) = SubSeq(t, 1, c)
  <2>1. Proxy!Max(ends) = c
    BY <1>9, SameMax
  <2>. QED BY <1>5, <1>8, <2>1 DEF Proxy!Raid3Join
<1>11. SubSeq(t, 1, c) = v
  <2>1. PICK u : u = SubSeq(t, 1, c)
    OBVIOUS
  <2>2. u = [p \in 1 .. c |-> t[p]]
    BY <1>6, <1>7, <2>1
  <2>3. v = [p \in 1 .. c |-> v[p]]
    BY <1>1, <1>4
  <2>4. \A p \in 1 .. c : t[p] = v[p]
    BY <1>1, <1>6, <1>7 DEF ByteOf
  <2>. QED BY <2>1, <2>2, <2>3, <2>4
<1>. QED BY <1>10, <1>11

\* The bits at place j that an odd number of the blocks I have.
OddAt(blocks, I, j) ==
    {bit \in UNION {blocks[i][j] : i \in I} :
        Cardinality({i \in I : bit \in blocks[i][j]}) % 2 = 1}

AllOfLength(blocks, I, l) == I # {} /\ \A i \in I : Len(blocks[i]) = l

LEMMA XorIs ==
    ASSUME NEW blocks, NEW I, NEW l \in Nat, AllOfLength(blocks, I, l)
    PROVE  Proxy!Xor(blocks, I) = [j \in 1 .. l |-> OddAt(blocks, I, j)]
<1>1. Proxy!Min({Len(blocks[i]) : i \in I}) = l
  <2>1. {Len(blocks[i]) : i \in I} = {l}
    BY DEF AllOfLength
  <2>2. Min({l}) = l
    BY DEF Min
  <2>. QED BY <2>1, <2>2, SameMin
<1>. QED BY <1>1, SameCardinality DEF Proxy!Xor, OddAt

LEMMA OddIsSome ==
    ASSUME NEW S, Cardinality(S) % 2 = 1
    PROVE  S # {}
<1>1. ASSUME S = {} PROVE FALSE
  <2>1. Cardinality(S) = 0
    BY <1>1, FS_EmptySet
  <2>. QED BY <2>1
<1>. QED BY <1>1

\* Of the blocks 1 .. w those in S have a bit, and the parity has it if they are an
\* odd number: without block e an odd number has it just if block e has it.
Rest(S, e, w) == (S \ {e}) \cup (IF Cardinality(S) % 2 = 1 THEN {w + 1} ELSE {})

LEMMA OddRest ==
    ASSUME NEW w \in Nat, NEW S, S \subseteq 1 .. w, NEW e \in 1 .. w
    PROVE  Cardinality(Rest(S, e, w)) % 2 = 1 <=> e \in S
<1>0. PICK T : T = Rest(S, e, w)
  OBVIOUS
<1>1. IsFiniteSet(S) /\ Cardinality(S) \in Nat
  <2>1. IsFiniteSet(1 .. w)
    BY FS_Interval
  <2>2. IsFiniteSet(S)
    BY <2>1, FS_Subset
  <2>. QED BY <2>2, FS_CardinalityType
<1>2. PICK R : R = S \ {e}
  OBVIOUS
<1>3. /\ IsFiniteSet(R) /\ Cardinality(R) \in Nat
      /\ Cardinality(R) = IF e \in S THEN Cardinality(S) - 1 ELSE Cardinality(S)
  <2>1. IsFiniteSet(R) /\ Cardinality(R) = IF e \in S THEN Cardinality(S) - 1 ELSE Cardinality(S)
    BY <1>1, <1>2, FS_RemoveElement
  <2>. QED BY <2>1, FS_CardinalityType
<1>4. w + 1 \notin R
  BY <1>2
<1>5. CASE Cardinality(S) % 2 = 1
  <2>1. T = R \cup {w + 1}
    BY <1>0, <1>2, <1>5 DEF Rest
  <2>2. Cardinality(T) = Cardinality(R) + 1
    BY <1>3, <1>4, <2>1, FS_AddElement
  <2>3. PICK x \in Nat, y \in Nat : x = Cardinality(S) /\ y = Cardinality(R)
    BY <1>1, <1>3
  <2>4. x % 2 = 1 /\ (e \in S => y = x - 1) /\ (e \notin S => y = x)
    BY <1>3, <1>5, <2>3
  <2>5. x % 2 = 1 => (x + 1) % 2 # 1
    BY <2>3
  <2>6. (y + 1) % 2 = 1 <=> e \in S
    BY <2>3, <2>4, <2>5
  <2>. QED BY <1>0, <2>2, <2>3, <2>6
<1>6. CASE Cardinality(S) % 2 # 1
  <2>1. T = R
    BY <1>0, <1>2, <1>6 DEF Rest
  <2>2. PICK x \in Nat, y \in Nat : x = Cardinality(S) /\ y = Cardinality(R)
    BY <1>1, <1>3
  <2>3. x % 2 # 1 /\ (e \in S => y = x - 1) /\ (e \notin S => y = x)
    BY <1>3, <1>6, <2>2
  <2>4. x % 2 # 1 => (x - 1) % 2 = 1
    BY <2>2
  <2>5. y % 2 = 1 <=> e \in S
    BY <2>3, <2>4
  <2>. QED BY <1>0, <2>1, <2>2, <2>5
<1>. QED BY <1>5, <1>6

\* p is w blocks of l bytes and their parity.
WithParity(p, w, l) ==
    /\ p \in Seq(Seq(SUBSET Nat)) /\ Len(p) = w + 1
    /\ \A i \in 1 .. w + 1 : Len(p[i]) = l
    /\ p[w + 1] = [j \in 1 .. l |-> OddAt(p, 1 .. w, j)]

Others(w, e) == (1 .. w + 1) \ {e}

LEMMA LostIs ==
    ASSUME NEW w \in Nat, NEW l \in Nat, NEW p, WithParity(p, w, l), NEW e \in 1 .. w,
           NEW j \in 1 .. l
    PROVE  OddAt(p, Others(w, e), j) = p[e][j]
<1> DEFINE I == (1 .. w + 1) \ {e}
<1>1. \A i \in 1 .. w + 1 : p[i] \in Seq(SUBSET Nat) /\ p[i][j] \subseteq Nat
  <2>1. ASSUME NEW i \in 1 .. w + 1 PROVE p[i] \in Seq(SUBSET Nat) /\ p[i][j] \subseteq Nat
    <3>1. p[i] \in Seq(SUBSET Nat) /\ Len(p[i]) = l
      BY DEF WithParity
    <3>. QED BY <3>1
  <2>. QED BY <2>1
<1>2. ASSUME NEW bit PROVE Cardinality({i \in I : bit \in p[i][j]}) % 2 = 1 <=> bit \in p[e][j]
  <2>1. PICK S : S = {i \in 1 .. w : bit \in p[i][j]}
    OBVIOUS
  <2>2. PICK T : T = {i \in I : bit \in p[i][j]}
    OBVIOUS
  <2>3. bit \in p[w + 1][j] <=> Cardinality(S) % 2 = 1
    <3>1. p[w + 1][j] = OddAt(p, 1 .. w, j)
      BY DEF WithParity
    <3>2. Cardinality(S) % 2 = 1 => S # {}
      BY OddIsSome
    <3>. QED BY <2>1, <3>1, <3>2 DEF OddAt
  <2>4. T = Rest(S, e, w)
    <3>1. \A i : i \in I <=> i \in (1 .. w) \ {e} \/ i = w + 1
      <4>1. \A i : i \in 1 .. w + 1 <=> i \in 1 .. w \/ i = w + 1
        OBVIOUS
      <4>2. e # w + 1
        OBVIOUS
      <4>. QED BY <4>1, <4>2
    <3> HIDE DEF I
    <3>. QED BY <2>1, <2>2, <2>3, <3>1 DEF Rest
  <2>5. Cardinality(T) % 2 = 1 <=> e \in S
    <3>1. S \subseteq 1 .. w
      BY <2>1
    <3>. QED BY <2>4, <3>1, OddRest
  <2>. QED BY <2>1, <2>2, <2>5
<1>3. ASSUME NEW bit, bit \in p[e][j] PROVE bit \in UNION {p[i][j] : i \in I}
  <2>1. PICK T : T = {i \in I : bit \in p[i][j]}
    OBVIOUS
  <2>2. Cardinality(T) % 2 = 1
    BY <1>2, <1>3, <2>1
  <2>3. T # {}
    BY <2>2, OddIsSome
  <2>. QED BY <2>1, <2>3
<1> HIDE DEF I
<1>4. OddAt(p, I, j) = p[e][j]
  BY <1>2, <1>3 DEF OddAt
<1>. QED BY <1>4 DEF I, Others

AgreeOn(a, b, I) == \A i \in I : a[i] = b[i]

LEMMA SameOdd ==
    ASSUME NEW a, NEW b, NEW I, NEW j, AgreeOn(a, b, I)
    PROVE  OddAt(a, I, j) = OddAt(b, I, j)
<1>1. UNION {a[i][j] : i \in I} = UNION {b[i][j] : i \in I}
  BY DEF AgreeOn
<1>2. ASSUME NEW bit PROVE {i \in I : bit \in a[i][j]} = {i \in I : bit \in b[i][j]}
  BY DEF AgreeOn
<1>. QED BY <1>1, <1>2 DEF OddAt

LEMMA PartsAre ==
    ASSUME mode = RaidMode, NEW v, Cuttable(v)
    PROVE  \E l \in Nat \ {0} : /\ Len(v) <= (N - 1) * l
                                /\ WithParity(Proxy!Parts(v), N - 1, l)
                                /\ SubSeq(Proxy!Parts(v), 1, N - 1) = Cut(v, N - 1, l)
<1>1. PICK w \in Nat \ {0} : w = N - 1
  BY DEF Cuttable
<1>2. PICK l \in Nat \ {0} : Proxy!Raid3Split(v) = Cut(v, w, l) /\ Len(v) <= w * l
  BY <1>1, SplitIs
<1>3. PICK c : c = Cut(v, w, l)
  OBVIOUS
<1>4. c \in Seq(Seq(SUBSET Nat)) /\ Len(c) = w /\ \A i \in 1 .. w : Len(c[i]) = l
  <2>1. PICK S : S = SUBSET Nat
    OBVIOUS
  <2>2. {} \in S /\ v \in Seq(S) /\ w \in Nat /\ l \in Nat
    BY <2>1 DEF Cuttable
  <2>3. Cut(v, w, l) \in Seq(Seq(S)) /\ Len(Cut(v, w, l)) = w
    BY <2>2, CutType
  <2>4. \A i \in 1 .. w : Len(Cut(v, w, l)[i]) = l
    BY <2>2, CutLength
  <2>. QED BY <1>3, <2>1, <2>3, <2>4
<1>5. PICK q : q = [j \in 1 .. l |-> OddAt(c, 1 .. w, j)]
  OBVIOUS
<1>6. Proxy!Raid3Parity(c) = q
  <2>1. DOMAIN c = 1 .. w /\ AllOfLength(c, 1 .. w, l)
    <3>1. DOMAIN c = 1 .. Len(c)
      BY <1>4
    <3>2. 1 \in 1 .. w
      BY <1>1
    <3>. QED BY <1>4, <3>1, <3>2 DEF AllOfLength
  <2>2. Proxy!Xor(c, 1 .. w) = [j \in 1 .. l |-> OddAt(c, 1 .. w, j)]
    BY <1>2, <2>1, XorIs
  <2>. QED BY <1>5, <2>1, <2>2 DEF Proxy!Raid3Parity
<1>7. q \in Seq(SUBSET Nat) /\ Len(q) = l
  <2>1. ASSUME NEW j \in 1 .. l PROVE OddAt(c, 1 .. w, j) \subseteq Nat
    <3>1. ASSUME NEW i \in 1 .. w PROVE c[i][j] \subseteq Nat
      <4>1. c[i] \in Seq(SUBSET Nat) /\ Len(c[i]) = l
        BY <1>4
      <4>. QED BY <4>1
    <3>. QED BY <3>1 DEF OddAt
  <2>. QED BY <1>2, <1>5, <2>1
<1>8. PICK p : p = Append(c, q)
  OBVIOUS
<1>9. /\ p \in Seq(Seq(SUBSET Nat)) /\ Len(p) = w + 1 /\ p[w + 1] = q
      /\ \A i \in 1 .. w : p[i] = c[i]
  BY <1>4, <1>7, <1>8
<1>10. Proxy!Parts(v) = p
  BY <1>2, <1>3, <1>6, <1>8 DEF Proxy!Parts, RaidMode
<1>11. WithParity(p, w, l)
  <2>1. \A j \in 1 .. l : OddAt(c, 1 .. w, j) = OddAt(p, 1 .. w, j)
    <3>1. AgreeOn(c, p, 1 .. w)
      BY <1>9 DEF AgreeOn
    <3>. QED BY <3>1, SameOdd
  <2>2. p[w + 1] = [j \in 1 .. l |-> OddAt(p, 1 .. w, j)]
    BY <1>5, <1>9, <2>1
  <2>3. ASSUME NEW i \in 1 .. w + 1 PROVE Len(p[i]) = l
    BY <1>4, <1>7, <1>9
  <2>. QED BY <1>9, <2>2, <2>3 DEF WithParity
<1>12. SubSeq(p, 1, w) = c
  <2>1. PICK u : u = SubSeq(p, 1, w)
    OBVIOUS
  <2>2. u = [i \in 1 .. w |-> p[i]]
    BY <1>9, <2>1
  <2>3. c = [i \in 1 .. w |-> c[i]]
    BY <1>4
  <2>. QED BY <1>9, <2>1, <2>2, <2>3
<1>. QED BY <1>1, <1>2, <1>3, <1>10, <1>11, <1>12

\* A get through RAID 3 of which one node at most has no part, or gives none.
DecodesTo(seen, v) ==
    /\ Cardinality(Lost(seen)) <= 1
    /\ Lost(seen) = {} => v = Proxy!Raid3Join(seen)
    /\ Lost(seen) # {} => v = Proxy!Raid3Recover(seen, CHOOSE i \in Lost(seen) : TRUE)

LEMMA Decodes ==
    ASSUME mode = RaidMode, NoValue \notin Seq(SUBSET Nat), NEW v, Cuttable(v),
           NEW seen \in Seq(ProxyContents), Len(seen) = N,
           \A i \in 1 .. N : seen[i] \in {NoValue, Proxy!Parts(v)[i]},
           NEW x, DecodesTo(seen, x)
    PROVE  x = v
<1>1. PICK w \in Nat \ {0} : w = N - 1 /\ w + 1 = N
  BY DEF Cuttable
<1>2. PICK p : p = Proxy!Parts(v)
  OBVIOUS
<1>3. PICK l \in Nat \ {0} : Len(v) <= w * l /\ WithParity(p, w, l) /\ SubSeq(p, 1, w) = Cut(v, w, l)
  BY <1>1, <1>2, PartsAre
<1>4. p \in Seq(Seq(SUBSET Nat)) /\ Len(p) = N /\ \A i \in 1 .. N : Len(p[i]) = l
  BY <1>1, <1>3 DEF WithParity
<1>5. \A i \in 1 .. N : p[i] \in Seq(SUBSET Nat) /\ p[i] # NoValue /\ (i \notin Lost(seen) => seen[i] = p[i])
  BY <1>2, <1>4 DEF Lost
<1>6. ASSUME NEW s, s \in Seq(ProxyContents), Len(s) = N, \A i \in 1 .. w : s[i] = p[i]
      PROVE  Proxy!Raid3Join(s) = v
  <2>1. SubSeq(s, 1, w) = SubSeq(p, 1, w)
    <3>1. SubSeq(s, 1, w) = [i \in 1 .. w |-> s[i]]
      BY <1>1, <1>6
    <3>2. SubSeq(p, 1, w) = [i \in 1 .. w |-> p[i]]
      BY <1>1, <1>4
    <3>. QED BY <1>6, <3>1, <3>2
  <2>2. SubSeq(s, 1, Len(s) - 1) = Cut(v, N - 1, l)
    BY <1>1, <1>3, <1>6, <2>1
  <2>. QED BY <1>1, <1>3, <2>2, JoinIs
<1>7. CASE Lost(seen) = {}
  <2>1. \A i \in 1 .. w : seen[i] = p[i]
    BY <1>1, <1>5, <1>7
  <2>. QED BY <1>6, <1>7, <2>1 DEF DecodesTo
<1>8. CASE Lost(seen) # {}
  <2>1. PICK e \in 1 .. N : Lost(seen) = {e}
    <3>1. Lost(seen) \subseteq 1 .. N /\ IsFiniteSet(1 .. N)
      BY FS_Interval DEF Lost
    <3>2. IsFiniteSet(Lost(seen))
      BY <3>1, FS_Subset
    <3>3. Cardinality(Lost(seen)) \in Nat /\ Cardinality(Lost(seen)) # 0
      BY <1>8, <3>2, FS_CardinalityType, FS_EmptySet
    <3>4. Cardinality(Lost(seen)) = 1
      BY <3>3 DEF DecodesTo
    <3>. QED BY <3>1, <3>2, <3>4, FS_Singleton
  <2>2. (CHOOSE i \in Lost(seen) : TRUE) = e
    BY <2>1
  <2>3. x = Proxy!Raid3Recover(seen, e)
    BY <1>8, <2>2 DEF DecodesTo
  <2>4. \A i \in 1 .. N : i # e => seen[i] = p[i]
    BY <1>5, <2>1
  <2>5. CASE e = N
    <3>1. x = Proxy!Raid3Join(seen)
      BY <2>3, <2>5 DEF Proxy!Raid3Recover
    <3>2. \A i \in 1 .. w : seen[i] = p[i]
      BY <1>1, <2>4, <2>5
    <3>. QED BY <1>6, <3>1, <3>2
  <2>6. CASE e # N
    <3>1. PICK I : I = (1 .. w + 1) \ {e} /\ I = Others(w, e)
      BY DEF Others
    <3>2. {i \in DOMAIN seen : seen[i] # NoValue} = I
      <4>1. DOMAIN seen = 1 .. w + 1
        BY <1>1
      <4>2. \A i \in 1 .. w + 1 : seen[i] = NoValue <=> i = e
        BY <2>1, <4>1 DEF Lost
      <4>. QED BY <3>1, <4>1, <4>2
    <3>3. e \in 1 .. w
      BY <1>1, <2>6
    <3>4. Proxy!Xor(seen, I) = p[e]
      <4>1. AllOfLength(seen, I, l) /\ AgreeOn(seen, p, I)
        <5>1. \A i \in I : seen[i] = p[i] /\ Len(seen[i]) = l
          BY <1>1, <1>4, <2>4, <3>1
        <5>2. w + 1 \in I
          BY <3>1, <3>3
        <5>. QED BY <5>1, <5>2 DEF AllOfLength, AgreeOn
      <4>2. Proxy!Xor(seen, I) = [j \in 1 .. l |-> OddAt(seen, I, j)]
        BY <1>3, <4>1, XorIs
      <4>3. ASSUME NEW j \in 1 .. l PROVE OddAt(seen, I, j) = p[e][j]
        <5>1. OddAt(seen, I, j) = OddAt(p, I, j)
          BY <4>1, SameOdd
        <5>2. OddAt(p, I, j) = p[e][j]
          <6>1. WithParity(p, w, l)
            BY <1>3
          <6>2. OddAt(p, Others(w, e), j) = p[e][j]
            BY <3>3, <4>3, <6>1, LostIs
          <6>. QED BY <3>1, <6>2
        <5>. QED BY <5>1, <5>2
      <4>4. p[e] \in Seq(SUBSET Nat) /\ Len(p[e]) = l
        BY <1>4, <1>5, <2>1
      <4>5. p[e] = [j \in 1 .. l |-> p[e][j]]
        BY <4>4
      <4>. QED BY <4>2, <4>3, <4>5
    <3>5. PICK s : s = [seen EXCEPT ![e] = p[e]]
      OBVIOUS
    <3>6. x = Proxy!Raid3Join(s)
      BY <2>3, <2>6, <3>2, <3>4, <3>5 DEF Proxy!Raid3Recover
    <3>7. s \in Seq(ProxyContents) /\ Len(s) = N
      <4>1. p[e] \in ProxyContents /\ e \in 1 .. Len(seen)
        BY <1>5 DEF ProxyContents
      <4>. QED BY <3>5, <4>1
    <3>8. \A i \in 1 .. w : s[i] = p[i]
      BY <1>1, <2>4, <3>5
    <3>. QED BY <1>6, <3>6, <3>7, <3>8
  <2>. QED BY <2>5, <2>6
<1>. QED BY <1>7, <1>8

-----------------------------------------------------------------------------
(* Reads are current, when values are cut into blocks *)

\* What RAID 3 needs: a missing block can be told from a block, and values that are
\* accepted are cut into as many blocks as there are nodes but one, and do not end
\* in a zero.
Recoverable ==
    /\ NoValue \notin Seq(SUBSET Nat)
    /\ \A i \in DOMAIN Puts : N >= 3 /\ Len(Puts[i]) >= N - 1 => Cuttable(Puts[i])

PartOf(i, n) == Proxy!Parts(Puts[i])[n]
Fits(x, i, n) == x = NoValue \/ x = PartOf(i, n)

\* The nodes hold parts of put i only; r has seen nothing else; or nothing at all.
Whole(i) == /\ i \in 1 .. begun /\ ~Proxy!TooShort(Puts[i])
            /\ \A n \in Proxy!Nodes : Fits(stored[n], i, n)
SawWhole(r, i) == \A n \in 1 .. Len(r.seen) : Fits(r.seen[n], i, n)
Bare == \A n \in Proxy!Nodes : stored[n] = NoValue
SawBare(r) == \A n \in 1 .. Len(r.seen) : r.seen[n] = NoValue

\* The latest put, if it overlapped none, is the only one, and has put its parts where
\* it has been; what a get sees in whose time there was no put is of one put.
Lone(r) == r.op = "put" /\ r.alone /\ r.id = begun
LonePut(u, r) ==
    /\ Proxy!Running("put") = {u}
    /\ \A n \in 1 .. r.at - 1 : Fits(stored[n], r.id, n)
Quiet(r) == r.op = "get" /\ r.clean /\ r.first = begun
QuietGet(r) ==
    ~mixed /\ ((Bare /\ SawBare(r)) \/ \E i \in r.may : Whole(i) /\ SawWhole(r, i))
Blocks ==
    /\ ~mixed => Proxy!Running("put") = {} /\ (Bare \/ \E i \in current : Whole(i))
    /\ \A u \in Users : \A r \in reqs[u] : (Lone(r) => LonePut(u, r)) /\ (Quiet(r) => QuietGet(r))

RaidInv == mode = RaidMode /\ ProxyBase /\ Blocks

LEMMA PartsFitRaid ==
    ASSUME mode = RaidMode, N >= 3, Recoverable
    PROVE  PartsFit
<1>1. ASSUME NEW i \in DOMAIN Puts, ~Proxy!TooShort(Puts[i])
      PROVE  /\ Proxy!Parts(Puts[i]) \in Seq(Seq(SUBSET Nat))
             /\ Len(Proxy!Parts(Puts[i])) = Proxy!Visits
  <2>1. Len(Puts[i]) >= N - 1
    BY <1>1 DEF Proxy!TooShort, RaidMode
  <2>2. Cuttable(Puts[i])
    BY <2>1 DEF Recoverable
  <2>3. PICK w \in Nat : w = N - 1 /\ w + 1 = N
    OBVIOUS
  <2>4. PICK l \in Nat \ {0} : WithParity(Proxy!Parts(Puts[i]), N - 1, l)
    BY <2>2, PartsAre
  <2>5. WithParity(Proxy!Parts(Puts[i]), w, l)
    BY <2>3, <2>4
  <2>. QED BY <2>3, <2>5 DEF WithParity, Proxy!Visits, RaidMode
<1>. QED BY <1>1 DEF PartsFit

LEMMA RaidInit ==
    ASSUME Proxy!Init, mode = RaidMode, Recoverable
    PROVE  RaidInv
<1>1. N >= 3
  BY DEF Proxy!Init, RaidMode
<1>2. ProxyBase
  BY <1>1, PartsFitRaid, ProxyInitBase
<1>3. Blocks
  BY DEF Proxy!Init, Blocks, Bare, Proxy!Running
<1>. QED BY <1>2, <1>3 DEF RaidInv

LEMMA SamePart ==
    ASSUME mode' = mode, NEW i, NEW n
    PROVE  PartOf(i, n)' = PartOf(i, n) /\ (Proxy!TooShort(Puts[i])' <=> Proxy!TooShort(Puts[i]))
  BY DEF PartOf, Proxy!Parts, Proxy!TooShort

\* What holds of the nodes still holds when some of them lose what they hold, and
\* when more puts have begun.
LEMMA WholeStays ==
    ASSUME mode' = mode, begun \in Nat, begun' \in Nat, begun <= begun',
           \A n \in Proxy!Nodes : stored'[n] \in {stored[n], NoValue}
    PROVE  /\ Bare => Bare'
           /\ \A i : Whole(i) => Whole(i)'
<1>1. Bare => Bare'
  BY DEF Bare, Proxy!Nodes
<1>2. ASSUME NEW i, Whole(i) PROVE Whole(i)'
  <2>1. i \in 1 .. begun' /\ ~Proxy!TooShort(Puts[i])'
    <3>1. i \in 1 .. begun /\ ~Proxy!TooShort(Puts[i])
      BY <1>2 DEF Whole
    <3>2. ~Proxy!TooShort(Puts[i])'
      BY <3>1, SamePart
    <3>. QED BY <3>1, <3>2
  <2>2. ASSUME NEW n \in Proxy!Nodes PROVE Fits(stored[n], i, n)'
    <3>1. Fits(stored[n], i, n) /\ PartOf(i, n)' = PartOf(i, n)
      BY <1>2, SamePart DEF Whole
    <3>. QED BY <3>1 DEF Fits
  <2>. QED BY <2>1, <2>2 DEF Whole, Proxy!Nodes
<1>. QED BY <1>1, <1>2

\* The same for a get; nothing that matters to it has begun.
LEMMA QuietStays ==
    ASSUME mode' = mode, begun \in Nat, begun' = begun, mixed' = mixed,
           \A n \in Proxy!Nodes : stored'[n] \in {stored[n], NoValue}, NEW r, QuietGet(r)
    PROVE  QuietGet(r)'
<1>1. (Bare => Bare') /\ \A i : Whole(i) => Whole(i)'
  BY WholeStays
<1>2. ASSUME NEW i, SawWhole(r, i) PROVE SawWhole(r, i)'
  BY <1>2, SamePart DEF SawWhole, Fits
<1>. QED BY <1>1, <1>2 DEF QuietGet, SawBare

LEMMA RaidBeginPut ==
    ASSUME RaidInv, NEW u \in Users, Proxy!BeginPut(u)
    PROVE  RaidInv'
<1>1. ProxyBase' /\ ProxyTypes
  BY ProxyBaseBegin DEF RaidInv, ProxyBase
<1>2. mode' = mode /\ stored' = stored /\ begun' = begun + 1 /\ begun \in Nat
  BY <1>1 DEF Proxy!BeginPut, ProxyTypes
<1>3. (Bare => Bare') /\ \A i : Whole(i) => Whole(i)'
  BY <1>2, WholeStays
<1>4. ASSUME NEW v \in Users, NEW s \in reqs[v] PROVE ~Lone(s)' /\ ~Quiet(s)'
  <2>1. (s.op = "put" => Putting(s)) /\ (s.op = "get" => Getting(s))
    BY DEF RaidInv, ProxyBase, ProxyRequests
  <2>. QED BY <1>2, <2>1 DEF Lone, Quiet, Putting, Getting
<1>5. CASE Proxy!TooShort(Puts[begun'])
  <2>1. UNCHANGED <<reqs, current, mixed>>
    BY <1>5 DEF Proxy!BeginPut
  <2>2. Proxy!Running("put")' = Proxy!Running("put")
    BY <2>1 DEF Proxy!Running
  <2>3. Blocks'
    BY <1>3, <1>4, <2>1, <2>2 DEF RaidInv, Blocks
  <2>. QED BY <1>1, <1>2, <2>3 DEF RaidInv
<1>6. CASE ~Proxy!TooShort(Puts[begun'])
  <2>1. PICK s : /\ s = [op |-> "put", id |-> begun', at |-> 1, acks |-> 0,
                         alone |-> Proxy!Running("put") = {},
                         old |-> current \ {q.id : q \in UNION {reqs[v] : v \in Proxy!Running("put")}}]
    OBVIOUS
  <2>2. reqs' = [reqs EXCEPT ![u] = {s}] /\ mixed' = TRUE
    BY <1>6, <2>1 DEF Proxy!BeginPut
  <2>3. s.op = "put" /\ s.at = 1 /\ (s.alone <=> Proxy!Running("put") = {})
    BY <2>1
  <2>4. \A v \in Users : \A q \in reqs'[v] : (q = s /\ v = u) \/ q \in reqs[v]
    BY <1>1, <2>2 DEF ProxyTypes
  <2>5. ASSUME Lone(s)' PROVE LonePut(u, s)'
    <3>1. Proxy!Running("put") = {}
      BY <2>3, <2>5 DEF Lone
    <3>2. Proxy!Running("put")' = {u}
      <4>1. reqs'[u] = {s} /\ \A v \in Users : v # u => reqs'[v] = reqs[v]
        BY <1>1, <2>2 DEF ProxyTypes
      <4>. QED BY <2>3, <3>1, <4>1 DEF Proxy!Running
    <3>. QED BY <2>3, <3>2 DEF LonePut
  <2>6. ~Quiet(s)'
    BY <2>3 DEF Quiet
  <2>7. ASSUME NEW v \in Users, NEW q \in reqs'[v]
        PROVE  (Lone(q)' => LonePut(v, q)') /\ (Quiet(q)' => QuietGet(q)')
    <3>1. CASE q = s /\ v = u
      BY <2>5, <2>6, <3>1
    <3>2. CASE q \in reqs[v]
      BY <1>4, <3>2
    <3>. QED BY <2>4, <3>1, <3>2
  <2>8. Blocks'
    BY <2>2, <2>7 DEF Blocks
  <2>. QED BY <1>1, <1>2, <2>8 DEF RaidInv
<1>. QED BY <1>5, <1>6

LEMMA RaidPut ==
    ASSUME RaidInv, NEW u \in Users, Proxy!PutNode(u)
    PROVE  RaidInv'
<1>1. ProxyBase' /\ ProxyBase /\ ProxyTypes
  BY ProxyBasePut DEF RaidInv, ProxyBase
<1>2. PICK r \in reqs[u] : r.op = "put" /\ PutSteps(u, r)
  BY PutNodeSteps DEF RaidInv
<1>3. Putting(r) /\ r \in PutRequests /\ r.id \notin r.old
  BY <1>1, <1>2 DEF ProxyBase, ProxyRequests, Putting
<1>4. UNCHANGED <<mode, begun>> /\ begun \in Nat
  BY <1>1, <1>2 DEF PutSteps, PutGoesOn, PutIsDone, PutBreaks, Fixed, ProxyTypes
<1>5. u \in Proxy!Running("put") /\ mixed
  <2>1. u \in Proxy!Running("put")
    BY <1>2 DEF Proxy!Running
  <2>. QED BY <2>1 DEF RaidInv, Blocks
<1>6. r.at \in 1 .. N /\ Proxy!Visited(r.at) = r.at /\ Proxy!Visits = N /\ Proxy!Nodes = 1 .. N
  BY <1>3 DEF Putting, RaidInv, Proxy!Visits, Proxy!Visited, Proxy!Nodes, RaidMode
<1>7. ASSUME Lone(r) PROVE LonePut(u, r)
  BY <1>7 DEF RaidInv, Blocks
<1>8. ASSUME NEW v \in Users, v # u, NEW s \in reqs[v] PROVE ~Lone(s)
  <2>1. ASSUME Lone(s) PROVE FALSE
    <3>1. Proxy!Running("put") = {v}
      BY <2>1 DEF RaidInv, Blocks, LonePut
    <3>. QED BY <1>5, <1>8, <3>1
  <2>. QED BY <2>1
<1>9. ASSUME NEW v \in Users, NEW s \in reqs[v] PROVE ~Quiet(s)
  BY <1>5 DEF RaidInv, Blocks, QuietGet
<1>10. \A s : (Lone(s)' <=> Lone(s)) /\ (Quiet(s)' <=> Quiet(s))
  BY <1>4 DEF Lone, Quiet
\* What r writes fits.
<1>11. ASSUME Lone(r), Writes(r), NEW n \in 1 .. r.at PROVE Fits(stored[n], r.id, n)'
  <2>1. PartOf(r.id, n)' = PartOf(r.id, n) /\ n \in Proxy!Nodes
    BY <1>4, <1>6, SamePart
  <2>2. CASE n = r.at
    <3>1. stored'[n] = PartOf(r.id, n)
      BY <1>1, <1>6, <1>11, <2>2 DEF Writes, PartOf, ProxyTypes
    <3>. QED BY <2>1, <3>1 DEF Fits
  <2>3. CASE n # r.at
    <3>1. stored'[n] = stored[n]
      BY <1>1, <1>6, <1>11, <2>1, <2>3 DEF Writes, ProxyTypes
    <3>2. n \in 1 .. r.at - 1
      BY <1>6, <2>3
    <3>3. Fits(stored[n], r.id, n)
      BY <1>7, <1>11, <3>2 DEF LonePut
    <3>. QED BY <2>1, <3>1, <3>3 DEF Fits
  <2>. QED BY <2>2, <2>3
<1>12. CASE PutGoesOn(u, r)
  <2>1. PICK s : s = [r EXCEPT !.at = @ + 1, !.acks = @ + 1]
    OBVIOUS
  <2>2. reqs' = [reqs EXCEPT ![u] = {s}] /\ mixed' = mixed /\ Writes(r)
    BY <1>12, <2>1 DEF PutGoesOn
  <2>3. s.op = "put" /\ s.id = r.id /\ s.alone = r.alone /\ s.at = r.at + 1
    BY <1>2, <1>3, <2>1 DEF PutRequests
  <2>4. reqs'[u] = {s} /\ \A v \in Users : v # u => reqs'[v] = reqs[v]
    BY <1>1, <2>2 DEF ProxyTypes
  <2>5. ASSUME Lone(s) PROVE LonePut(u, s)'
    <3>1. Lone(r) /\ Proxy!Running("put") = {u}
      <4>1. Lone(r)
        BY <1>2, <2>3, <2>5 DEF Lone
      <4>. QED BY <1>7, <4>1 DEF LonePut
    <3>2. Proxy!Running("put")' = {u}
      BY <2>3, <2>4, <3>1 DEF Proxy!Running
    <3>3. \A n \in 1 .. r.at : Fits(stored[n], r.id, n)'
      BY <1>11, <2>2, <3>1
    <3>4. s.at - 1 = r.at
      BY <1>6, <2>3
    <3>. QED BY <2>3, <3>2, <3>3, <3>4 DEF LonePut
  <2>6. ASSUME NEW v \in Users, NEW q \in reqs'[v]
        PROVE  (Lone(q)' => LonePut(v, q)') /\ (Quiet(q)' => QuietGet(q)')
    <3>1. CASE v = u
      <4>1. q = s /\ ~Quiet(s)
        BY <2>3, <2>4, <2>6, <3>1 DEF Quiet
      <4>. QED BY <1>10, <2>5, <3>1, <4>1
    <3>2. CASE v # u
      BY <1>8, <1>9, <1>10, <2>4, <2>6, <3>2
    <3>. QED BY <3>1, <3>2
  <2>7. Blocks'
    BY <1>5, <2>2, <2>6 DEF Blocks
  <2>. QED BY <1>1, <1>4, <2>7 DEF RaidInv
<1>13. CASE PutIsDone(u, r) \/ PutBreaks(u, r)
  <2>1. reqs'[u] = {} /\ \A v \in Users : v # u => reqs'[v] = reqs[v]
    BY <1>1, <1>13 DEF PutIsDone, PutBreaks, ProxyTypes
  <2>2. ASSUME NEW v \in Users, NEW q \in reqs'[v]
        PROVE  (Lone(q)' => LonePut(v, q)') /\ (Quiet(q)' => QuietGet(q)')
    BY <1>8, <1>9, <1>10, <2>1, <2>2
  <2>3. ASSUME ~mixed'
        PROVE  Proxy!Running("put")' = {} /\ \E i \in current' : Whole(i)'
    <3>1. PutIsDone(u, r) /\ current' = current \ r.old /\ Lone(r) /\ Writes(r)
      BY <1>2, <1>5, <1>13, <2>3 DEF PutIsDone, PutBreaks, Lone
    <3>2. Proxy!Running("put") = {u}
      BY <1>7, <3>1 DEF LonePut
    <3>3. Proxy!Running("put")' = {}
      BY <2>1, <3>2 DEF Proxy!Running
    <3>4. r.at = N
      BY <1>6, <3>1 DEF PutIsDone
    <3>5. r.id \in current'
      BY <1>3, <3>1 DEF Putting
    <3>6. Whole(r.id)'
      <4>1. r.id \in 1 .. begun' /\ ~Proxy!TooShort(Puts[r.id])'
        BY <1>3, <1>4, SamePart DEF Putting
      <4>2. \A n \in Proxy!Nodes : Fits(stored[n], r.id, n)'
        BY <1>6, <1>11, <3>1, <3>4
      <4>. QED BY <4>1, <4>2 DEF Whole, Proxy!Nodes
    <3>. QED BY <3>3, <3>5, <3>6
  <2>4. Blocks'
    BY <2>2, <2>3 DEF Blocks
  <2>. QED BY <1>1, <1>4, <2>4 DEF RaidInv
<1>. QED BY <1>2, <1>12, <1>13 DEF PutSteps

LEMMA RaidBeginGet ==
    ASSUME RaidInv, NEW u \in Users, Proxy!BeginGet(u)
    PROVE  RaidInv'
<1>1. PICK r : /\ reqs' = [reqs EXCEPT ![u] = {r}] /\ r.op = "get" /\ r.seen = << >> /\ r.may = current
               /\ r.clean <=> ~mixed
  <2>1. PICK r : r = [op |-> "get", at |-> 1, seen |-> << >>, first |-> begun, may |-> current,
                      clean |-> ~mixed, floor |-> newest]
    OBVIOUS
  <2>2. reqs' = [reqs EXCEPT ![u] = {r}]
    BY <2>1 DEF Proxy!BeginGet
  <2>3. r.op = "get" /\ r.seen = << >> /\ r.may = current
    BY <2>1
  <2>4. r.clean <=> ~mixed
    BY <2>1
  <2>. QED BY <2>2, <2>3, <2>4, Zenon
<1>2. UNCHANGED <<mode, stored, begun, current, mixed>> /\ ProxyBase' /\ ProxyTypes /\ reqs[u] = {}
  BY ProxyBaseBeginGet DEF Proxy!BeginGet, Proxy!NotFound, RaidInv, ProxyBase
<1>3. reqs'[u] = {r} /\ \A v \in Users : v # u => reqs'[v] = reqs[v]
  BY <1>1, <1>2 DEF ProxyTypes
<1>4. Proxy!Running("put")' = Proxy!Running("put")
  BY <1>1, <1>2, <1>3 DEF Proxy!Running
<1>5. (Bare' <=> Bare) /\ \A i : Whole(i)' <=> Whole(i)
  BY <1>2 DEF Bare, Whole, Fits, PartOf, Proxy!Parts, Proxy!TooShort, Proxy!Nodes
<1>6. ASSUME NEW v \in Users, NEW s \in reqs[v]
      PROVE  (Lone(s)' => LonePut(v, s)') /\ (Quiet(s)' => QuietGet(s)')
  <2>1. ASSUME Lone(s)' PROVE LonePut(v, s)'
    <3>1. LonePut(v, s)
      BY <1>2, <2>1 DEF Lone, RaidInv, Blocks
    <3>. QED BY <1>2, <1>4, <3>1, SamePart DEF LonePut, Fits
  <2>2. ASSUME Quiet(s)' PROVE QuietGet(s)'
    <3>1. QuietGet(s) /\ begun \in Nat
      BY <1>2, <2>2 DEF Quiet, RaidInv, Blocks, ProxyTypes
    <3>2. \A n \in Proxy!Nodes : stored'[n] \in {stored[n], NoValue}
      BY <1>2
    <3>. QED BY <1>2, <3>1, <3>2, QuietStays
  <2>. QED BY <2>1, <2>2
<1>7. ASSUME Quiet(r)' PROVE QuietGet(r)'
  <2>1. ~mixed'
    BY <1>1, <1>2, <1>7 DEF Quiet
  <2>2. Bare \/ \E i \in current : Whole(i)
    BY <1>2, <2>1 DEF RaidInv, Blocks
  <2>3. SawBare(r)' /\ \A i : SawWhole(r, i)'
    BY <1>1 DEF SawBare, SawWhole
  <2>. QED BY <1>1, <1>5, <2>1, <2>2, <2>3 DEF QuietGet
<1>8. ~Lone(r)'
  BY <1>1 DEF Lone
<1>9. Blocks'
  <2>1. ~mixed' => Proxy!Running("put")' = {} /\ (Bare' \/ \E i \in current' : Whole(i)')
    BY <1>2, <1>4, <1>5 DEF RaidInv, Blocks
  <2>2. \A v \in Users : \A s \in reqs'[v] : s \in reqs[v] \/ s = r
    BY <1>3
  <2>. QED BY <1>6, <1>7, <1>8, <2>1, <2>2 DEF Blocks
<1>. QED BY <1>2, <1>9 DEF RaidInv

LEMMA RaidGet ==
    ASSUME Recoverable, RaidInv, NEW u \in Users, Proxy!GetNode(u)
    PROVE  RaidInv' /\ ReadsAreCurrent'
<1>1. ProxyBase' /\ ProxyBase /\ ProxyTypes
  BY ProxyBaseGet DEF RaidInv, ProxyBase
<1>2. PICK r \in reqs[u] : r.op = "get" /\ GetSteps(u, r)
  BY GetNodeSteps DEF RaidInv
<1>3. Getting(r) /\ r \in GetRequests
  BY <1>1, <1>2 DEF ProxyBase, ProxyRequests, Getting
<1>4. UNCHANGED <<mode, begun, stored, current, mixed>> /\ begun \in Nat
  <2>1. GetRests
    BY <1>2 DEF GetSteps, GetGoesOn, GetFinds, GetFails
  <2>. QED BY <1>1, <2>1 DEF GetRests, Fixed, ProxyTypes
<1>5. /\ r.at \in 1 .. N /\ Len(r.seen) = r.at - 1 /\ r.seen \in Seq(ProxyContents)
      /\ Proxy!Visited(r.at) = r.at /\ Proxy!Visits = N /\ Proxy!Nodes = 1 .. N
  BY <1>3 DEF Getting, GetRequests, RaidInv, Proxy!Visits, Proxy!Visited, Proxy!Nodes, RaidMode
<1>6. \A n \in Proxy!Nodes : stored'[n] \in {stored[n], NoValue}
  BY <1>4
<1>7. (Bare => Bare') /\ \A i : Whole(i) => Whole(i)'
  BY <1>4, <1>6, WholeStays
<1>8. ASSUME NEW v \in Users, NEW s \in reqs[v], s \in reqs'[v],
             Proxy!Running("put")' \subseteq Proxy!Running("put")
      PROVE  (Lone(s)' => LonePut(v, s)') /\ (Quiet(s)' => QuietGet(s)')
  <2>1. ASSUME Lone(s)' PROVE LonePut(v, s)'
    <3>1. Lone(s) /\ LonePut(v, s)
      BY <1>4, <2>1 DEF Lone, RaidInv, Blocks
    <3>2. Proxy!Running("put")' = {v}
      <4>1. v \in Proxy!Running("put")'
        BY <1>8, <3>1 DEF Proxy!Running, Lone
      <4>. QED BY <1>8, <3>1, <4>1 DEF LonePut
    <3>3. \A n \in 1 .. s.at - 1 : Fits(stored[n], s.id, n)'
      BY <1>4, <3>1, SamePart DEF LonePut, Fits
    <3>. QED BY <3>2, <3>3 DEF LonePut
  <2>2. ASSUME Quiet(s)' PROVE QuietGet(s)'
    <3>1. QuietGet(s)
      BY <1>4, <2>2 DEF Quiet, RaidInv, Blocks
    <3>. QED BY <1>4, <1>6, <3>1, QuietStays
  <2>. QED BY <2>1, <2>2
<1>9. ASSUME Proxy!Running("put")' \subseteq Proxy!Running("put"),
             \A v \in Users : \A s \in reqs'[v] : s \in reqs[v] \/ (~Lone(s)' /\ (Quiet(s)' => QuietGet(s)'))
      PROVE  RaidInv'
  <2>1. Blocks'
    <3>1. ~mixed' => Proxy!Running("put")' = {} /\ (Bare' \/ \E i \in current' : Whole(i)')
      BY <1>4, <1>7, <1>9 DEF RaidInv, Blocks
    <3>. QED BY <1>8, <1>9, <3>1 DEF Blocks
  <2>. QED BY <1>1, <1>4, <2>1 DEF RaidInv
<1>10. ASSUME reqs' = [reqs EXCEPT ![u] = {}] PROVE RaidInv'
  <2>1. \A v \in Users : reqs'[v] \subseteq reqs[v]
    BY <1>1, <1>10 DEF ProxyTypes
  <2>2. Proxy!Running("put")' \subseteq Proxy!Running("put")
    BY <2>1 DEF Proxy!Running
  <2>. QED BY <1>9, <2>1, <2>2
<1>11. ASSUME read' = Proxy!NoRead PROVE ReadsAreCurrent'
  BY <1>11 DEF ReadsAreCurrent, Proxy!ReadsAreCurrent, Proxy!NoRead
<1>12. CASE GetFails(u)
  BY <1>10, <1>11, <1>12 DEF GetFails, Proxy!NotFound
\* What r has seen with x fits as well.
<1>13. ASSUME NEW x, Sees(r, x), NEW t, t = Append(r.seen, x)
       PROVE  /\ t \in Seq(ProxyContents) /\ Len(t) = r.at
              /\ Quiet(r) => \/ \A n \in 1 .. r.at : t[n] = NoValue
                             \/ \E i \in r.may : Whole(i) /\ \A n \in 1 .. r.at : Fits(t[n], i, n)
  <2>1. x \in {stored[r.at], NoValue} /\ x \in ProxyContents
    BY <1>1, <1>5, <1>13 DEF Sees, ProxyTypes, ProxyContents
  <2>2. /\ t \in Seq(ProxyContents) /\ Len(t) = r.at /\ t[r.at] = x
        /\ \A n \in 1 .. r.at : n # r.at => n \in 1 .. Len(r.seen) /\ t[n] = r.seen[n]
    BY <1>5, <1>13, <2>1
  <2>3. ASSUME Quiet(r), Bare, SawBare(r) PROVE \A n \in 1 .. r.at : t[n] = NoValue
    BY <1>5, <2>1, <2>2, <2>3 DEF Bare, SawBare
  <2>4. ASSUME NEW i, Whole(i), SawWhole(r, i), NEW n \in 1 .. r.at PROVE Fits(t[n], i, n)
    <3>1. CASE n = r.at
      BY <1>5, <2>1, <2>2, <2>4, <3>1 DEF Whole, Fits
    <3>2. CASE n # r.at
      BY <2>2, <2>4, <3>2 DEF SawWhole
    <3>. QED BY <3>1, <3>2
  <2>5. Quiet(r) => QuietGet(r)
    BY DEF RaidInv, Blocks
  <2>. QED BY <2>2, <2>3, <2>4, <2>5 DEF QuietGet
<1>14. ASSUME NEW x, Sees(r, x), GetGoesOn(u, r, x) PROVE RaidInv' /\ ReadsAreCurrent'
  <2>1. PICK t : t = Append(r.seen, x)
    OBVIOUS
  <2>2. PICK s : s = [r EXCEPT !.at = @ + 1, !.seen = t]
    OBVIOUS
  <2>3. s.op = "get" /\ s.seen = t /\ s.may = r.may /\ s.clean = r.clean /\ s.first = r.first
    BY <1>2, <1>3, <2>2 DEF GetRequests
  <2>4. reqs'[u] = {s} /\ \A v \in Users : v # u => reqs'[v] = reqs[v]
    BY <1>1, <1>14, <2>1, <2>2 DEF GetGoesOn, ProxyTypes
  <2>5. Proxy!Running("put")' \subseteq Proxy!Running("put")
    BY <2>3, <2>4 DEF Proxy!Running
  <2>6. ASSUME Quiet(s)' PROVE QuietGet(s)'
    <3>1. Quiet(r) /\ ~mixed
      <4>1. Quiet(r)
        BY <1>2, <1>4, <2>3, <2>6 DEF Quiet
      <4>. QED BY <4>1 DEF RaidInv, Blocks, QuietGet
    <3>2. Len(t) = r.at
      BY <1>13, <1>14, <2>1
    <3>3. CASE \A n \in 1 .. r.at : t[n] = NoValue
      <4>1. QuietGet(r)
        BY <3>1 DEF RaidInv, Blocks
      <4>2. Bare \/ \E i \in r.may : Whole(i)
        BY <4>1 DEF QuietGet
      <4>3. SawBare(s) /\ \A i : SawWhole(s, i)
        BY <2>3, <3>2, <3>3 DEF SawBare, SawWhole, Fits
      <4>4. QuietGet(s)
        BY <2>3, <3>1, <4>2, <4>3 DEF QuietGet
      <4>. QED BY <1>4, <1>6, <4>4, QuietStays
    <3>4. ASSUME NEW i \in r.may, Whole(i), \A n \in 1 .. r.at : Fits(t[n], i, n) PROVE QuietGet(s)'
      <4>1. SawWhole(s, i)
        BY <2>3, <3>2, <3>4 DEF SawWhole
      <4>2. QuietGet(s)
        BY <2>3, <3>1, <3>4, <4>1 DEF QuietGet
      <4>. QED BY <1>4, <1>6, <4>2, QuietStays
    <3>. QED BY <1>13, <1>14, <2>1, <3>1, <3>3, <3>4
  <2>7. \A v \in Users : \A q \in reqs'[v] : q \in reqs[v] \/ (~Lone(q)' /\ (Quiet(q)' => QuietGet(q)'))
    BY <2>3, <2>4, <2>6 DEF Lone
  <2>8. RaidInv'
    BY <1>9, <2>5, <2>7
  <2>. QED BY <1>11, <1>14, <2>8 DEF GetGoesOn, Proxy!NotFound
<1>15. ASSUME NEW x, NEW v, Sees(r, x), GetFinds(u, r, x, v) PROVE RaidInv' /\ ReadsAreCurrent'
  <2>1. PICK t : t = Append(r.seen, x)
    OBVIOUS
  <2>2. r.at = N /\ DecodesTo(t, v)
    BY <1>5, <1>15, <2>1 DEF GetFinds, Answers, RaidInv, DecodesTo
  <2>3. t \in Seq(ProxyContents) /\ Len(t) = N
    <3>1. t \in Seq(ProxyContents) /\ Len(t) = r.at
      BY <1>13, <1>15, <2>1
    <3>. QED BY <2>2, <3>1
  <2>4. /\ read'.value = v /\ r.may \subseteq read'.may
        /\ read'.clean => Quiet(r)
    BY <1>2, <1>15 DEF GetFinds, Proxy!Found, Quiet
  <2>5. ASSUME Quiet(r) PROVE \E i \in r.may : v = Puts[i]
    <3>1. CASE \A n \in 1 .. r.at : t[n] = NoValue
      <4>1. Lost(t) = 1 .. N
        BY <2>2, <2>3, <3>1 DEF Lost
      <4>2. Cardinality(Lost(t)) = N
        BY <4>1, FS_Interval
      <4>. QED BY <1>1, <2>2, <4>2 DEF DecodesTo, ProxyTypes, RaidInv
    <3>2. ASSUME NEW i \in r.may, Whole(i), \A n \in 1 .. r.at : Fits(t[n], i, n) PROVE v = Puts[i]
      <4>1. i \in DOMAIN Puts /\ Len(Puts[i]) >= N - 1 /\ N >= 3
        BY <1>1, <3>2 DEF Whole, ProxyTypes, RaidInv, Proxy!TooShort, RaidMode
      <4>2. Cuttable(Puts[i]) /\ NoValue \notin Seq(SUBSET Nat)
        BY <4>1 DEF Recoverable
      <4>3. \A n \in 1 .. N : t[n] \in {NoValue, Proxy!Parts(Puts[i])[n]}
        BY <2>2, <3>2 DEF Fits, PartOf
      <4>. QED BY <2>2, <2>3, <4>2, <4>3, Decodes DEF RaidInv
    <3>. QED BY <1>13, <1>15, <2>1, <2>5, <3>1, <3>2
  <2>6. ReadsAreCurrent'
    BY <1>4, <2>4, <2>5 DEF ReadsAreCurrent, Proxy!ReadsAreCurrent, RaidInv, RaidMode
  <2>. QED BY <1>10, <1>15, <2>6 DEF GetFinds
<1>. QED BY <1>2, <1>12, <1>14, <1>15 DEF GetSteps

LEMMA RaidNodes ==
    ASSUME RaidInv, NEW n, Proxy!Fault(n) \/ Proxy!Reconnect(n) \/ UNCHANGED proxyVars
    PROVE  RaidInv' /\ read' \in {Proxy!NoRead, read}
<1>1. /\ UNCHANGED <<mode, reqs, begun, current, mixed>> /\ ProxyBase' /\ begun \in Nat
      /\ \A k \in Proxy!Nodes : stored'[k] \in {stored[k], NoValue}
      /\ read' \in {Proxy!NoRead, read}
  <2>1. ProxyBase /\ begun \in Nat
    BY DEF RaidInv, ProxyBase, ProxyTypes
  <2>2. /\ UNCHANGED <<mode, home, reqs, begun, current, mixed, serial, newest>>
        /\ \A k \in Proxy!Nodes : stored'[k] \in {stored[k], NoValue}
        /\ stored' \in [Proxy!Nodes -> ProxyContents]
        /\ read' \in {Proxy!NoRead, read}
    BY <2>1, ProxyFaults
  <2>3. ProxyBase'
    BY <2>1, <2>2, ProxyBaseNodes
  <2>. QED BY <2>1, <2>2, <2>3
<1>2. (Bare => Bare') /\ \A i : Whole(i) => Whole(i)'
  BY <1>1, WholeStays
<1>3. Proxy!Running("put")' = Proxy!Running("put")
  BY <1>1 DEF Proxy!Running
<1>4. ASSUME NEW u \in Users, NEW r \in reqs[u]
      PROVE  (Lone(r)' => LonePut(u, r)') /\ (Quiet(r)' => QuietGet(r)')
  <2>1. ASSUME Lone(r)' PROVE LonePut(u, r)'
    <3>1. LonePut(u, r) /\ Putting(r)
      BY <1>1, <2>1 DEF Lone, RaidInv, Blocks, ProxyBase, ProxyRequests
    <3>2. ASSUME NEW p \in 1 .. r.at - 1 PROVE Fits(stored[p], r.id, p)'
      <4>1. p \in Proxy!Nodes
        BY <3>1 DEF Putting, RaidInv, Proxy!Visits, Proxy!Nodes, RaidMode
      <4>2. Fits(stored[p], r.id, p) /\ PartOf(r.id, p)' = PartOf(r.id, p)
        BY <1>1, <3>1, SamePart DEF LonePut
      <4>. QED BY <1>1, <4>1, <4>2 DEF Fits
    <3>. QED BY <1>3, <3>1, <3>2 DEF LonePut
  <2>2. ASSUME Quiet(r)' PROVE QuietGet(r)'
    <3>1. QuietGet(r)
      BY <1>1, <2>2 DEF Quiet, RaidInv, Blocks
    <3>. QED BY <1>1, <3>1, QuietStays
  <2>. QED BY <2>1, <2>2
<1>5. Blocks'
  BY <1>1, <1>2, <1>3, <1>4 DEF RaidInv, Blocks
<1>. QED BY <1>1, <1>5 DEF RaidInv

LEMMA RaidStep ==
    ASSUME Recoverable, RaidInv, ReadsAreCurrent, [Proxy!Next]_proxyVars
    PROVE  RaidInv' /\ ReadsAreCurrent'
<1>1. ASSUME read' \in {Proxy!NoRead, read}, mode' = mode PROVE ReadsAreCurrent'
  BY <1>1 DEF ReadsAreCurrent, Proxy!ReadsAreCurrent, Proxy!NoRead
<1>2. ASSUME NEW n, Proxy!Fault(n) \/ Proxy!Reconnect(n) \/ UNCHANGED proxyVars
      PROVE  RaidInv' /\ ReadsAreCurrent'
  BY <1>1, <1>2, RaidNodes, ProxyFaults DEF RaidInv
<1>3. ASSUME NEW u \in Users, Proxy!BeginPut(u) \/ Proxy!PutNode(u) \/ Proxy!BeginGet(u)
      PROVE  RaidInv' /\ ReadsAreCurrent'
  <2>1. mode' = mode /\ read' = Proxy!NoRead
    BY <1>3 DEF Proxy!BeginPut, Proxy!PutNode, Proxy!BeginGet, Proxy!NotFound
  <2>. QED BY <1>1, <1>3, <2>1, RaidBeginPut, RaidPut, RaidBeginGet
<1>. QED BY <1>2, <1>3, RaidGet DEF Proxy!Next

\* Through every proxy but RAID3Proxy a get returns a value that was put by a put current
\* when the get began, or begun since, whichever nodes lose their data in between.
THEOREM CopiesAreCurrent == SmallSpec => [](mode # RaidMode => ReadsAreCurrent)
<1> DEFINE Inv == mode # RaidMode => CopiesInv /\ ReadsAreCurrent
<1>1. SmallInit => Inv
  BY CopiesInit DEF SmallInit, ReadsAreCurrent, Proxy!ReadsAreCurrent, Proxy!Init, Proxy!NoRead
<1>2. Inv /\ [SmallNext]_allVars => Inv'
  BY ProxyStep, ModeStays, CopiesStep
<1>3. Inv => (mode # RaidMode => ReadsAreCurrent)
  OBVIOUS
<1>. QED BY <1>1, <1>2, <1>3, PTL DEF SmallSpec

\* The same through every proxy: RAID3Proxy too decodes what is left of one
\* put, for any number of nodes, if every value it accepts is cut into as many blocks
\* as there are nodes but one and does not end in a zero, which raid3_join strips.
THEOREM ReadsAreCurrentHolds ==
    ASSUME Recoverable
    PROVE  SmallSpec => []ReadsAreCurrent
<1> DEFINE Inv == /\ mode = RaidMode => RaidInv
                  /\ mode # RaidMode => CopiesInv
                  /\ ReadsAreCurrent
<1>1. SmallInit => Inv
  BY CopiesInit, RaidInit DEF SmallInit, ReadsAreCurrent, Proxy!ReadsAreCurrent, Proxy!Init, Proxy!NoRead
<1>2. Inv /\ [SmallNext]_allVars => Inv'
  BY ProxyStep, ModeStays, CopiesStep, RaidStep
<1>. QED BY <1>1, <1>2, PTL DEF SmallSpec

HIDE KvProxyAssumption
-----------------------------------------------------------------------------
(* The file server *)

\* Paths are sequences of names.
PathNames == UNION {ToSet(p) : p \in Paths}

LEMMA PathsType == Paths \subseteq Seq(PathNames)
<1> SUFFICES ASSUME NEW p \in Paths PROVE p \in Seq(PathNames)
  OBVIOUS
<1>1. p \in Seq(ToSet(p)) /\ ToSet(p) \subseteq PathNames
  BY FileServerAssumption DEF PathNames
<1> QED
  BY <1>1

\* The prefixes of a path: itself, and those of the path without its last name.
LEMMA PrefixFacts ==
    ASSUME NEW S, NEW s \in Seq(S)
    PROVE  /\ s \in Prefixes(s)
           /\ \A r \in Prefixes(s) : /\ r \in Seq(S) /\ Prefixes(r) \subseteq Prefixes(s)
                                     /\ Len(r) <= Len(s) /\ (Len(r) = Len(s) => r = s)
           /\ s # << >> => /\ Front(s) \in Seq(S) /\ Prefixes(s) = {s} \cup Prefixes(Front(s))
                           /\ s \notin Prefixes(Front(s)) /\ Front(s) \in Prefixes(Front(s))
<1>1. \A l \in 0 .. Len(s) : SubSeq(s, 1, l) \in Seq(S) /\ Len(SubSeq(s, 1, l)) = l
  OBVIOUS
<1>2. SubSeq(s, 1, Len(s)) = s
  OBVIOUS
<1>3. s \in Prefixes(s)
  <2>1. Len(s) \in 0 .. Len(s)
    OBVIOUS
  <2> QED
    BY <1>2, <2>1 DEF Prefixes
<1>4. \A l \in 0 .. Len(s) : \A k \in 0 .. l : SubSeq(SubSeq(s, 1, l), 1, k) = SubSeq(s, 1, k)
  OBVIOUS
<1>5. ASSUME NEW r \in Prefixes(s)
      PROVE  /\ r \in Seq(S) /\ Prefixes(r) \subseteq Prefixes(s)
             /\ Len(r) <= Len(s) /\ (Len(r) = Len(s) => r = s)
  <2>1. PICK l \in 0 .. Len(s) : r = SubSeq(s, 1, l)
    BY DEF Prefixes
  <2>2. r \in Seq(S) /\ Len(r) = l
    BY <1>1, <2>1
  <2>3. ASSUME NEW x \in Prefixes(r) PROVE x \in Prefixes(s)
    <3>1. PICK k \in 0 .. l : x = SubSeq(r, 1, k)
      BY <2>2, <2>3 DEF Prefixes
    <3>2. x = SubSeq(s, 1, k) /\ k \in 0 .. Len(s)
      BY <1>4, <2>1, <3>1
    <3> QED
      BY <3>2 DEF Prefixes
  <2>4. l <= Len(s)
    OBVIOUS
  <2>5. l = Len(s) => r = s
    BY <1>2, <2>1
  <2> QED
    BY <2>2, <2>3, <2>4, <2>5
<1>6. ASSUME s # << >>
      PROVE  /\ Front(s) \in Seq(S) /\ Prefixes(s) = {s} \cup Prefixes(Front(s))
             /\ s \notin Prefixes(Front(s)) /\ Front(s) \in Prefixes(Front(s))
  <2>1. Len(s) \in Nat \ {0} /\ Front(s) = SubSeq(s, 1, Len(s) - 1)
    BY <1>6 DEF Front
  <2>2. PICK f, n : f = Front(s) /\ n = Len(s) - 1 /\ n \in 0 .. Len(s) /\ f = SubSeq(s, 1, n)
                    /\ f \in Seq(S) /\ Len(f) = n /\ n + 1 = Len(s)
    <3>1. PICK n : n = Len(s) - 1 /\ n \in 0 .. Len(s) /\ n + 1 = Len(s)
      BY <2>1
    <3> QED
      BY <1>1, <2>1, <3>1
  <2>3. ASSUME NEW x \in Prefixes(f) PROVE x \in Prefixes(s) /\ x # s
    <3>1. PICK k \in 0 .. n : x = SubSeq(f, 1, k)
      BY <2>2, <2>3 DEF Prefixes
    <3>2. x = SubSeq(s, 1, k) /\ k \in 0 .. Len(s) /\ Len(x) = k
      BY <1>1, <1>4, <2>2, <3>1
    <3> QED
      BY <2>2, <3>1, <3>2 DEF Prefixes
  <2>4. ASSUME NEW x \in Prefixes(s) PROVE x = s \/ x \in Prefixes(f)
    <3>1. PICK l \in 0 .. Len(s) : x = SubSeq(s, 1, l)
      BY <2>4 DEF Prefixes
    <3>2. CASE l = Len(s)
      BY <1>2, <3>1, <3>2
    <3>3. CASE l # Len(s)
      <4>1. l \in 0 .. n
        BY <2>2, <3>3
      <4>2. x = SubSeq(f, 1, l)
        BY <1>4, <2>2, <3>1, <4>1
      <4> QED
        BY <2>2, <4>1, <4>2 DEF Prefixes
    <3> QED
      BY <3>2, <3>3
  <2>5. f \in Prefixes(f)
    <3>1. f = SubSeq(f, 1, n)
      BY <2>2
    <3> QED
      BY <2>2, <3>1 DEF Prefixes
  <2> QED
    BY <1>3, <2>2, <2>3, <2>4, <2>5
<1> QED
  BY <1>3, <1>5, <1>6

LEMMA IsPrefixIs ==
    ASSUME NEW S, NEW s \in Seq(S), NEW r \in Seq(S)
    PROVE  IsPrefix(r, s) <=> r \in Prefixes(s)
<1>1. SubSeq(r, 1, Len(r)) = r /\ Len(r) \in Nat
  OBVIOUS
<1>2. ASSUME IsPrefix(r, s) PROVE r \in Prefixes(s)
  <2>1. Len(r) \in 0 .. Len(s) /\ r = SubSeq(s, 1, Len(r))
    BY <1>1, <1>2 DEF IsPrefix
  <2> QED
    BY <2>1 DEF Prefixes
<1>3. ASSUME r \in Prefixes(s) PROVE IsPrefix(r, s)
  <2>1. PICK l \in 0 .. Len(s) : r = SubSeq(s, 1, l)
    BY <1>3 DEF Prefixes
  <2>2. Len(r) = l
    BY <2>1
  <2> QED
    BY <1>1, <2>1, <2>2 DEF IsPrefix
<1> QED
  BY <1>2, <1>3

\* FileServer has its own copy of the operators on sequences.
LEMMA FilesSame ==
    \A p, q : /\ Files!Prefixes(p) = Prefixes(p) /\ Files!Front(p) = Front(p)
              /\ Files!IsPrefix(p, q) <=> IsPrefix(p, q)
  BY Zenon DEF Files!Prefixes, Prefixes, Files!Front, Front, Files!IsPrefix, IsPrefix

\* Whatever exists has all the folders above it, and files have nothing below them.
TreeIsATree ==
    \A q \in DOMAIN tree : \A r \in Prefixes(q) :
        r \in DOMAIN tree /\ (r # q => tree[r] = Directory)

TreeInv ==
    /\ tree = [q \in DOMAIN tree |-> tree[q]] /\ DOMAIN tree \subseteq Seq(PathNames)
    /\ TreeIsATree

LEMMA TreeInit == Files!Init => TreeInv
<1> SUFFICES ASSUME Files!Init PROVE TreeInv
  OBVIOUS
<1>1. tree = [q \in {<< >>} |-> Directory] /\ DOMAIN tree = {<< >>}
  <2>1. PICK root : root = << >>
    OBVIOUS
  <2>2. tree = [q \in {root} |-> Directory]
    BY <2>1 DEF Files!Init
  <2> QED
    BY <2>1, <2>2
<1>2. << >> \in Seq(PathNames)
  OBVIOUS
<1>3. \A r \in Prefixes(<< >>) : r = << >>
  <2> SUFFICES ASSUME NEW r \in Prefixes(<< >>) PROVE r = << >>
    OBVIOUS
  <2>1. r \in Seq(PathNames) /\ Len(r) <= Len(<< >>)
    BY <1>2, PrefixFacts
  <2> QED
    BY <2>1
<1> QED
  BY <1>1, <1>2, <1>3 DEF TreeInv, TreeIsATree

\* A path written where nothing was, below folders or with the missing ones.
LEMMA TreeWritten ==
    ASSUME TreeInv, NEW p \in Seq(PathNames), p \notin DOMAIN tree, NEW what, NEW S,
           S \subseteq Prefixes(p), p \in S, Prefixes(p) \subseteq DOMAIN tree \cup S,
           \A q \in Prefixes(p) \ {p} : q \in DOMAIN tree => tree[q] = Directory,
           tree' = Files!Written(S, p, what)
    PROVE  TreeInv'
<1>1. /\ tree' = [q \in DOMAIN tree' |-> tree'[q]] /\ DOMAIN tree' = DOMAIN tree \cup S
      /\ \A q \in DOMAIN tree' :
            tree'[q] = IF q = p THEN what ELSE IF q \in DOMAIN tree THEN tree[q] ELSE Directory
  <2>1. PICK f : f = [q \in DOMAIN tree \cup S |->
                        IF q = p THEN what ELSE IF q \in DOMAIN tree THEN tree[q] ELSE Directory]
    OBVIOUS
  <2>2. tree' = f
    BY <2>1, Zenon DEF Files!Written, Files!Entries
  <2> QED
    BY <2>1, <2>2
<1>2. \A q \in Prefixes(p) : q \in Seq(PathNames) /\ Prefixes(q) \subseteq Prefixes(p)
                             /\ (p \in Prefixes(q) => q = p)
  <2> SUFFICES ASSUME NEW q \in Prefixes(p)
               PROVE  q \in Seq(PathNames) /\ Prefixes(q) \subseteq Prefixes(p) /\ (p \in Prefixes(q) => q = p)
    OBVIOUS
  <2>1. q \in Seq(PathNames) /\ Prefixes(q) \subseteq Prefixes(p) /\ Len(q) <= Len(p)
        /\ (Len(q) = Len(p) => q = p)
    BY PrefixFacts
  <2>2. p \in Prefixes(q) => Len(p) <= Len(q)
    BY <2>1, PrefixFacts
  <2> QED
    BY <2>1, <2>2
<1>3. ASSUME NEW q \in DOMAIN tree', NEW r \in Prefixes(q)
      PROVE  r \in DOMAIN tree' /\ (r # q => tree'[r] = Directory)
  <2>1. CASE q \in DOMAIN tree
    <3>1. r \in DOMAIN tree /\ (r # q => tree[r] = Directory)
      BY <1>3, <2>1 DEF TreeInv, TreeIsATree
    <3> QED
      BY <1>1, <3>1
  <2>2. CASE q \in S
    <3>1. q \in Prefixes(p) /\ r \in Prefixes(p)
      BY <1>2, <1>3, <2>2
    <3>2. r \in DOMAIN tree'
      BY <1>1, <3>1
    <3>3. r # q => r # p
      BY <1>2, <1>3, <3>1
    <3>4. r # p => tree'[r] = Directory
      BY <1>1, <3>1, <3>2
    <3> QED
      BY <3>2, <3>3, <3>4
  <2> QED
    BY <1>1, <2>1, <2>2
<1> QED
  BY <1>1, <1>2, <1>3 DEF TreeInv, TreeIsATree

LEMMA TreePost ==
    ASSUME TreeInv, NEW p \in Seq(PathNames), NEW what, p \notin DOMAIN tree,
           \A q \in Prefixes(p) \ {p} : ~Files!IsFile(q), tree' = Files!WithParents(p, what)
    PROVE  TreeInv'
<1>1. \A q \in Prefixes(p) \ {p} : q \in DOMAIN tree => tree[q] = Directory
  BY DEF Files!IsFile, Files!Entries
<1>2. PICK S : S = Prefixes(p)
  OBVIOUS
<1>3. tree' = Files!Written(S, p, what) /\ p \in S
  <2>1. p \in Prefixes(p)
    BY PrefixFacts
  <2> QED
    BY <1>2, <2>1, FilesSame, Zenon DEF Files!WithParents
<1> QED
  BY <1>1, <1>2, <1>3, TreeWritten

\* A file keeps being one, whatever it is given.
LEMMA TreeReplaced ==
    ASSUME TreeInv, NEW p, p \in DOMAIN tree, tree[p] # Directory, NEW content,
           tree' = [tree EXCEPT ![p] = content]
    PROVE  TreeInv'
<1>1. /\ tree' = [q \in DOMAIN tree |-> tree'[q]] /\ DOMAIN tree' = DOMAIN tree
      /\ \A q \in DOMAIN tree : q # p => tree'[q] = tree[q]
  OBVIOUS
<1>2. \A q \in DOMAIN tree : \A r \in Prefixes(q) : r # q => r # p /\ tree'[r] = Directory
  BY <1>1 DEF TreeInv, TreeIsATree
<1> QED
  BY <1>1, <1>2 DEF TreeInv, TreeIsATree

\* The file a PUT makes has its folder above it.
LEMMA TreePutMissing ==
    ASSUME TreeInv, NEW p \in Seq(PathNames), p \notin DOMAIN tree,
           p = << >> \/ Files!IsDir(Front(p)), tree' = Files!Written({p}, p, Empty)
    PROVE  TreeInv'
<1>1. p = << >> \/ (Front(p) \in DOMAIN tree /\ tree[Front(p)] = Directory)
  BY Zenon DEF Files!IsDir, Files!Entries
<1>2. p \in Prefixes(p)
  BY PrefixFacts
<1>3. Prefixes(p) \subseteq DOMAIN tree \cup {p}
      /\ \A q \in Prefixes(p) \ {p} : q \in DOMAIN tree /\ tree[q] = Directory
  <2>1. CASE p = << >>
    <3>1. \A q \in Prefixes(p) : Len(q) <= Len(p) /\ q \in Seq(PathNames)
      BY PrefixFacts
    <3>2. \A q \in Prefixes(p) : q = p
      <4> SUFFICES ASSUME NEW q \in Prefixes(p) PROVE q = << >>
        BY <2>1
      <4>1. Len(q) <= 0 /\ q \in Seq(PathNames)
        BY <2>1, <3>1
      <4> QED
        BY <4>1
    <3> QED
      BY <3>2
  <2>2. CASE p # << >>
    <3>1. Prefixes(p) = {p} \cup Prefixes(Front(p))
      BY <2>2, PrefixFacts
    <3>2. \A q \in Prefixes(Front(p)) : q \in DOMAIN tree /\ tree[q] = Directory
      BY <1>1, <2>2 DEF TreeInv, TreeIsATree
    <3> QED
      BY <3>1, <3>2
  <2> QED
    BY <2>1, <2>2
<1>4. PICK S : S = {p}
  OBVIOUS
<1> QED
  BY <1>1, <1>2, <1>3, <1>4, TreeWritten

\* What is below a path that stays, stays.
LEMMA TreeDelete ==
    ASSUME TreeInv, NEW p \in Seq(PathNames), tree' = Files!Without(Files!Below(p))
    PROVE  TreeInv'
<1>1. PICK B : B = Files!Below(p)
  OBVIOUS
<1>2. /\ tree' = [q \in DOMAIN tree \ B |-> tree[q]] /\ DOMAIN tree' = DOMAIN tree \ B
      /\ \A q \in DOMAIN tree \ B : tree'[q] = tree[q]
  BY <1>1 DEF Files!Without, Files!Entries
<1>3. \A q \in DOMAIN tree : q \in B <=> p \in Prefixes(q)
  <2> SUFFICES ASSUME NEW q \in DOMAIN tree PROVE q \in B <=> p \in Prefixes(q)
    OBVIOUS
  <2>1. q \in Seq(PathNames)
    BY DEF TreeInv
  <2>2. IsPrefix(p, q) <=> p \in Prefixes(q)
    BY <2>1, IsPrefixIs, Zenon
  <2>3. q \in B <=> IsPrefix(p, q)
    BY <1>1, FilesSame, Zenon DEF Files!Below, Files!Entries
  <2> QED
    BY <2>2, <2>3
<1>4. ASSUME NEW q \in DOMAIN tree \ B, NEW r \in Prefixes(q) PROVE r \in DOMAIN tree \ B
  <2>1. r \in DOMAIN tree /\ q \in Seq(PathNames)
    BY <1>4 DEF TreeInv, TreeIsATree
  <2>2. Prefixes(r) \subseteq Prefixes(q)
    BY <2>1, <1>4, PrefixFacts
  <2> QED
    BY <1>3, <1>4, <2>1, <2>2
<1> QED
  BY <1>2, <1>4 DEF TreeInv, TreeIsATree

\* What a request comes to: a refusal with its reason, an exception, or a change.
Outcome(v, p, what) ==
    \/ v = "HEAD" /\ Files!Refuse("400")
    \/ v = "GET" /\ p \notin Files!Entries /\ Files!Refuse("404")
    \/ v = "GET" /\ p \in Files!Entries /\ Files!Refuse("200")
    \/ v = "POST" /\ p \in Files!Entries /\ Files!Refuse("409")
    \/ v = "POST" /\ Files!Raise(<< >>)
    \/ /\ v = "POST" /\ p \notin Files!Entries /\ Files!Reply("200")
       /\ (\A q \in Prefixes(p) \ {p} : ~Files!IsFile(q)) /\ tree' = Files!WithParents(p, what)
    \/ v = "PUT" /\ p \in Files!Entries /\ Files!Refuse("409")
    \/ v = "PUT" /\ p \notin Files!Entries /\ Files!Raise(<<"404">>)
    \/ v = "PUT" /\ Files!IsFile(p) /\ tree' = [tree EXCEPT ![p] = what] /\ Files!Reply("200")
    \/ /\ v = "PUT" /\ p \notin Files!Entries /\ (p = << >> \/ Files!IsDir(Front(p)))
       /\ tree' = Files!Written({p}, p, Empty)
       /\ \/ replies' = <<"404", "200">> /\ UNCHANGED waiting
          \/ replies' = <<"404">> /\ waiting' = {p}
    \/ v = "DELETE" /\ p \notin Files!Entries /\ Files!Refuse("404")
    \/ v = "DELETE" /\ Files!IsDir(p) /\ what # Directory /\ Files!Refuse("406")
    \/ /\ v = "DELETE" /\ p \in Files!Entries /\ (Files!IsDir(p) => what = Directory)
       /\ tree' = Files!Without(Files!Below(p)) /\ Files!Reply("200")

LEMMA HandleOutcome ==
    ASSUME NEW r \in Files!Requests, Files!Handle(r)
    PROVE  /\ request' = r /\ waiting = {}
           /\ (r.otherHost /\ Files!Refuse("400")) \/ (~r.otherHost /\ Outcome(r.method, r.path, r.what))
<1>1. PICK v, p, what : v = r.method /\ p = r.path /\ what = r.what
  OBVIOUS
<1>2. v \in Files!Methods /\ r.otherHost \in BOOLEAN
  BY <1>1 DEF Files!Requests
<1>3. request' = r /\ waiting = {}
  BY DEF Files!Handle
<1>4. \/ r.otherHost /\ Files!Refuse("400")
      \/ /\ ~r.otherHost
         /\ \/ v = "GET" /\ Files!Get(p)
            \/ v = "POST" /\ Files!Post(p, what)
            \/ v = "PUT" /\ Files!Put(p, what)
            \/ v = "DELETE" /\ Files!Delete(p, what)
            \/ v = "HEAD" /\ Files!Refuse("400")
  <2>1. \/ r.otherHost /\ Files!Refuse("400")
        \/ /\ ~r.otherHost
           /\ \/ r.method = "GET" /\ Files!Get(r.path)
              \/ r.method = "POST" /\ Files!Post(r.path, r.what)
              \/ r.method = "PUT" /\ Files!Put(r.path, r.what)
              \/ r.method = "DELETE" /\ Files!Delete(r.path, r.what)
              \/ r.method = "HEAD" /\ Files!Refuse("400")
    <3>1. CASE r.otherHost
      <4>1. Files!Refuse("400")
        BY <3>1 DEF Files!Handle
      <4> QED
        BY <3>1, <4>1
    <3>2. CASE ~r.otherHost /\ r.method = "GET"
      BY <3>2 DEF Files!Handle
    <3>3. CASE ~r.otherHost /\ r.method = "POST"
      BY <3>3 DEF Files!Handle
    <3>4. CASE ~r.otherHost /\ r.method = "PUT"
      BY <3>4 DEF Files!Handle
    <3>5. CASE ~r.otherHost /\ r.method = "DELETE"
      BY <3>5 DEF Files!Handle
    <3>6. CASE ~r.otherHost /\ r.method = "HEAD"
      BY <3>6 DEF Files!Handle
    <3> QED
      BY <1>1, <1>2, <3>1, <3>2, <3>3, <3>4, <3>5, <3>6 DEF Files!Methods
  <2> QED
    BY <1>1, <2>1
<1>5. ASSUME v = "GET" /\ Files!Get(p) PROVE Outcome(v, p, what)
  BY <1>5, Zenon DEF Files!Get, Outcome
<1>6. ASSUME v = "POST" /\ Files!Post(p, what) PROVE Outcome(v, p, what)
  <2>1. \/ p \in Files!Entries /\ Files!Refuse("409")
        \/ Files!Raise(<< >>)
        \/ /\ p \notin Files!Entries /\ \A q \in Prefixes(p) \ {p} : ~Files!IsFile(q)
           /\ tree' = Files!WithParents(p, what) /\ Files!Reply("200")
    BY <1>6, FilesSame, Zenon DEF Files!Post, Files!PostTaken
  <2> QED
    BY <1>6, <2>1, Zenon DEF Outcome
<1>7. ASSUME v = "PUT" /\ Files!Put(p, what) PROVE Outcome(v, p, what)
  <2>1. \/ p \in Files!Entries /\ Files!Refuse("409")
        \/ Files!IsFile(p) /\ tree' = [tree EXCEPT ![p] = what] /\ Files!Reply("200")
        \/ p \notin Files!Entries /\ Files!PutMissing(p, what)
    BY <1>7, Zenon DEF Files!Put, Files!IsDir, Files!IsFile
  <2>2. ASSUME Files!PutMissing(p, what)
        PROVE  \/ Files!Raise(<<"404">>)
               \/ /\ p = << >> \/ Files!IsDir(Front(p))
                  /\ tree' = Files!Written({p}, p, Empty)
                  /\ \/ replies' = <<"404", "200">> /\ UNCHANGED waiting
                     \/ replies' = <<"404">> /\ waiting' = {p}
    BY <2>2, FilesSame, Zenon DEF Files!PutMissing
  <2> QED
    BY <1>7, <2>1, <2>2, Zenon DEF Outcome
<1>8. ASSUME v = "DELETE" /\ Files!Delete(p, what) PROVE Outcome(v, p, what)
  <2>1. \/ p \notin Files!Entries /\ Files!Refuse("404")
        \/ Files!IsDir(p) /\ what # Directory /\ Files!Refuse("406")
        \/ /\ p \in Files!Entries /\ (Files!IsDir(p) => what = Directory)
           /\ tree' = Files!Without(Files!Below(p)) /\ Files!Reply("200")
    BY <1>8 DEF Files!Delete
  <2> QED
    BY <1>8, <2>1, Zenon DEF Outcome
<1>9. (r.otherHost /\ Files!Refuse("400")) \/ (~r.otherHost /\ Outcome(v, p, what))
  <2>1. ASSUME v = "HEAD" /\ Files!Refuse("400") PROVE Outcome(v, p, what)
    BY <2>1, Zenon DEF Outcome
  <2> QED
    BY <1>4, <1>5, <1>6, <1>7, <1>8, <2>1
<1> QED
  BY <1>1, <1>3, <1>9

\* What the server waits for is a file it has made.
Waits ==
    waiting # {} =>
        /\ waiting = {request.path} /\ request.method = "PUT"
        /\ request.path \in DOMAIN tree /\ tree[request.path] # Directory

FileInv == TreeInv /\ Waits

LEMMA HandleKeepsFiles ==
    ASSUME FileInv, NEW r \in Files!Requests, Files!Handle(r) PROVE FileInv'
<1>1. PICK v, p, what : v = r.method /\ p = r.path /\ what = r.what
  OBVIOUS
<1>2. /\ request' = r /\ waiting = {}
      /\ (r.otherHost /\ Files!Refuse("400")) \/ (~r.otherHost /\ Outcome(v, p, what))
  BY <1>1, HandleOutcome
<1>3. p \in Seq(PathNames)
  BY <1>1, PathsType DEF Files!Requests
<1>4. CASE tree' = tree /\ UNCHANGED waiting
  BY <1>2, <1>4 DEF FileInv, TreeInv, TreeIsATree, Waits
<1>5. CASE /\ v = "POST" /\ p \notin Files!Entries /\ Files!Reply("200")
           /\ \A q \in Prefixes(p) \ {p} : ~Files!IsFile(q)
           /\ tree' = Files!WithParents(p, what)
  <2>1. TreeInv'
    BY <1>3, <1>5, TreePost DEF FileInv, Files!Entries
  <2> QED
    BY <1>2, <1>5, <2>1 DEF FileInv, Waits, Files!Reply
<1>6. CASE v = "PUT" /\ Files!IsFile(p) /\ tree' = [tree EXCEPT ![p] = what] /\ Files!Reply("200")
  <2>1. TreeInv'
    BY <1>6, TreeReplaced DEF FileInv, Files!IsFile, Files!Entries
  <2> QED
    BY <1>2, <1>6, <2>1 DEF FileInv, Waits, Files!Reply
<1>7. CASE /\ v = "PUT" /\ p \notin Files!Entries /\ (p = << >> \/ Files!IsDir(Front(p)))
           /\ tree' = Files!Written({p}, p, Empty)
           /\ \/ replies' = <<"404", "200">> /\ UNCHANGED waiting
              \/ replies' = <<"404">> /\ waiting' = {p}
  <2>1. TreeInv'
    BY <1>3, <1>7, TreePutMissing DEF FileInv, Files!Entries
  <2>2. p \in DOMAIN tree' /\ tree'[p] = Empty
    BY <1>7 DEF Files!Written
  <2>3. request'.path = p /\ request'.method = v
    BY <1>1, <1>2
  <2> QED
    BY <1>2, <1>7, <2>1, <2>2, <2>3, FileServerAssumption DEF FileInv, Waits
<1>8. CASE /\ v = "DELETE" /\ p \in Files!Entries /\ tree' = Files!Without(Files!Below(p))
           /\ Files!Reply("200")
  <2>1. TreeInv'
    BY <1>3, <1>8, TreeDelete DEF FileInv
  <2> QED
    BY <1>2, <1>8, <2>1 DEF FileInv, Waits, Files!Reply
<1>9. \A s : Files!Refuse(s) => tree' = tree /\ UNCHANGED waiting
  BY DEF Files!Refuse, Files!Reply
<1>10. \A s : Files!Raise(s) => tree' = tree /\ UNCHANGED waiting
  BY DEF Files!Raise
<1> QED
  BY <1>2, <1>4, <1>5, <1>6, <1>7, <1>8, <1>9, <1>10 DEF Outcome

LEMMA FilesNext == FileInv /\ [Files!Next]_fileVars => FileInv'
<1> SUFFICES ASSUME FileInv, [Files!Next]_fileVars PROVE FileInv'
  OBVIOUS
<1>1. CASE UNCHANGED fileVars
  BY <1>1 DEF FileInv, TreeInv, TreeIsATree, Waits, fileVars
<1>2. CASE \E r \in Files!Requests : Files!Handle(r)
  BY <1>2, HandleKeepsFiles
<1>3. CASE \E content \in Bodies \cup {Empty} : Files!PutRest(content)
  <2>0. PICK content \in Bodies \cup {Empty} : Files!PutRest(content)
    BY <1>3
  <2>1. PICK p \in waiting : tree' = [tree EXCEPT ![p] = content] /\ waiting' = {}
    BY <2>0 DEF Files!PutRest
  <2>2. p \in DOMAIN tree /\ tree[p] # Directory
    BY <2>1 DEF FileInv, Waits
  <2> QED
    BY <2>1, <2>2, TreeReplaced DEF FileInv, Waits
<1> QED
  BY <1>1, <1>2, <1>3 DEF Files!Next

LEMMA FilesAlways == SmallSpec => []FileInv
<1>1. SmallInit => FileInv
  <2>1. Files!Init => FileInv
    BY TreeInit DEF FileInv, Waits, Files!Init
  <2> QED
    BY <2>1 DEF SmallInit
<1>2. SmallNext \/ UNCHANGED allVars => [Files!Next]_fileVars
  BY DEF SmallNext, allVars, RingRuns, OnceRuns, ChatRuns, RumourRuns, ProxyRuns, PingsRun, RaftRuns, FilesRun
<1>3. FileInv /\ [SmallNext]_allVars => FileInv'
  BY <1>2, FilesNext
<1> QED
  BY <1>1, <1>3, PTL DEF SmallSpec

\* Whatever requests are made: a file has nothing below it, and each entry is in a
\* folder that exists, though the root itself may be deleted.
THEOREM FilesAreLeaves == SmallSpec => []TreeIsATree
<1>1. FileInv => TreeIsATree
  BY DEF FileInv, TreeInv
<1> QED
  BY <1>1, FilesAlways, PTL

\* What the file server answers is so, whatever requests come in whatever order and
\* for every tree: one 200 and the path holds what was asked for, or is gone with all
\* below it, a folder only when the header allows it, and everything else is as it
\* was; one refusal, for a reason that holds, and nothing is touched; and a PUT to a
\* missing path makes that file alone, whatever it then reads.
THEOREM RepliesAreTrueHolds == SmallSpec => RepliesAreTrue
<1>1. ASSUME FileInv, NEW r \in Files!Requests, Files!Handle(r) PROVE Files!Truthful
  <2>1. PICK v, p, what : v = r.method /\ p = r.path /\ what = r.what
    OBVIOUS
  <2>2. /\ request' = r /\ waiting = {}
        /\ (r.otherHost /\ Files!Refuse("400")) \/ (~r.otherHost /\ Outcome(v, p, what))
    BY <1>1, <2>1, HandleOutcome
  <2>3. p \in Seq(PathNames) /\ r.otherHost \in BOOLEAN /\ (v = "PUT" => what \in Bodies \cup {Empty})
    BY <1>1, <2>1, PathsType DEF Files!Requests
  <2>4. p \in Prefixes(p) /\ Files!Prefixes(p) = Prefixes(p)
    BY <2>3, PrefixFacts, FilesSame
  <2>5. ASSUME NEW s, Files!Refuse(s), s # "200",
               s = "400" => r.otherHost \/ v = "HEAD",
               s = "404" => p \notin Files!Entries,
               s = "406" => Files!IsDir(p) /\ what # Directory,
               s = "409" => p \in Files!Entries
        PROVE  Files!Truthful
    <3>1. tree' = tree /\ replies' = <<s>> /\ waiting' = {} /\ replies'[1] = s /\ Len(replies') = 1
      BY <2>2, <2>5 DEF Files!Refuse, Files!Reply
    <3>2. Files!Refusal(request')
      BY <2>1, <2>2, <2>5, <3>1 DEF Files!Refusal
    <3>3. replies' # <<"404", "200">> /\ replies' # <<"200">>
      BY <2>5, <3>1
    <3> QED
      BY <3>1, <3>2, <3>3 DEF Files!Truthful
  <2>6. ASSUME NEW s, Files!Raise(s), s = << >> \/ s = <<"404">>, s = <<"404">> => p \notin Files!Entries
        PROVE  Files!Truthful
    <3>1. tree' = tree /\ replies' = s /\ waiting' = {}
      BY <2>2, <2>6 DEF Files!Raise
    <3>2. Files!Refusal(request')
      <4>1. \A reason : replies' = <<reason>> => reason = "404" /\ p \notin Files!Entries
        BY <2>6, <3>1
      <4>2. ~(replies' = <<"400">>) /\ ~(replies' = <<"406">>) /\ ~(replies' = <<"409">>)
        BY <4>1
      <4> QED
        BY <2>1, <2>2, <2>6, <3>1, <4>1, <4>2 DEF Files!Refusal
    <3>3. replies' # <<"404", "200">> /\ replies' # <<"200">>
      BY <2>6, <3>1
    <3> QED
      BY <3>1, <3>2, <3>3 DEF Files!Truthful
  <2>7. ASSUME Files!Reply("200"), Files!Success(r) PROVE Files!Truthful
    BY <2>2, <2>7 DEF Files!Truthful, Files!Reply
  <2>8. ASSUME ~r.otherHost, v = "GET", p \in Files!Entries, Files!Refuse("200") PROVE Files!Truthful
    BY <2>1, <2>7, <2>8 DEF Files!Refuse, Files!Success
  <2>9. ASSUME ~r.otherHost, v = "POST", p \notin Files!Entries, Files!Reply("200"),
               \A q \in Prefixes(p) \ {p} : ~Files!IsFile(q), tree' = Files!WithParents(p, what)
        PROVE  Files!Truthful
    <3>1. PICK S : S = Prefixes(p)
      OBVIOUS
    <3>2. tree' = Files!Written(S, p, what)
      BY <2>4, <2>9, <3>1 DEF Files!WithParents
    <3>3. /\ DOMAIN tree' = Files!Entries \cup S /\ tree'[p] = what
          /\ \A q \in Files!Entries : tree'[q] = tree[q]
          /\ \A q \in S : q # p => tree'[q] = IF q \in Files!Entries THEN tree[q] ELSE Directory
      BY <2>4, <2>9, <3>1, <3>2 DEF Files!Written
    <3>4. \A q \in S : q # p => tree'[q] = Directory
      BY <2>9, <3>1, <3>3 DEF Files!IsFile
    <3>5. Files!Keeps({})
      BY <3>3 DEF Files!Keeps
    <3>6. Files!Prefixes(r.path) = S
      BY <2>1, <2>4, <3>1
    <3> QED
      BY <2>1, <2>7, <2>9, <3>3, <3>4, <3>5, <3>6 DEF Files!Success
  <2>10. ASSUME ~r.otherHost, v = "PUT", Files!IsFile(p), tree' = [tree EXCEPT ![p] = what],
                Files!Reply("200")
         PROVE  Files!Truthful
    <3>1. DOMAIN tree' = Files!Entries /\ tree'[p] = what /\ Files!Keeps({p})
      BY <2>10 DEF Files!Entries, Files!Keeps, Files!IsFile
    <3> QED
      BY <2>1, <2>7, <2>10, <3>1 DEF Files!Success
  <2>11. ASSUME v = "PUT", p \notin Files!Entries, tree' = Files!Written({p}, p, Empty),
                \/ replies' = <<"404", "200">> /\ UNCHANGED waiting
                \/ replies' = <<"404">> /\ waiting' = {p}
         PROVE  Files!Truthful
    <3>1. DOMAIN tree' = Files!Entries \cup {p} /\ tree'[p] = Empty /\ Files!Keeps({p})
      BY <2>11 DEF Files!Written, Files!Keeps
    <3>2. Files!Late(request')
      BY <2>1, <2>2, <2>11, <3>1 DEF Files!Late
    <3>3. (waiting' # {} \/ replies' = <<"404", "200">>) /\ replies' # <<"200">>
      BY <2>11
    <3> QED
      BY <3>2, <3>3 DEF Files!Truthful
  <2>12. ASSUME ~r.otherHost, v = "DELETE", p \in Files!Entries, Files!IsDir(p) => what = Directory,
                tree' = Files!Without(Files!Below(p)), Files!Reply("200")
         PROVE  Files!Truthful
    <3>1. PICK B : B = Files!Below(p)
      OBVIOUS
    <3>2. DOMAIN tree' = Files!Entries \ B /\ Files!Keeps(B)
      BY <2>12, <3>1 DEF Files!Without, Files!Keeps
    <3>3. Files!Below(r.path) = B
      BY <2>1, <3>1
    <3> QED
      BY <2>1, <2>7, <2>12, <3>2, <3>3 DEF Files!Success
  <2>13. CASE r.otherHost /\ Files!Refuse("400")
    BY <2>5, <2>13
  <2>14. CASE ~r.otherHost /\ Outcome(v, p, what)
    <3>1. ASSUME v = "HEAD" /\ Files!Refuse("400") PROVE Files!Truthful
      BY <2>5, <3>1
    <3>2. ASSUME p \notin Files!Entries /\ Files!Refuse("404") PROVE Files!Truthful
      BY <2>5, <3>2
    <3>3. ASSUME p \in Files!Entries /\ Files!Refuse("409") PROVE Files!Truthful
      BY <2>5, <3>3
    <3>4. ASSUME Files!IsDir(p) /\ what # Directory /\ Files!Refuse("406") PROVE Files!Truthful
      BY <2>5, <3>4
    <3>5. ASSUME Files!Raise(<< >>) PROVE Files!Truthful
      BY <2>6, <3>5
    <3>6. ASSUME p \notin Files!Entries /\ Files!Raise(<<"404">>) PROVE Files!Truthful
      BY <2>6, <3>6
    <3> QED
      BY <2>8, <2>9, <2>10, <2>11, <2>12, <2>14, <3>1, <3>2, <3>3, <3>4, <3>5, <3>6, Zenon DEF Outcome
  <2> QED
    BY <2>2, <2>13, <2>14
<1>2. ASSUME FileInv, NEW content \in Bodies \cup {Empty}, Files!PutRest(content) PROVE Files!Truthful
  <2>1. PICK p \in waiting : /\ tree' = [tree EXCEPT ![p] = content] /\ waiting' = {}
                             /\ replies' = <<"404", "200">> /\ request' = request
    BY <1>2 DEF Files!PutRest
  <2>2. /\ waiting = {p} /\ request.path = p /\ request.method = "PUT"
        /\ p \in Files!Entries
    BY <1>2, <2>1 DEF FileInv, Waits, Files!Entries
  <2>3. DOMAIN tree' = Files!Entries \cup {p} /\ tree'[p] = content /\ Files!Keeps({p})
    BY <2>1, <2>2 DEF Files!Entries, Files!Keeps
  <2>4. Files!Late(request')
    BY <1>2, <2>1, <2>2, <2>3 DEF Files!Late
  <2>5. replies' # <<"200">>
    BY <2>1
  <2> QED
    BY <2>1, <2>4, <2>5 DEF Files!Truthful
<1>3. SmallNext \/ UNCHANGED allVars => [Files!Next]_fileVars
  BY DEF SmallNext, allVars, RingRuns, OnceRuns, ChatRuns, RumourRuns, ProxyRuns, PingsRun, RaftRuns, FilesRun
<1>4. FileInv /\ Files!Next => Files!Truthful
  BY <1>1, <1>2 DEF Files!Next
<1>5. FileInv /\ [SmallNext]_allVars => [Files!Truthful]_(Files!vars)
  BY <1>3, <1>4 DEF fileVars, Files!vars
<1> QED
  BY <1>5, FilesAlways, PTL DEF SmallSpec, RepliesAreTrue, Files!RepliesAreTrue
=============================================================================

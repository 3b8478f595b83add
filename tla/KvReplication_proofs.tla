------------------------ MODULE KvReplication_proofs ------------------------
(***************************************************************************)
(* Proofs about KvReplication for every number of nodes, clients, values   *)
(* and requests.                                                           *)
(***************************************************************************)
EXTENDS KvReplication, FiniteSetTheorems, WellFoundedInduction, TLAPS

-----------------------------------------------------------------------------
(* Types *)

Pairs == Int \X Nat
Operations == {"GET", "PUT", "DELETE"}

\* A message of a request and the answer to it.
Requests == [type : Operations, src : Nodes, dst : Nodes, id : Nat, time : Int,
             value : Nat \cup {NoValue}]
Replies == [type : Responses, src : Nodes, dst : Nodes, id : Nat, time : Int,
            value : Nat \cup {NoValue}]
Updates == [type : {"UPDATE"}, src : Nodes, dst : Replicas, item : Pairs]
Acks == [type : {"ACK"}, src : Replicas, dst : Nodes]

Events == [node : Nodes, type : Operations, time : Nat, value : Nat \cup {NoValue},
           quorum : 1 .. N, sent : BOOLEAN, resp : UNION {[S -> Pairs] : S \in SUBSET Nodes},
           handoff : Nodes, open : BOOLEAN]
Hints == [open : BOOLEAN, item : Pairs, update : SUBSET Replicas]

Asking == DOMAIN events
ItemOf(m) == <<m.time, m.value>>

Typing ==
    /\ data \in [Nodes -> Pairs] /\ hints \in [Nodes -> Hints]
    /\ net \subseteq Requests \cup Replies \cup Updates \cup Acks
    /\ now \in Nat /\ early \in Nat
    /\ \E k \in Nat : Asking = 1 .. k
    /\ events \in [Asking -> Events] /\ floor \in [Asking -> Pairs]
    /\ \A i \in Asking : events[i].type = "PUT" => events[i].value \in Nat
    /\ DOMAIN answered \subseteq Asking /\ answered \in [DOMAIN answered -> Pairs]

\* A message belongs to a request, and what is to be stored has a value.
Addressed ==
    \A m \in net \cap (Requests \cup Replies) :
        m.id \in Asking /\ (m.type \in {"PUT", "GET_RESP", "PUT_RESP"} => m.value \in Nat)

Sound == Typing /\ Addressed

-----------------------------------------------------------------------------
(* Pairs of time and value *)

\* The later time is the greater pair, and of equal times the greater value.
LEMMA LessIs ==
    ASSUME NEW a \in Int \X Int, NEW b \in Int \X Int
    PROVE  /\ ~Less(a, a)
           /\ a # b => Less(a, b) \/ Less(b, a)
           /\ Less(a, b) => ~Less(b, a)
  BY DEF Less

LEMMA LessTransitive ==
    ASSUME NEW a \in Int \X Int, NEW b \in Int \X Int, NEW c \in Int \X Int,
           ~Less(a, b), ~Less(b, c)
    PROVE  ~Less(a, c)
  BY DEF Less

IsLatest(S, a) == a \in S /\ \A b \in S : ~Less(a, b)

\* Whatever finite set of pairs is not empty has a latest one.
LEMMA LatestExists ==
    ASSUME NEW S, S \subseteq Int \X Int, IsFiniteSet(S), S # {}
    PROVE  \E a \in S : IsLatest(S, a)
<1> DEFINE Bad == {s \in SUBSET S : s # {} /\ \A a \in s : ~IsLatest(s, a)}
           Order == StrictSubsetOrdering(S)
<1>1. ASSUME Bad # {} PROVE FALSE
  <2>1. Bad \subseteq FiniteSubsetsOf(S)
    BY FS_Subset DEF FiniteSubsetsOf
  <2>2. IsWellFoundedOn(Order, FiniteSubsetsOf(S))
    BY FS_StrictSubsetOrderingWellFounded
  <2>3. PICK s \in Bad : \A u \in Bad : <<u, s>> \notin Order
    <3> HIDE DEF Bad, Order
    <3> QED
      BY <1>1, <2>1, <2>2, WFMin
  <2>4. PICK x \in s : s \in SUBSET S /\ \A a \in s : ~IsLatest(s, a)
    BY <2>3
  <2>5. PICK u : u = s \ {x} /\ u \in SUBSET S /\ u # s /\ u \subseteq s
    <3>1. x \in s /\ x \notin s \ {x} /\ s \ {x} \in SUBSET S /\ s \ {x} \subseteq s
      BY <2>4
    <3> QED
      BY <3>1
  <2>6. u \notin Bad
    <3>1. <<u, s>> \in Order
      BY <2>4, <2>5 DEF StrictSubsetOrdering
    <3> HIDE DEF Bad, Order
    <3> QED
      BY <2>3, <3>1
  <2>7. x \in Int \X Int
    BY <2>4
  <2>8. CASE u = {}
    <3>1. s = {x}
      BY <2>5, <2>8
    <3>2. ~Less(x, x)
      BY <2>7, LessIs
    <3> QED
      BY <2>4, <3>1, <3>2 DEF IsLatest
  <2>9. CASE u # {}
    <3>1. PICK a \in u : IsLatest(u, a)
      BY <2>5, <2>6, <2>9
    <3>2. a \in Int \X Int /\ a \in s /\ \A b \in s : b = x \/ b \in u
      BY <2>4, <2>5
    <3>3. CASE Less(a, x)
      <4>1. \A b \in u : b \in Int \X Int /\ ~Less(a, b)
        BY <2>5, <3>1 DEF IsLatest
      <4>2. ~Less(x, a) /\ ~Less(x, x)
        BY <2>7, <3>2, <3>3, LessIs
      <4>3. \A b \in u : ~Less(x, b)
        BY <2>7, <3>2, <4>1, <4>2, LessTransitive
      <4> QED
        BY <2>4, <3>2, <4>2, <4>3 DEF IsLatest
    <3>4. CASE ~Less(a, x)
      BY <2>4, <3>1, <3>2, <3>4 DEF IsLatest
    <3> QED
      BY <3>3, <3>4
  <2> QED
    BY <2>8, <2>9
<1>2. S \notin Bad
  BY <1>1
<1> QED
  BY <1>2

LEMMA LatestIs ==
    ASSUME NEW S, S \subseteq Int \X Int, IsFiniteSet(S), S # {}
    PROVE  IsLatest(S, Latest(S))
  BY LatestExists DEF Latest, IsLatest

\* There is only one.
LEMMA LatestUnique ==
    ASSUME NEW S, S \subseteq Int \X Int, NEW a, IsLatest(S, a)
    PROVE  Latest(S) = a
<1>1. PICK c : c = Latest(S)
  OBVIOUS
<1>2. IsLatest(S, c)
  BY <1>1 DEF Latest, IsLatest
<1> QED
  BY <1>1, <1>2, LessIs DEF IsLatest

LEMMA NewerIs ==
    ASSUME NEW a \in Int \X Int, NEW b \in Int \X Int
    PROVE  /\ Newer(a, b) \in {a, b}
           /\ ~Less(Newer(a, b), a) /\ ~Less(Newer(a, b), b)
  BY LessIs DEF Newer

-----------------------------------------------------------------------------
(* Messages *)

LEMMA MessageKinds ==
    ASSUME Typing, NEW m \in net
    PROVE  /\ m.type \in Operations => m \in Requests
           /\ m.type \in Responses => m \in Replies
           /\ m.type = "UPDATE" => m \in Updates
           /\ m.type = "ACK" => m \in Acks
           /\ m \in Requests => m.type \in Operations
           /\ m \in Replies => m.type \in Responses
           /\ m \in Updates => m.type = "UPDATE"
           /\ m \in Acks => m.type = "ACK"
<1>1. m \in Requests \cup Replies \cup Updates \cup Acks
  BY DEF Typing
<1> QED
  BY <1>1 DEF Requests, Replies, Updates, Acks, Operations, Responses

\* What is sent is lost if a node is cut off.
LEMMA SentIs ==
    ASSUME NEW flight, NEW msgs
    PROVE  /\ flight \subseteq Sent(flight, msgs)
           /\ Sent(flight, msgs) \subseteq flight \cup msgs
           /\ cut = {} => Sent(flight, msgs) = flight \cup msgs
<1>1. cut = {} => \A m \in msgs : Reaches(m)
  BY DEF Reaches
<1> QED
  BY <1>1 DEF Sent

LEMMA NodesAre ==
    /\ Nodes \subseteq Nat /\ IsFiniteSet(Nodes) /\ Replicas \subseteq Nodes /\ N = 3
    /\ NoValue \in Int /\ NoValue \notin Nat
    /\ \A n \in Nat : NextReplica(n) \in Nodes
    /\ Clients \subseteq Nodes
    /\ Replicas = {0, 1, 2}
    /\ None \in Int \X Nat
<1>1. NodeCount \in Nat /\ NodeCount >= 3
  BY KvReplicationAssumption
<1>2. IsFiniteSet(Nodes)
  BY <1>1, FS_Interval DEF Nodes
<1>3. \A n \in Nat : NextReplica(n) \in Nodes
  BY <1>1 DEF NextReplica, Nodes
<1>4. Replicas = {0, 1, 2} /\ N = 3
  BY DEF Replicas, N
<1>5. Replicas \subseteq Nodes /\ Nodes \subseteq Nat
  BY <1>1, <1>4 DEF Nodes
<1>6. Clients \subseteq Nodes
  BY KvReplicationAssumption DEF Nodes
<1>7. NoValue \in Int /\ NoValue \notin Nat /\ None \in Int \X Nat
  BY DEF NoValue, None
<1> QED
  BY <1>2, <1>3, <1>4, <1>5, <1>6, <1>7

\* The requests are numbered from 1.
LEMMA AskingIs ==
    ASSUME Typing
    PROVE  /\ Asking \subseteq Nat /\ IsFiniteSet(Asking)
           /\ Cardinality(Asking) \in Nat
           /\ Asking = 1 .. Cardinality(Asking)
           /\ Cardinality(Asking) + 1 \notin Asking
<1>1. PICK k \in Nat : Asking = 1 .. k
  BY DEF Typing
<1>2. IsFiniteSet(1 .. k) /\ Cardinality(1 .. k) = k
  BY FS_Interval
<1> QED
  BY <1>1, <1>2

\* What a new request must not miss: nothing, or what some request wrote.
FloorIs(q) ==
    \/ FloorOf(q) = None
    \/ \E j \in DOMAIN answered :
          events[j].type # "GET" /\ events[j].quorum + q > N /\ FloorOf(q) = Written(j)

LEMMA WrittenType ==
    ASSUME Typing
    PROVE  \A j \in DOMAIN answered : Written(j) \in Pairs
  BY DEF Typing, Written, Pairs, Events

LEMMA FloorOfIs ==
    ASSUME Typing, NEW q
    PROVE  FloorIs(q) /\ FloorOf(q) \in Pairs
<1> DEFINE J == {j \in DOMAIN answered : events[j].type # "GET" /\ events[j].quorum + q > N}
           W == {Written(j) : j \in J}
           S == {None} \cup W
<1>1. IsFiniteSet(J)
  BY AskingIs, FS_Subset DEF Typing
<1>2. IsFiniteSet(W)
  <2>1. PICK I, R : I = J /\ R = W
    OBVIOUS
  <2>2. PICK f : f = [j \in I |-> Written(j)]
    OBVIOUS
  <2>3. R = {Written(j) : j \in I}
    BY <2>1
  <2>4. f \in Surjection(I, R)
    <3> HIDE DEF J, W
    <3> QED
      BY <2>2, <2>3 DEF Surjection
  <2>5. IsFiniteSet(R)
    BY <1>1, <2>1, <2>4, FS_Surjection
  <2> QED
    BY <2>1, <2>5
<1>3. IsFiniteSet(S)
  <2> HIDE DEF W
  <2>1. IsFiniteSet({None})
    BY FS_Singleton
  <2> QED
    BY <1>2, <2>1, FS_Union
<1>4. S \subseteq Pairs
  BY WrittenType, NodesAre DEF Pairs
<1>5. FloorOf(q) = Latest(S)
  BY DEF FloorOf
<1>6. Latest(S) \in S
  <2> HIDE DEF S
  <2>1. S # {} /\ S \subseteq Int \X Int
    BY <1>4 DEF S, Pairs
  <2> QED
    BY <1>3, <2>1, LatestIs DEF IsLatest
<1> QED
  BY <1>4, <1>5, <1>6 DEF FloorIs

-----------------------------------------------------------------------------
(* Counting an answer *)

All(m) == WithAnswer(events[m.id].resp, m.src, ItemOf(m))
Best(m) == Latest(Range(All(m)))
Left(m) == Agreeing(All(m), Best(m))
Stale(m) == {n \in DOMAIN All(m) : Less(All(m)[n], Best(m))}
Repairs(m) == {Repair(m, n, Best(m)) : n \in Stale(m)}
Decides(m) == QuorumReached(Left(m), events[m.id].quorum) /\ ~events[m.id].sent

\* Each node counts with its answer; those that are left agree with the best one, the
\* others are repaired.
CountedBy(m, all, best, left) ==
    /\ m \in Replies /\ m.id \in Asking /\ ItemOf(m) \in Pairs
    /\ DOMAIN all = DOMAIN events[m.id].resp \cup {m.src} /\ DOMAIN all \subseteq Nodes
    /\ \A n \in DOMAIN all :
          /\ all[n] \in Pairs /\ ~Less(best, all[n])
          /\ \/ n = m.src /\ all[n] = ItemOf(m)
             \/ n \in DOMAIN events[m.id].resp /\ all[n] = events[m.id].resp[n]
          /\ n \in DOMAIN left \/ n \in Stale(m)
    /\ best \in Pairs /\ \E n \in DOMAIN all : all[n] = best
    /\ DOMAIN left \subseteq DOMAIN all
    /\ left \in [DOMAIN left -> Pairs]
    /\ \A n \in DOMAIN left : left[n] = best /\ left[n] = all[n]
Counted(m) == CountedBy(m, All(m), Best(m), Left(m))

LEMMA CountedIs ==
    ASSUME Typing, Addressed, NEW m \in net, m.type \in Responses, m.value # NoValue
    PROVE  Counted(m)
<1>1. m \in Replies /\ m.id \in Asking /\ ItemOf(m) \in Pairs /\ m.src \in Nodes
  BY MessageKinds DEF Addressed, Replies, ItemOf, Pairs
<1>2. PICK resp, S : resp = events[m.id].resp /\ S \in SUBSET Nodes /\ resp \in [S -> Pairs]
  BY <1>1 DEF Typing, Events
<1>3. PICK all : all = All(m)
  OBVIOUS
<1>4. /\ DOMAIN all = S \cup {m.src}
      /\ all \in [S \cup {m.src} -> Pairs]
      /\ \A n \in S \cup {m.src} : \/ n = m.src /\ all[n] = ItemOf(m)
                                   \/ n \in S /\ all[n] = resp[n]
  BY <1>1, <1>2, <1>3 DEF All, WithAnswer
<1>5. PICK D, R : D = S \cup {m.src} /\ R = Range(all)
  OBVIOUS
<1>6. /\ D = S \cup {m.src} /\ R = Range(all)
      /\ S \cup {m.src} \subseteq Nodes /\ IsFiniteSet(D)
  <2>1. D \in SUBSET Nodes
    BY <1>1, <1>2, <1>5
  <2> QED
    BY <1>1, <1>2, <1>5, <2>1, NodesAre, FS_Subset
<1>7. R \subseteq Int \X Int /\ R \subseteq Pairs /\ R # {} /\ IsFiniteSet(R)
  <2>1. all \in Surjection(D, R)
    BY <1>4, <1>6 DEF Range, Surjection
  <2>2. IsFiniteSet(R)
    BY <1>6, <2>1, FS_Surjection
  <2> QED
    BY <1>4, <1>6, <2>2 DEF Range, Pairs
<1>8. PICK best : best = Best(m) /\ best \in R /\ \A b \in R : ~Less(best, b)
  BY <1>3, <1>6, <1>7, LatestIs DEF IsLatest, Best
<1>9. /\ best \in Pairs
      /\ \E n \in D : all[n] = best
      /\ \A n \in D : all[n] \in Pairs /\ ~Less(best, all[n])
  BY <1>4, <1>6, <1>7, <1>8 DEF Range
<1>10. PICK left : left = Left(m)
  OBVIOUS
<1>11. /\ DOMAIN left = {n \in D : ~Less(all[n], best)}
       /\ left = [n \in DOMAIN left |-> all[n]]
  BY <1>3, <1>4, <1>6, <1>8, <1>10 DEF Left, Agreeing, Restrict
<1>12. \A n \in DOMAIN left : left[n] = best /\ left[n] = all[n]
  BY <1>9, <1>11, LessIs DEF Pairs
<1>13. left \in [DOMAIN left -> Pairs]
  BY <1>9, <1>11
<1>14. \A n \in D : n \in DOMAIN left \/ n \in Stale(m)
  BY <1>3, <1>4, <1>6, <1>8, <1>11 DEF Stale
<1>15. /\ DOMAIN all = DOMAIN events[m.id].resp \cup {m.src} /\ DOMAIN all \subseteq Nodes
       /\ DOMAIN left \subseteq DOMAIN all
  BY <1>2, <1>4, <1>6, <1>11
<1>16. \A n \in DOMAIN all :
          /\ all[n] \in Pairs /\ ~Less(best, all[n])
          /\ \/ n = m.src /\ all[n] = ItemOf(m)
             \/ n \in DOMAIN events[m.id].resp /\ all[n] = events[m.id].resp[n]
          /\ n \in DOMAIN left \/ n \in Stale(m)
  BY <1>2, <1>4, <1>6, <1>9, <1>14
<1>17. \E n \in DOMAIN all : all[n] = best
  BY <1>4, <1>6, <1>9
<1>18. CountedBy(m, all, best, left)
  BY <1>1, <1>9, <1>12, <1>13, <1>15, <1>16, <1>17 DEF CountedBy
<1> QED
  BY <1>3, <1>8, <1>10, <1>18 DEF Counted

\* What the request becomes and what is sent.
CountDone(m) ==
    /\ Asking' = Asking /\ data' = data /\ hints' = hints /\ floor' = floor /\ raised' = raised
    /\ UNCHANGED bounds
    /\ events' = [events EXCEPT ![m.id] =
                      [events[m.id] EXCEPT !.resp = Left(m), !.sent = @ \/ Decides(m)]]
    /\ net' = Sent(net \ {m}, Repairs(m))
    /\ answered' = IF Decides(m)
                   THEN [i \in DOMAIN answered \cup {m.id} |->
                            IF i = m.id THEN Best(m) ELSE answered[i]]
                   ELSE answered

LEMMA CountDoneIs ==
    ASSUME Typing, Addressed, NEW m \in net, m.id \in Asking, CountResponse(m)
    PROVE  CountDone(m)
<1>1. /\ events' = [events EXCEPT ![m.id].resp = Left(m), ![m.id].sent = @ \/ Decides(m)]
      /\ net' = Sent(net \ {m}, Repairs(m))
      /\ answered' = IF Decides(m)
                     THEN [i \in DOMAIN answered \cup {m.id} |->
                              IF i = m.id THEN Best(m) ELSE answered[i]]
                     ELSE answered
      /\ UNCHANGED <<data, hints, bounds, floor, raised>>
  BY DEF CountResponse, All, Best, Left, Stale, Repairs, Decides, ItemOf
<1>2. events \in [Asking -> Events]
  BY DEF Typing
<1>3. /\ Asking' = Asking
      /\ events' = [events EXCEPT ![m.id] =
                        [events[m.id] EXCEPT !.resp = Left(m), !.sent = @ \/ Decides(m)]]
  BY <1>1, <1>2 DEF Asking
<1> QED
  BY <1>1, <1>3 DEF CountDone

-----------------------------------------------------------------------------
(* A new request *)

\* What a node is sent of a request.
Asks(e, i, r) ==
    [type |-> e.type, src |-> e.node, dst |-> r, id |-> i, time |-> e.time, value |-> e.value]

LocalDone(n, type, value, q, i) ==
    /\ i \in Nat /\ i \notin Asking /\ Asking' = Asking \cup {i} /\ \E k \in Nat : Asking' = 1 .. k
    /\ events' \in [Asking' -> Events] /\ events'[i].type = type /\ events'[i].quorum = q
    /\ DOMAIN events'[i].resp = {} /\ events'[i].open /\ (type = "PUT" => events'[i].value \in Nat)
    /\ \A j \in Asking : events'[j] = events[j] /\ floor'[j] = floor[j]
    /\ floor'[i] = FloorOf(q) /\ floor' \in [Asking' -> Pairs]
    /\ net' = Sent(net, {Asks(events'[i], i, r) : r \in Replicas})
    /\ now' \in Nat
    /\ UNCHANGED <<data, hints, cut, cuts, early, answered, raised>>

LEMMA LocalDoneIs ==
    ASSUME Typing, NEW n \in Clients, NEW type \in Types, NEW value \in Values \cup {NoValue},
           NEW q \in Quorums, OnLocalMessage(n, type, value, q)
    PROVE  \E i : LocalDone(n, type, value, q, i)
<1>1. PICK i : i = Cardinality(DOMAIN events) + 1 /\ i = Cardinality(Asking) + 1
  BY DEF Asking
<1>2. /\ i \in Nat /\ i \notin Asking /\ Asking \cup {i} = 1 .. i
      /\ \A j \in 1 .. i : j \in Asking <=> j < i
  <2>1. PICK k \in Nat : k = Cardinality(Asking)
    BY AskingIs
  <2>2. Asking = 1 .. k
    BY <2>1, AskingIs
  <2>3. i = k + 1
    BY <1>1, <2>1
  <2>4. i \in Nat /\ i = k + 1 /\ \A x : x \in Asking <=> x \in Int /\ 1 <= x /\ x <= k
    <3>1. i \in Nat /\ i = k + 1
      BY <2>3
    <3>2. \A x : x \in 1 .. k <=> x \in Int /\ 1 <= x /\ x <= k
      BY <2>1
    <3> QED
      BY <2>2, <3>1, <3>2
  <2>5. i \notin Asking /\ \A j \in 1 .. i : j \in Asking <=> j < i
    BY <2>1, <2>4
  <2>6. \A x : x \in Asking \/ x = i <=> x \in 1 .. i
    BY <2>1, <2>4
  <2>7. Asking \cup {i} = 1 .. i
    BY <2>6
  <2> QED
    BY <2>4, <2>5, <2>7
<1>3. PICK t \in {now, now + 1} :
         /\ now' = t
         /\ events' = [j \in 1 .. i |->
                           IF j < i THEN events[j]
                           ELSE [node |-> n, type |-> type, time |-> t, value |-> value,
                                 quorum |-> q, sent |-> FALSE, resp |-> << >>,
                                 handoff |-> NextReplica(N - 1), open |-> TRUE]]
         /\ net' = Sent(net, {[type |-> type, src |-> n, dst |-> r, id |-> i,
                               time |-> t, value |-> value] : r \in Replicas})
  BY <1>1, ZenonT(60) DEF OnLocalMessage
<1>4. PICK e :
         e = [node |-> n, type |-> type, time |-> t, value |-> value,
              quorum |-> q, sent |-> FALSE, resp |-> << >>,
              handoff |-> NextReplica(N - 1), open |-> TRUE]
  OBVIOUS
<1>5. /\ now' = t
      /\ events' = [j \in 1 .. i |-> IF j < i THEN events[j] ELSE e]
      /\ net' = Sent(net, {[type |-> type, src |-> n, dst |-> r, id |-> i,
                            time |-> t, value |-> value] : r \in Replicas})
  BY <1>3, <1>4
<1>6. /\ floor' = [j \in 1 .. i |-> IF j < i THEN floor[j] ELSE FloorOf(q)]
      /\ value = NoValue <=> type # "PUT"
      /\ UNCHANGED <<data, hints, cut, cuts, early, answered, raised>>
  BY <1>1 DEF OnLocalMessage
<1>7. t \in Nat
  BY <1>5 DEF Typing
<1>8. e \in Events
  <2>1. << >> \in [{} -> Pairs] /\ {} \in SUBSET Nodes
    OBVIOUS
  <2>2. << >> \in UNION {[S -> Pairs] : S \in SUBSET Nodes}
    BY <2>1
  <2>3. /\ n \in Nodes /\ type \in Operations /\ value \in Nat \cup {NoValue} /\ q \in 1 .. N
        /\ NextReplica(N - 1) \in Nodes
    <3>1. 2 \in Nat /\ N - 1 = 2
      BY NodesAre
    <3>2. NextReplica(N - 1) \in Nodes
      BY <3>1, NodesAre
    <3> QED
      BY <3>2, NodesAre, KvReplicationAssumption DEF Operations
  <2> QED
    BY <1>4, <1>7, <2>2, <2>3 DEF Events
<1>9. Asking' = 1 .. i /\ events'[i] = e /\ \A j \in Asking : events'[j] = events[j]
  BY <1>2, <1>5 DEF Asking
<1>10. events' \in [Asking' -> Events]
  BY <1>2, <1>5, <1>8, <1>9 DEF Typing
<1>11. /\ floor'[i] = FloorOf(q) /\ floor' \in [Asking' -> Pairs]
      /\ \A j \in Asking : floor'[j] = floor[j]
  BY <1>2, <1>6, <1>9, FloorOfIs DEF Typing
<1>12. net' = Sent(net, {Asks(e, i, r) : r \in Replicas})
  BY <1>5, <1>4 DEF Asks
<1>13. e.type = type /\ e.quorum = q /\ e.resp = << >> /\ e.open /\ e.value = value
  BY <1>4
<1>14. type = "PUT" => value \in Nat
  BY <1>6, KvReplicationAssumption
<1>15. DOMAIN e.resp = {} /\ (type = "PUT" => e.value \in Nat)
  BY <1>13, <1>14
<1>16. LocalDone(n, type, value, q, i)
  BY <1>2, <1>5, <1>6, <1>7, <1>8, <1>9, <1>10, <1>11, <1>12, <1>13, <1>15 DEF LocalDone
<1> QED
  BY <1>16

-----------------------------------------------------------------------------
(* Types are kept *)

LEMMA InitSound == Init => Sound
<1> SUFFICES ASSUME Init PROVE Sound
  OBVIOUS
<1>1. /\ data = [n \in Nodes |-> None] /\ hints = [n \in Nodes |-> NoHint]
      /\ events = << >> /\ answered = << >> /\ floor = << >>
      /\ net = {} /\ now = 0 /\ early = 0
  BY DEF Init
<1>2. None \in Pairs /\ NoHint \in Hints
  BY NodesAre DEF Pairs, NoHint, Hints
<1>3. Asking = 1 .. 0 /\ Asking = {} /\ DOMAIN answered = {}
  BY <1>1 DEF Asking
<1>4. events \in [Asking -> Events] /\ floor \in [Asking -> Pairs] /\ answered \in [DOMAIN answered -> Pairs]
  BY <1>1, <1>3
<1>5. data \in [Nodes -> Pairs] /\ hints \in [Nodes -> Hints]
  BY <1>1, <1>2
<1>6. Typing
  BY <1>1, <1>3, <1>4, <1>5 DEF Typing
<1> QED
  BY <1>1, <1>6 DEF Sound, Addressed

LEMMA LocalSound ==
    ASSUME Sound, NEW n \in Clients, NEW type \in Types, NEW value \in Values \cup {NoValue},
           NEW q \in Quorums, NEW i, LocalDone(n, type, value, q, i)
    PROVE  Sound'
<1>1. /\ i \in Nat /\ i \notin Asking /\ Asking' = Asking \cup {i} /\ \E k \in Nat : Asking' = 1 .. k
      /\ events' \in [Asking' -> Events] /\ (events'[i].type = "PUT" => events'[i].value \in Nat)
      /\ \A j \in Asking : events'[j] = events[j] /\ floor'[j] = floor[j]
      /\ floor' \in [Asking' -> Pairs] /\ now' \in Nat
      /\ net' = Sent(net, {Asks(events'[i], i, r) : r \in Replicas})
      /\ UNCHANGED <<data, hints, cut, cuts, early, answered, raised>>
  BY DEF LocalDone
<1>2. PICK e : e = events'[i] /\ e \in Events /\ (e.type = "PUT" => e.value \in Nat)
  BY <1>1
<1>3. \A r \in Replicas : /\ Asks(e, i, r) \in Requests
                          /\ Asks(e, i, r).id = i
                          /\ Asks(e, i, r).type = e.type
                          /\ Asks(e, i, r).value = e.value
  BY <1>1, <1>2, NodesAre DEF Asks, Requests, Events
<1>4. \A m \in net' : m \in net \/ \E r \in Replicas : m = Asks(e, i, r)
  BY <1>1, <1>2, SentIs
<1>5. net' \subseteq Requests \cup Replies \cup Updates \cup Acks
  BY <1>3, <1>4 DEF Sound, Typing
<1>6. \A j \in Asking' : events'[j].type = "PUT" => events'[j].value \in Nat
  BY <1>1 DEF Sound, Typing
<1>7. Typing'
  BY <1>1, <1>5, <1>6 DEF Sound, Typing
<1>8. ASSUME NEW m \in net', m \in Requests \cup Replies
      PROVE  m.id \in Asking' /\ (m.type \in {"PUT", "GET_RESP", "PUT_RESP"} => m.value \in Nat)
  <2>1. CASE m \in net
    BY <1>1, <1>8, <2>1 DEF Sound, Addressed
  <2>2. CASE \E r \in Replicas : m = Asks(e, i, r)
    BY <1>1, <1>2, <1>3, <2>2 DEF Events, Operations
  <2> QED
    BY <1>4, <2>1, <2>2
<1> QED
  BY <1>7, <1>8 DEF Sound, Addressed

\* What the receiver of a request has afterwards and what it answers.
AnswerTo(m, a) ==
    [type |-> ResponseTo(m.type), src |-> m.dst, dst |-> m.src, id |-> m.id,
     time |-> a[1], value |-> a[2]]
Performed(m, a) ==
    /\ a = Answer(m.dst, m) /\ Effect(m.dst, m) \in Pairs
    /\ a[1] \in Int /\ a[2] \in Nat \cup {NoValue} /\ (m.type # "DELETE" => a \in Pairs)
    /\ AnswerTo(m, a) \in Replies
    /\ net' = Sent(net \ {m}, {AnswerTo(m, a)})
    /\ UNCHANGED <<events, bounds, answered, floor, raised>>
    /\ data' \in [Nodes -> Pairs] /\ hints' \in [Nodes -> Hints]
    /\ \A n \in Nodes :
          /\ data'[n] = IF n = m.dst /\ n \in Replicas THEN Effect(n, m) ELSE data[n]
          /\ hints'[n].item = IF n = m.dst /\ n \notin Replicas THEN Effect(n, m) ELSE hints[n].item
          /\ hints[n].open => hints'[n].open /\ hints'[n].update = hints[n].update

LEMMA PerformedIs ==
    ASSUME Sound, NEW m \in net, OnOperation(m)
    PROVE  m \in Requests /\ \E a : Performed(m, a)
<1>1. m \in Requests /\ m.type \in Operations
  BY MessageKinds DEF Sound, OnOperation, Operations
<1>2. PICK a : a = Answer(m.dst, m)
  OBVIOUS
<1>3. /\ Store(m.dst, Effect(m.dst, m))
      /\ net' = Sent(net \ {m}, {AnswerTo(m, a)})
      /\ UNCHANGED <<events, bounds, answered, floor, raised>>
  BY <1>2 DEF OnOperation, AnswerTo
<1>4. data \in [Nodes -> Pairs] /\ hints \in [Nodes -> Hints]
  BY DEF Sound, Typing
<1>5. PICK n, s : n = m.dst /\ n \in Nodes /\ s = Stored(n) /\ s \in Pairs
  BY <1>1, <1>4 DEF Requests, Stored, Hints
<1>6. m.time \in Int /\ m.value \in Nat \cup {NoValue} /\ (m.type = "PUT" => m.value \in Nat)
  BY <1>1 DEF Requests, Sound, Addressed
<1>7. s[1] \in Int /\ s[2] \in Nat
  BY <1>5 DEF Pairs
<1>8. PICK e : e = Effect(n, m) /\ e \in Pairs
  <2>1. CASE m.type = "GET"
    BY <1>5, <2>1 DEF Effect
  <2>2. CASE m.type = "PUT"
    BY <1>5, <1>6, <2>2 DEF Effect, Newer, Pairs
  <2>3. CASE m.type = "DELETE"
    <3>1. Effect(n, m) = IF s[1] < m.time THEN <<m.time, 0>> ELSE s
      BY <1>5, <2>3 DEF Effect
    <3>2. <<m.time, 0>> \in Pairs
      BY <1>6 DEF Pairs
    <3> QED
      BY <1>5, <3>1, <3>2
  <2> QED
    BY <1>1, <2>1, <2>2, <2>3 DEF Operations
<1>9. a[1] \in Int /\ a[2] \in Nat \cup {NoValue} /\ (m.type # "DELETE" => a \in Pairs)
  <2>1. CASE m.type = "GET"
    BY <1>2, <1>5, <1>7, <2>1 DEF Answer
  <2>2. CASE m.type = "PUT"
    BY <1>2, <1>5, <1>8, <2>2 DEF Answer, Pairs
  <2>3. CASE m.type = "DELETE"
    BY <1>2, <1>5, <1>6, <1>7, <2>3 DEF Answer
  <2> QED
    BY <1>1, <2>1, <2>2, <2>3 DEF Operations
<1>10. AnswerTo(m, a) \in Replies
  BY <1>1, <1>9 DEF AnswerTo, Replies, Requests, ResponseTo, Responses, Operations
<1>11. /\ data' \in [Nodes -> Pairs] /\ hints' \in [Nodes -> Hints]
       /\ \A k \in Nodes :
             /\ data'[k] = IF k = n /\ k \in Replicas THEN e ELSE data[k]
             /\ hints'[k].item = IF k = n /\ k \notin Replicas THEN e ELSE hints[k].item
             /\ hints[k].open => hints'[k].open /\ hints'[k].update = hints[k].update
  <2>1. CASE n \in Replicas
    <3>1. data' = [data EXCEPT ![n] = e] /\ hints' = hints
      BY <1>3, <1>5, <1>8, <2>1 DEF Store
    <3> QED
      BY <1>4, <1>5, <1>8, <2>1, <3>1
  <2>2. CASE n \notin Replicas
    <3>1. PICK h : h = [(IF hints[n].open THEN hints[n] ELSE FreshHint) EXCEPT !.item = e]
      OBVIOUS
    <3>2. data' = data /\ hints' = [hints EXCEPT ![n] = h]
      BY <1>3, <1>5, <1>8, <2>2, <3>1 DEF Store
    <3>3. /\ h \in Hints /\ h.item = e
          /\ hints[n].open => h.open /\ h.update = hints[n].update
      BY <1>4, <1>5, <1>8, <3>1 DEF Hints, FreshHint
    <3> QED
      BY <1>4, <1>5, <2>2, <3>2, <3>3
  <2> QED
    BY <2>1, <2>2
<1>12. Performed(m, a)
  BY <1>2, <1>3, <1>5, <1>8, <1>9, <1>10, <1>11 DEF Performed
<1> QED
  BY <1>1, <1>12

LEMMA PerformedSound ==
    ASSUME Sound, NEW m \in net, m \in Requests, NEW a, Performed(m, a)
    PROVE  Sound'
<1>1. PICK r : r = AnswerTo(m, a) /\ r \in Replies
  BY DEF Performed
<1>2. r.id = m.id /\ m.id \in Asking /\ (r.type \in {"GET_RESP", "PUT_RESP"} => r.value \in Nat)
       /\ r.type # "PUT"
  BY <1>1 DEF Performed, AnswerTo, Sound, Addressed, ResponseTo, Requests, Operations, Pairs
<1>3. net' \subseteq net \cup {r}
  BY <1>1, SentIs DEF Performed
<1>4. UNCHANGED <<events, answered, floor, now, early>>
  BY DEF Performed, bounds
<1>5. data' \in [Nodes -> Pairs] /\ hints' \in [Nodes -> Hints]
  BY DEF Performed
<1>6. Typing'
  BY <1>1, <1>3, <1>4, <1>5 DEF Sound, Typing, Asking
<1>7. Addressed'
  BY <1>2, <1>3, <1>4 DEF Sound, Addressed, Asking
<1> QED
  BY <1>6, <1>7 DEF Sound

\* A repair is a request to a node that has answered something older.
Repairing(m, r) ==
    /\ r \in Requests /\ r.id = m.id /\ r.dst \in Stale(m)
    /\ r.type \in {"PUT", "DELETE"} /\ (r.type = "DELETE" <=> m.type = "DELETE_RESP")
    /\ r.type = "PUT" => ItemOf(r) = Best(m) /\ r.value \in Nat
    /\ r.type = "DELETE" => r.time = m.time

LEMMA RepairingIs ==
    ASSUME NEW m, Counted(m)
    PROVE  /\ \A r \in Repairs(m) : Repairing(m, r)
           /\ \A n \in Stale(m) : \E r \in Repairs(m) : r.dst = n
<1>1. PICK b : b = Best(m) /\ b \in Pairs /\ b[1] \in Int /\ b[2] \in Nat /\ b = <<b[1], b[2]>>
  BY DEF Counted, CountedBy, Pairs
<1>2. /\ m.src \in Nodes /\ m.dst \in Nodes /\ m.id \in Nat /\ m.time \in Int
      /\ m.value \in Nat \cup {NoValue} /\ m.type \in Responses
  BY DEF Counted, CountedBy, Replies
<1>3. \A n \in Stale(m) : n \in Nodes
  BY DEF Counted, CountedBy, Stale
<1>4. ASSUME NEW n \in Stale(m), NEW r, r = Repair(m, n, b)
      PROVE  Repairing(m, r) /\ r.dst = n
  <2>1. CASE m.type = "DELETE_RESP"
    BY <1>1, <1>2, <1>3, <1>4, <2>1 DEF Repair, Requests, Operations, Repairing
  <2>2. CASE m.type # "DELETE_RESP"
    <3>1. r = [type |-> "PUT", src |-> m.dst, dst |-> n, id |-> m.id, time |-> b[1], value |-> b[2]]
      BY <1>4, <2>2 DEF Repair
    <3>2. r \in Requests
      BY <1>1, <1>2, <1>3, <3>1 DEF Requests, Operations
    <3>3. ItemOf(r) = b
      BY <1>1, <3>1 DEF ItemOf
    <3> QED
      BY <1>1, <2>2, <3>1, <3>2, <3>3 DEF Repairing
  <2> QED
    BY <2>1, <2>2
<1> QED
  BY <1>1, <1>4 DEF Repairs

LEMMA CountSound ==
    ASSUME Sound, NEW m \in net, Counted(m), CountDone(m)
    PROVE  Sound'
<1>1. m.id \in Asking /\ Best(m) \in Pairs
  BY DEF Counted, CountedBy
<1>2. \A r \in net' : r \in net \/ Repairing(m, r)
  BY SentIs, RepairingIs DEF CountDone
<1>3. net' \subseteq Requests \cup Replies \cup Updates \cup Acks
  BY <1>2 DEF Sound, Typing, Repairing
<1>4. /\ events' \in [Asking' -> Events]
      /\ \A i \in Asking : events'[i].type = events[i].type /\ events'[i].value = events[i].value
  <2>1. PICK e : e = [events[m.id] EXCEPT !.resp = Left(m), !.sent = @ \/ Decides(m)]
    OBVIOUS
  <2>2. events \in [Asking -> Events]
    BY DEF Sound, Typing
  <2>3. PICK left, S : /\ left = Left(m) /\ S = DOMAIN left /\ S \in SUBSET Nodes
                       /\ left \in [S -> Pairs]
    BY DEF Counted, CountedBy
  <2>4. left \in UNION {[T -> Pairs] : T \in SUBSET Nodes}
    BY <2>3
  <2>5. PICK d : d = events[m.id] /\ d \in Events
    BY <1>1, <2>2
  <2>6. PICK s : s = Decides(m)
    OBVIOUS
  <2>7. e = [d EXCEPT !.resp = left, !.sent = @ \/ s]
    BY <2>1, <2>3, <2>5, <2>6
  <2>8. e \in Events /\ e.type = events[m.id].type /\ e.value = events[m.id].value
    BY <2>4, <2>5, <2>7 DEF Events
  <2> QED
    BY <1>1, <2>1, <2>2, <2>8 DEF CountDone
<1>5. DOMAIN answered' \subseteq Asking' /\ answered' \in [DOMAIN answered' -> Pairs]
  <2>1. DOMAIN answered \subseteq Asking /\ answered \in [DOMAIN answered -> Pairs]
    BY DEF Sound, Typing
  <2>2. CASE Decides(m)
    <3>1. /\ DOMAIN answered' = DOMAIN answered \cup {m.id}
          /\ answered' = [i \in DOMAIN answered \cup {m.id} |->
                            IF i = m.id THEN Best(m) ELSE answered[i]]
          /\ Asking' = Asking
      BY <2>2 DEF CountDone
    <3> QED
      BY <1>1, <2>1, <3>1
  <2>3. CASE ~Decides(m)
    BY <2>1, <2>3 DEF CountDone
  <2> QED
    BY <2>2, <2>3
<1>6. Typing'
  BY <1>3, <1>4, <1>5 DEF Sound, Typing, CountDone, bounds
<1>7. Addressed'
  BY <1>1, <1>2 DEF Sound, Addressed, Repairing, CountDone, Requests, Replies, Operations, Responses
<1> QED
  BY <1>6, <1>7 DEF Sound

LEMMA RaiseSound ==
    ASSUME Sound, NEW m \in net, NEW line, Raise(line, m)
    PROVE  Sound'
<1>1. net' \subseteq net /\ UNCHANGED <<data, events, hints, now, early, answered, floor>>
  BY DEF Raise, bounds
<1>2. Typing'
  BY <1>1 DEF Sound, Typing, Asking
<1> QED
  BY <1>1, <1>2 DEF Sound, Addressed, Asking

\* A timer of a request that is not dropped asks one more node.
AsksMore(i) ==
    /\ ~Complete(events[i])
    /\ events' = [events EXCEPT ![i].handoff = NextReplica(@)]
    /\ net' = Sent(net, {Asks(events[i], i, events[i].handoff)})
Drops(i) ==
    /\ Complete(events[i])
    /\ events' = [events EXCEPT ![i].open = FALSE]
    /\ net' = net

LEMMA EventTimerIs ==
    ASSUME Sound, NEW i \in Asking, OnEventTimer(i)
    PROVE  /\ AsksMore(i) \/ Drops(i)
           /\ events[i].open /\ Timeout
           /\ UNCHANGED <<data, hints, cut, now, cuts, answered, floor, raised>>
           /\ early' \in Nat
           /\ Asks(events[i], i, events[i].handoff) \in Requests
           /\ Asking' = Asking /\ events' \in [Asking' -> Events]
           /\ \A j \in Asking : /\ events'[j].type = events[j].type
                                /\ events'[j].value = events[j].value
                                /\ events'[j].node = events[j].node
                                /\ events'[j].time = events[j].time
                                /\ events'[j].quorum = events[j].quorum
                                /\ events'[j].resp = events[j].resp
                                /\ events'[j].open = (events[j].open /\ ~(j = i /\ Drops(i)))
<1>1. AsksMore(i) \/ Drops(i)
  BY DEF OnEventTimer, AsksMore, Drops, Asks
<1>2. /\ events[i].open /\ Timeout
      /\ UNCHANGED <<data, hints, cut, now, cuts, answered, floor, raised>>
  BY DEF OnEventTimer
<1>3. early' \in Nat
  BY <1>2 DEF Timeout, Sound, Typing
<1>4. events \in [Asking -> Events] /\ Asking \subseteq Nat
  BY AskingIs DEF Sound, Typing
<1>5. Asks(events[i], i, events[i].handoff) \in Requests
  BY <1>4 DEF Asks, Events, Requests
<1>6. CASE AsksMore(i)
  <2>1. PICK e : e = [events[i] EXCEPT !.handoff = NextReplica(events[i].handoff)]
    OBVIOUS
  <2>2. e \in Events
    BY <1>4, <2>1, NodesAre DEF Events
  <2>3. events' = [events EXCEPT ![i] = e]
    BY <1>6, <2>1 DEF AsksMore
  <2>4. ~Drops(i)
    BY <1>6 DEF AsksMore, Drops
  <2> QED
    BY <1>1, <1>2, <1>3, <1>4, <1>5, <2>1, <2>2, <2>3, <2>4 DEF Asking, Events
<1>7. CASE Drops(i)
  <2>1. PICK e : e = [events[i] EXCEPT !.open = FALSE]
    OBVIOUS
  <2>2. e \in Events
    BY <1>4, <2>1 DEF Events
  <2>3. events' = [events EXCEPT ![i] = e]
    BY <1>7, <2>1 DEF Drops
  <2> QED
    BY <1>1, <1>2, <1>3, <1>4, <1>5, <1>7, <2>1, <2>2, <2>3 DEF Asking, Events
<1> QED
  BY <1>1, <1>6, <1>7

LEMMA EventTimerSound ==
    ASSUME Sound, NEW i \in Asking, OnEventTimer(i)
    PROVE  Sound'
<1>1. /\ UNCHANGED <<data, hints, now, answered, floor>> /\ early' \in Nat
      /\ Asking' = Asking /\ events' \in [Asking' -> Events]
      /\ \A j \in Asking : events'[j].type = events[j].type /\ events'[j].value = events[j].value
  BY EventTimerIs
<1>2. PICK r : r = Asks(events[i], i, events[i].handoff) /\ r \in Requests
  BY EventTimerIs
<1>3. r.id = i /\ r.type = events[i].type /\ r.value = events[i].value
  BY <1>2 DEF Asks
<1>4. net' \subseteq net \cup {r}
  <2>1. net' = net \/ net' = Sent(net, {r})
    BY <1>2, EventTimerIs DEF AsksMore, Drops
  <2> QED
    BY <2>1, SentIs
<1>5. Typing'
  BY <1>1, <1>2, <1>4 DEF Sound, Typing
<1>6. Addressed'
  BY <1>1, <1>2, <1>3, <1>4 DEF Sound, Typing, Addressed, Requests, Operations
<1> QED
  BY <1>5, <1>6 DEF Sound

LEMMA HintTimerSound ==
    ASSUME Sound, NEW n \in Nodes, OnHintTimer(n)
    PROVE  Sound'
<1>1. UNCHANGED <<data, events, now, answered, floor>> /\ early' \in Nat
  BY DEF OnHintTimer, Timeout, Sound, Typing
<1>2. hints \in [Nodes -> Hints] /\ NoHint \in Hints
  BY NodesAre DEF Sound, Typing, NoHint, Hints, Pairs
<1>3. hints' \in [Nodes -> Hints]
  BY <1>2 DEF OnHintTimer
<1>4. net' \subseteq net \cup Updates
  <2>1. PICK msgs : msgs = {[type |-> "UPDATE", src |-> n, dst |-> r,
                             item |-> hints[n].item] : r \in Informed(n)}
    OBVIOUS
  <2>2. msgs \subseteq Updates
    BY <1>2, <2>1 DEF Informed, Hints, Updates
  <2>3. net' = net \/ net' = Sent(net, msgs)
    BY <2>1 DEF OnHintTimer
  <2> QED
    BY <2>2, <2>3, SentIs
<1>5. Typing'
  BY <1>1, <1>3, <1>4 DEF Sound, Typing, Asking
<1>6. Addressed'
  <2>1. \A m \in Updates : m \notin Requests /\ m \notin Replies
    BY DEF Updates, Requests, Replies, Responses, Operations
  <2> QED
    BY <1>1, <1>4, <2>1 DEF Sound, Addressed, Asking
<1> QED
  BY <1>5, <1>6 DEF Sound

LEMMA UpdateSound ==
    ASSUME Sound, NEW m \in net, OnUpdate(m)
    PROVE  Sound'
<1>1. UNCHANGED <<events, hints, now, early, answered, floor>>
  BY DEF OnUpdate, bounds
<1>2. m \in Updates
  BY MessageKinds DEF Sound, OnUpdate
<1>3. PICK a : a = [type |-> "ACK", src |-> m.dst, dst |-> m.src] /\ a \in Acks
  <2>1. m.dst \in Replicas /\ m.src \in Nodes
    BY <1>2 DEF Updates
  <2>2. [type |-> "ACK", src |-> m.dst, dst |-> m.src] \in Acks
    BY <2>1 DEF Acks
  <2> QED
    BY <2>2
<1>4. net' \subseteq net \cup {a}
  <2>1. net' = Sent(net \ {m}, {a})
    BY <1>3 DEF OnUpdate
  <2> QED
    BY <2>1, SentIs
<1>5. m.dst \in Nodes /\ m.item \in Pairs
  <2>1. m.dst \in Replicas /\ m.item \in Pairs
    BY <1>2 DEF Updates
  <2> QED
    BY <2>1, NodesAre
<1>6. data' \in [Nodes -> Pairs]
  BY <1>5 DEF OnUpdate, Newer, Sound, Typing
<1>7. Typing'
  BY <1>1, <1>3, <1>4, <1>6 DEF Sound, Typing, Asking
<1>8. Addressed'
  <2>1. a \notin Requests /\ a \notin Replies
    BY <1>3 DEF Requests, Replies, Responses, Operations
  <2> QED
    BY <1>1, <1>4, <2>1 DEF Sound, Addressed, Asking
<1> QED
  BY <1>7, <1>8 DEF Sound

LEMMA AckSound ==
    ASSUME Sound, NEW m \in net, OnAck(m)
    PROVE  Sound'
<1>1. CASE m.src \in hints[m.dst].update
  <2>1. /\ hints' = [hints EXCEPT ![m.dst].update = hints[m.dst].update \ {m.src}]
        /\ net' \subseteq net
        /\ UNCHANGED <<data, events, now, early, answered, floor>>
    BY <1>1 DEF OnAck, bounds, Acknowledged
  <2>2. hints' \in [Nodes -> Hints]
    BY <2>1 DEF Sound, Typing, Hints
  <2>3. Typing'
    BY <2>1, <2>2 DEF Sound, Typing, Asking
  <2> QED
    BY <2>1, <2>3 DEF Sound, Addressed, Asking
<1>2. CASE m.src \notin hints[m.dst].update
  BY <1>2, RaiseSound DEF OnAck
<1> QED
  BY <1>1, <1>2

\* An answer is refused or counted.
LEMMA ResponseIs ==
    ASSUME Sound, NEW m \in net, OnResponse(m)
    PROVE  /\ m \in Replies /\ m.id \in Asking
           /\ \/ Raise(52, m) /\ ~events[m.id].open
              \/ Raise(53, m) /\ m.type = "DELETE_RESP"
              \/ Counted(m) /\ CountDone(m) /\ events[m.id].open
<1>1. m \in Replies /\ m.type \in Responses /\ m.id \in Asking
  BY MessageKinds DEF Sound, OnResponse, Addressed
<1>2. CASE Raise(52, m) /\ ~events[m.id].open
  BY <1>1, <1>2
<1>3. CASE Raise(53, m) /\ m.value = NoValue
  <2>1. m.type = "DELETE_RESP"
    BY <1>1, <1>3, NodesAre DEF Sound, Addressed, Responses
  <2> QED
    BY <1>1, <1>3, <2>1
<1>4. CASE m.value # NoValue /\ CountResponse(m) /\ events[m.id].open
  BY <1>1, <1>4, CountedIs, CountDoneIs DEF Sound
<1> QED
  BY <1>2, <1>3, <1>4 DEF OnResponse

LEMMA StepSound ==
    ASSUME Sound, [Next]_vars
    PROVE  Sound'
<1>1. ASSUME NEW n \in Clients, NEW type \in Types, NEW value \in Values \cup {NoValue},
             NEW q \in Quorums, OnLocalMessage(n, type, value, q)
      PROVE  Sound'
  BY <1>1, LocalDoneIs, LocalSound DEF Sound
<1>2. ASSUME NEW m \in net, OnOperation(m)
      PROVE  Sound'
  BY <1>2, PerformedIs, PerformedSound
<1>3. ASSUME NEW m \in net, OnResponse(m)
      PROVE  Sound'
  BY <1>3, ResponseIs, RaiseSound, CountSound
<1>4. ASSUME NEW m \in net, OnUpdate(m) \/ OnAck(m)
      PROVE  Sound'
  BY <1>4, UpdateSound, AckSound
<1>5. ASSUME NEW i \in Asking, OnEventTimer(i)
      PROVE  Sound'
  BY <1>5, EventTimerSound
<1>6. ASSUME NEW n \in Nodes, OnHintTimer(n)
      PROVE  Sound'
  BY <1>6, HintTimerSound
<1>7. CASE \/ \E n \in Nodes : Disconnect(n) \/ Connect(n)
           \/ UNCHANGED vars
  <2>1. UNCHANGED <<data, events, hints, net, now, early, answered, floor>>
    BY <1>7 DEF Disconnect, Connect, vars
  <2> QED
    BY <2>1 DEF Sound, Typing, Addressed, Asking
<1> QED
  BY <1>1, <1>2, <1>3, <1>4, <1>5, <1>6, <1>7 DEF Next, Asking

\* In every behaviour the variables keep their types, and every message belongs to a
\* request that was made.
THEOREM TypeCorrect == Spec => []Sound
  BY InitSound, StepSound, PTL DEF Spec

-----------------------------------------------------------------------------
(* Requests and their answers *)

\* A request is marked as answered exactly when it was, it is when a quorum agrees,
\* and those that are dropped are.
Settled(e) == (QuorumReached(e.resp, e.quorum) \/ ~e.open) => e.sent
Marked == \A i \in Asking : Settled(events[i]) /\ (events[i].sent <=> i \in DOMAIN answered)

Final == \A i \in DOMAIN answered : i \in DOMAIN answered' /\ answered'[i] = answered[i]

LEMMA FewReached ==
    ASSUME NEW resp, DOMAIN resp = {}, NEW q \in 1 .. N
    PROVE  ~QuorumReached(resp, q)
<1>1. Cardinality(DOMAIN resp) = 0
  BY FS_EmptySet
<1> QED
  BY <1>1 DEF QuorumReached

LEMMA LocalMarked ==
    ASSUME Sound, Marked, NEW n \in Clients, NEW type \in Types, NEW value \in Values \cup {NoValue},
           NEW q \in Quorums, OnLocalMessage(n, type, value, q)
    PROVE  Marked' /\ Final
<1>1. PICK i : LocalDone(n, type, value, q, i)
  BY LocalDoneIs DEF Sound
<1>2. Final
  BY <1>1 DEF LocalDone, Final
<1>3. \A j \in Asking : Settled(events'[j]) /\ (events'[j].sent <=> j \in DOMAIN answered')
  BY <1>1 DEF LocalDone, Marked
<1>4. ~events'[i].sent
  <2>1. PICK k : k = Cardinality(DOMAIN events) + 1
    OBVIOUS
  <2>2. Asking' = 1 .. k /\ \A j \in 1 .. k : j < k \/ ~events'[j].sent
    BY <2>1 DEF OnLocalMessage, Asking
  <2>3. k = i
    <3>1. PICK c \in Nat : Asking = 1 .. c /\ c = Cardinality(Asking)
      BY AskingIs DEF Sound
    <3> QED
      BY <1>1, <2>1, <2>2, <3>1 DEF LocalDone, Asking
  <2> QED
    BY <1>1, <2>2, <2>3 DEF LocalDone
<1>5. Settled(events'[i])
  BY <1>1, FewReached, KvReplicationAssumption DEF LocalDone, Settled, N
<1>6. i \notin DOMAIN answered'
  BY <1>1 DEF LocalDone, Sound, Typing
<1> QED
  BY <1>1, <1>2, <1>3, <1>4, <1>5, <1>6 DEF Marked, LocalDone

LEMMA CountMarked ==
    ASSUME Sound, Marked, NEW m \in net, m.id \in Asking, CountDone(m), events[m.id].open
    PROVE  Marked' /\ Final
<1>1. PICK e \in Events : e = events[m.id]
  BY DEF Sound, Typing
<1>2. PICK f : f = [e EXCEPT !.resp = Left(m), !.sent = e.sent \/ Decides(m)]
  OBVIOUS
<1>3. f.resp = Left(m) /\ f.quorum = e.quorum /\ f.open /\ (f.sent <=> e.sent \/ Decides(m))
  BY <1>1, <1>2 DEF Events
<1>4. Asking' = Asking /\ \A i \in Asking : events'[i] = IF i = m.id THEN f ELSE events[i]
  BY <1>1, <1>2 DEF CountDone, Sound, Typing
<1>5. Decides(m) <=> QuorumReached(f.resp, f.quorum) /\ ~e.sent
  BY <1>1, <1>3 DEF Decides
<1>6. DOMAIN answered' = IF Decides(m) THEN DOMAIN answered \cup {m.id} ELSE DOMAIN answered
  BY DEF CountDone
<1>7. Final
  BY <1>1, <1>5, <1>6 DEF CountDone, Final, Marked
<1>8. Settled(f)
  BY <1>3, <1>5 DEF Settled
<1>9. f.sent <=> m.id \in DOMAIN answered'
  BY <1>1, <1>3, <1>6 DEF Marked
<1> QED
  BY <1>4, <1>6, <1>7, <1>8, <1>9 DEF Marked

LEMMA EventTimerMarked ==
    ASSUME Sound, Marked, NEW i \in Asking, OnEventTimer(i)
    PROVE  Marked' /\ Final
<1>1. UNCHANGED answered /\ Asking' = Asking
  BY EventTimerIs
<1>2. PICK e \in Events : e = events[i]
  BY DEF Sound, Typing
<1>3. PICK f : events' = [events EXCEPT ![i] = f] /\ f.resp = e.resp /\ f.quorum = e.quorum
               /\ f.sent = e.sent /\ (f.open <=> e.open /\ ~Complete(e)) /\ e.open
  <2>1. CASE Complete(e)
    <3>1. PICK f : f = [e EXCEPT !.open = FALSE]
      OBVIOUS
    <3> QED
      BY <1>2, <2>1, <3>1 DEF OnEventTimer, Events
  <2>2. CASE ~Complete(e)
    <3>1. PICK f : f = [e EXCEPT !.handoff = NextReplica(e.handoff)]
      OBVIOUS
    <3> QED
      BY <1>2, <2>2, <3>1 DEF OnEventTimer, Events
  <2> QED
    BY <2>1, <2>2
<1>4. Complete(e) => QuorumReached(e.resp, e.quorum)
  BY <1>2 DEF Complete, QuorumReached, Events, N
<1>5. Settled(f)
  BY <1>2, <1>3, <1>4 DEF Marked, Settled
<1> QED
  BY <1>1, <1>2, <1>3, <1>5 DEF Marked, Final, Sound, Typing

LEMMA StepMarked ==
    ASSUME Sound, Marked, [Next]_vars
    PROVE  Marked' /\ Final
<1>1. ASSUME UNCHANGED <<events, answered>>
      PROVE  Marked' /\ Final
  BY <1>1 DEF Marked, Final, Asking
<1>2. ASSUME NEW m \in net, OnResponse(m)
      PROVE  Marked' /\ Final
  BY <1>1, <1>2, ResponseIs, CountMarked DEF Raise
<1>3. ASSUME NEW m \in net, OnOperation(m) \/ OnUpdate(m) \/ OnAck(m)
      PROVE  Marked' /\ Final
  BY <1>1, <1>3 DEF OnOperation, OnUpdate, OnAck, Raise
<1>4. ASSUME NEW n \in Nodes, OnHintTimer(n) \/ Disconnect(n) \/ Connect(n)
      PROVE  Marked' /\ Final
  BY <1>1, <1>4 DEF OnHintTimer, Disconnect, Connect
<1> QED
  BY <1>1, <1>2, <1>3, <1>4, LocalMarked, EventTimerMarked DEF Next, Asking, vars

LEMMA MarkedAlways == Spec => [](Sound /\ Marked)
<1>1. Init => Marked
  BY DEF Init, Marked, Asking
<1> QED
  BY <1>1, InitSound, StepSound, StepMarked, PTL DEF Spec

\* Whatever is cut off, lost or late, a coordinator drops a request only after it has
\* answered it, though what it repairs it counts no more: with a timer that goes on as
\* long as the request is open, this is what of "answered in the end" is safety.
THEOREM DroppedOnlyAnswered ==
    Spec => [](\A i \in DOMAIN events : ~events[i].open => i \in DOMAIN answered)
<1>1. Marked => \A i \in DOMAIN events : ~events[i].open => i \in DOMAIN answered
  BY DEF Marked, Settled, Asking
<1> QED
  BY <1>1, MarkedAlways, PTL

\* And it answers once: no late answer of a node, no repair and no timer makes it send
\* the user another one.
THEOREM AnsweredOnce == Spec => [][Final]_answered
<1>1. Sound /\ Marked /\ [Next]_vars => [Final]_answered
  BY StepMarked
<1> QED
  BY <1>1, MarkedAlways, PTL DEF Spec

-----------------------------------------------------------------------------
(* Exceptions *)

Talks(n, r) == {m \in net : \/ m \in Updates /\ m.src = n /\ m.dst = r
                            \/ m \in Acks /\ m.src = r /\ m.dst = n}

\* Answers belong to open requests, and of a hint at most one message is under way for
\* each replica that has not acknowledged it.
Opened == \A m \in net \cap (Requests \cup Replies) : events[m.id].open
Spoken ==
    \A n \in Nodes, r \in Replicas : Talks(n, r) # {} =>
        /\ hints[n].open /\ r \in hints[n].update
        /\ \A a, b \in Talks(n, r) : a = b
Orderly == early = 0 => raised = {} /\ Opened /\ Spoken

\* No value is missing where nothing is deleted.
NoDeletion ==
    /\ \A i \in Asking : events[i].type # "DELETE"
    /\ \A m \in net : m.type \notin {"DELETE", "DELETE_RESP"}

Careful == Sound /\ NoDeletion /\ Orderly

\* Nothing is said between a node and a replica by other messages.
LEMMA TalksIs ==
    ASSUME Sound, NEW n \in Nodes, NEW r \in Replicas, NEW m \in Talks(n, r)
    PROVE  /\ m \in net /\ m \in Updates \cup Acks /\ m \notin Requests /\ m \notin Replies
           /\ m \in Updates => m.src = n /\ m.dst = r
           /\ m \in Acks => m.src = r /\ m.dst = n
<1>1. /\ m \in net
      /\ \/ m \in Updates /\ m.src = n /\ m.dst = r
         \/ m \in Acks /\ m.src = r /\ m.dst = n
  BY DEF Talks
<1>2. m.type \in {"UPDATE", "ACK"} /\ (m \in Updates => m.type = "UPDATE") /\ (m \in Acks => m.type = "ACK")
  BY <1>1 DEF Updates, Acks
<1>3. m \notin Requests /\ m \notin Replies
  BY <1>2 DEF Requests, Replies, Operations, Responses
<1> QED
  BY <1>1, <1>2, <1>3

\* Messages of requests neither open nor close a hint, and leave what is said of them.
LEMMA SpokenKept ==
    ASSUME Sound, Spoken, Sound',
           \A m \in net' : m \in net \/ m \in Requests \/ m \in Replies,
           \A n \in Nodes : hints[n].open => hints'[n].open /\ hints'[n].update = hints[n].update
    PROVE  Spoken'
<1> SUFFICES ASSUME NEW n \in Nodes, NEW r \in Replicas, NEW c \in Talks(n, r)'
             PROVE  /\ hints'[n].open /\ r \in hints'[n].update
                    /\ \A a, b \in Talks(n, r)' : a = b
  BY DEF Spoken
<1>1. ASSUME NEW m \in Talks(n, r)'
      PROVE  m \in Talks(n, r)
  <2>1. /\ m \in net'
        /\ \/ m \in Updates /\ m.src = n /\ m.dst = r
           \/ m \in Acks /\ m.src = r /\ m.dst = n
    BY DEF Talks
  <2>2. m \notin Requests /\ m \notin Replies
    BY <2>1 DEF Updates, Acks, Requests, Replies, Operations, Responses
  <2> QED
    BY <2>1, <2>2 DEF Talks
<1> QED
  BY <1>1 DEF Spoken

LEMMA LocalCareful ==
    ASSUME Careful, Sound', "DELETE" \notin Types,
           NEW n \in Clients, NEW type \in Types, NEW value \in Values \cup {NoValue},
           NEW q \in Quorums, NEW i, LocalDone(n, type, value, q, i)
    PROVE  Careful'
<1>1. /\ i \notin Asking /\ Asking' = Asking \cup {i} /\ type # "DELETE" /\ type \in Operations
      /\ events'[i].type = type /\ events'[i].open
      /\ \A j \in Asking : events'[j] = events[j]
      /\ net' = Sent(net, {Asks(events'[i], i, r) : r \in Replicas})
      /\ UNCHANGED <<hints, early, raised>>
  BY KvReplicationAssumption DEF LocalDone, Operations
<1>2. PICK e : e = events'[i] /\ e.type = type /\ e.open /\ e \in Events
  BY <1>1 DEF Sound, Typing
<1>3. \A m \in net' : m \in net \/ (m.type = type /\ m.id = i /\ m \in Requests)
  <2>1. \A m \in net' : m \in net \/ \E r \in Replicas : m = Asks(e, i, r)
    BY <1>1, <1>2, SentIs
  <2>2. \A r \in Replicas : Asks(e, i, r).type = type /\ Asks(e, i, r).id = i
    BY <1>2 DEF Asks
  <2>3. ASSUME NEW m \in net', m.type = type
        PROVE  m \in Requests
    <3>1. m \in Requests \cup Replies \cup Updates \cup Acks
      BY DEF Sound, Typing
    <3> QED
      BY <1>1, <2>3, <3>1 DEF Requests, Replies, Updates, Acks, Operations, Responses
  <2> QED
    BY <2>1, <2>2, <2>3
<1>4. NoDeletion'
  BY <1>1, <1>3 DEF Careful, NoDeletion, Operations
<1>5. ASSUME early = 0
      PROVE  Opened' /\ Spoken'
  <2>1. Opened'
    BY <1>1, <1>2, <1>3, <1>5 DEF Careful, Orderly, Opened, Sound, Addressed
  <2>2. Spoken'
    BY <1>1, <1>3, <1>5, SpokenKept DEF Careful, Orderly
  <2> QED
    BY <2>1, <2>2
<1> QED
  BY <1>1, <1>4, <1>5 DEF Careful, Orderly

LEMMA OperationCareful ==
    ASSUME Careful, Sound', NEW m \in net, m \in Requests, NEW a, Performed(m, a)
    PROVE  Careful'
<1>1. PICK r : /\ r = AnswerTo(m, a) /\ r \in Replies /\ r.id = m.id /\ r.type = ResponseTo(m.type)
  BY DEF Performed, AnswerTo
<1>2. m.type # "DELETE" /\ m.type \in Operations
  BY DEF Careful, NoDeletion, Requests
<1>3. r.type \notin {"DELETE", "DELETE_RESP"}
  BY <1>1, <1>2 DEF ResponseTo, Operations
<1>4. \A k \in net' : k \in net \/ k = r
  BY <1>1, SentIs DEF Performed
<1>5. /\ UNCHANGED <<events, early, raised>> /\ Asking' = Asking
      /\ \A n \in Nodes : hints[n].open => hints'[n].open /\ hints'[n].update = hints[n].update
  BY DEF Performed, bounds, Asking
<1>6. NoDeletion'
  BY <1>3, <1>4, <1>5 DEF Careful, NoDeletion
<1>7. ASSUME early = 0
      PROVE  Opened' /\ Spoken'
  <2>1. Opened'
    BY <1>1, <1>4, <1>5, <1>7 DEF Careful, Orderly, Opened
  <2>2. Spoken'
    BY <1>1, <1>4, <1>5, <1>7, SpokenKept DEF Careful, Orderly
  <2> QED
    BY <2>1, <2>2
<1> QED
  BY <1>5, <1>6, <1>7 DEF Careful, Orderly

LEMMA ResponseCareful ==
    ASSUME Careful, Sound', NEW m \in net, OnResponse(m)
    PROVE  Careful'
<1>1. m \in Replies /\ m.id \in Asking /\ m.type # "DELETE_RESP" /\ (early = 0 => events[m.id].open)
  BY ResponseIs DEF Careful, NoDeletion, Orderly, Opened
<1>2. CASE Raise(52, m) /\ ~events[m.id].open
  <2>1. net' \subseteq net /\ UNCHANGED <<events, early>> /\ Asking' = Asking
    BY <1>2 DEF Raise, bounds, Asking
  <2> QED
    BY <1>1, <1>2, <2>1 DEF Careful, NoDeletion, Orderly
<1>3. CASE Counted(m) /\ CountDone(m)
  <2>1. \A k \in net' : k \in net \/ Repairing(m, k)
    BY <1>3, SentIs, RepairingIs DEF CountDone
  <2>2. UNCHANGED <<hints, early, raised>> /\ Asking' = Asking
    BY <1>3 DEF CountDone, bounds
  <2>3. \A i \in Asking : events'[i].type = events[i].type /\ events'[i].open = events[i].open
    <3>1. events \in [Asking -> Events]
      BY DEF Careful, Sound, Typing
    <3>2. PICK e : e = [events[m.id] EXCEPT !.resp = Left(m), !.sent = @ \/ Decides(m)]
      OBVIOUS
    <3>3. e.type = events[m.id].type /\ e.open = events[m.id].open
      BY <1>1, <3>1, <3>2 DEF Events
    <3>4. events' = [events EXCEPT ![m.id] = e]
      BY <1>3, <3>2 DEF CountDone
    <3> QED
      BY <1>1, <3>1, <3>3, <3>4
  <2>4. NoDeletion'
    BY <1>1, <2>1, <2>2, <2>3 DEF Careful, NoDeletion, Repairing
  <2>5. ASSUME early = 0
        PROVE  Opened' /\ Spoken'
    <3>1. Opened'
      BY <1>1, <2>1, <2>3, <2>5 DEF Careful, Orderly, Opened, Repairing, Sound, Addressed
    <3>2. Spoken'
      BY <2>1, <2>2, <2>5, SpokenKept DEF Careful, Orderly, Repairing
    <3> QED
      BY <3>1, <3>2
  <2> QED
    BY <2>2, <2>4, <2>5 DEF Careful, Orderly
<1> QED
  BY <1>1, <1>2, <1>3, ResponseIs DEF Careful

\* A timer that is not early finds nothing under way.
LEMMA TimeoutIs ==
    ASSUME Typing, Timeout
    PROVE  early' = 0 => early = 0 /\ net = {}
  BY DEF Timeout, Typing

LEMMA EventTimerCareful ==
    ASSUME Careful, Sound', NEW i \in Asking, OnEventTimer(i)
    PROVE  Careful'
<1>1. /\ AsksMore(i) \/ Drops(i)
      /\ events[i].open /\ Timeout /\ UNCHANGED <<hints, raised>> /\ Asking' = Asking
      /\ \A j \in Asking : /\ events'[j].type = events[j].type
                           /\ events'[j].open = (events[j].open /\ ~(j = i /\ Drops(i)))
  BY EventTimerIs DEF Careful
<1>2. PICK r : r = Asks(events[i], i, events[i].handoff) /\ r \in Requests
  BY EventTimerIs DEF Careful
<1>3. r.type = events[i].type /\ r.id = i
  BY <1>2 DEF Asks
<1>4. \A k \in net' : k \in net \/ (k = r /\ ~Drops(i))
  <2>1. net' = net \/ (net' = Sent(net, {r}) /\ ~Drops(i))
    BY <1>1, <1>2 DEF AsksMore, Drops
  <2> QED
    BY <2>1, SentIs
<1>5. NoDeletion'
  <2>1. r.type \in Operations
    BY <1>2 DEF Requests
  <2> QED
    BY <1>1, <1>3, <1>4, <2>1 DEF Careful, NoDeletion, Operations
<1>6. ASSUME early' = 0
      PROVE  Opened' /\ Spoken' /\ raised' = {}
  <2>1. net = {} /\ early = 0
    BY <1>1, <1>6, TimeoutIs DEF Careful, Sound
  <2>2. Opened'
    BY <1>1, <1>3, <1>4, <2>1 DEF Opened
  <2>3. Spoken'
    BY <1>1, <1>2, <1>4, <2>1, SpokenKept DEF Careful, Orderly
  <2> QED
    BY <1>1, <2>1, <2>2, <2>3 DEF Careful, Orderly
<1> QED
  BY <1>5, <1>6 DEF Careful, Orderly

LEMMA HintTimerCareful ==
    ASSUME Careful, Sound', NEW n \in Nodes, OnHintTimer(n)
    PROVE  Careful'
<1>1. UNCHANGED <<events, raised>> /\ hints[n].open /\ Timeout /\ Asking' = Asking
  BY DEF OnHintTimer, Asking
<1>2. hints \in [Nodes -> Hints]
  BY DEF Careful, Sound, Typing
<1>3. PICK item, U, msgs :
         /\ item = hints[n].item /\ U = hints[n].update /\ U \subseteq Replicas
         /\ msgs = {[type |-> "UPDATE", src |-> n, dst |-> r, item |-> item] : r \in U}
  BY <1>2 DEF Hints
<1>4. \/ net' = Sent(net, msgs) /\ hints' = hints
      \/ net' = net /\ U = {} /\ hints' = [hints EXCEPT ![n] = NoHint]
  BY <1>3 DEF OnHintTimer, Informed
<1>5. ASSUME NEW k \in net'
      PROVE  k \in net \/ (hints' = hints /\ \E r \in U :
                 k = [type |-> "UPDATE", src |-> n, dst |-> r, item |-> item])
  BY <1>3, <1>4, SentIs
<1>6. NoDeletion'
  BY <1>1, <1>5 DEF Careful, NoDeletion
<1>7. ASSUME early' = 0
      PROVE  Opened' /\ Spoken' /\ raised' = {}
  <2>1. net = {} /\ early = 0
    BY <1>1, <1>7, TimeoutIs DEF Careful, Sound
  <2>2. \A k \in net' : k.type = "UPDATE" /\ k.src = n /\ k.dst \in U /\ hints' = hints
                        /\ k = [type |-> "UPDATE", src |-> n, dst |-> k.dst, item |-> item]
    BY <1>5, <2>1
  <2>3. Opened'
    BY <2>2 DEF Opened, Requests, Replies, Operations, Responses
  <2>4. ASSUME NEW p \in Nodes, NEW r \in Replicas, NEW c \in Talks(p, r)'
        PROVE  /\ hints'[p].open /\ r \in hints'[p].update
               /\ \A a, b \in Talks(p, r)' : a = b
    <3>1. \A k \in Talks(p, r)' : k \in net' /\ k.src = p /\ k.dst = r
      <4>1. \A k \in net' : k \notin Acks
        BY <2>2 DEF Acks
      <4> QED
        BY <4>1 DEF Talks
    <3>2. p = n /\ r \in U /\ hints' = hints
      BY <2>2, <3>1
    <3>3. \A a, b \in Talks(p, r)' : a = b
      BY <2>2, <3>1
    <3> QED
      BY <1>1, <1>3, <3>2, <3>3
  <2>5. Spoken'
    BY <2>4 DEF Spoken
  <2> QED
    BY <1>1, <2>1, <2>3, <2>5 DEF Careful, Orderly
<1> QED
  BY <1>6, <1>7 DEF Careful, Orderly

LEMMA UpdateCareful ==
    ASSUME Careful, Sound', NEW m \in net, OnUpdate(m)
    PROVE  Careful'
<1>1. UNCHANGED <<events, hints, early, raised>> /\ Asking' = Asking
  BY DEF OnUpdate, bounds, Asking
<1>2. m \in Updates /\ m.dst \in Replicas /\ m.src \in Nodes
  BY MessageKinds DEF Careful, Sound, OnUpdate, Updates
<1>3. PICK a : a = [type |-> "ACK", src |-> m.dst, dst |-> m.src]
  OBVIOUS
<1>4. \A k \in net' : (k \in net /\ k # m) \/ k = a
  <2>1. net' = Sent(net \ {m}, {a})
    BY <1>3 DEF OnUpdate
  <2> QED
    BY <2>1, SentIs
<1>5. NoDeletion'
  BY <1>1, <1>3, <1>4 DEF Careful, NoDeletion
<1>6. ASSUME early = 0
      PROVE  Opened' /\ Spoken'
  <2>1. Opened'
    BY <1>1, <1>3, <1>4, <1>6 DEF Careful, Orderly, Opened, Requests, Replies, Operations, Responses
  <2>2. a \notin Updates /\ a.src = m.dst /\ a.dst = m.src
    BY <1>3 DEF Updates
  <2>3. m \in Talks(m.src, m.dst)
    BY <1>2 DEF Talks
  <2>4. ASSUME NEW n \in Nodes, NEW r \in Replicas, NEW c \in Talks(n, r)'
        PROVE  /\ hints'[n].open /\ r \in hints'[n].update
               /\ \A x, y \in Talks(n, r)' : x = y
    <3>1. \A k \in Talks(n, r)' : \/ k \in Talks(n, r) /\ k # m
                                  \/ k = a /\ n = m.src /\ r = m.dst
      BY <1>4, <2>2 DEF Talks
    <3>2. CASE n = m.src /\ r = m.dst
      <4>1. \A k \in Talks(n, r)' : k = a
        BY <1>6, <2>3, <3>1, <3>2 DEF Careful, Orderly, Spoken
      <4> QED
        BY <1>1, <1>6, <2>3, <3>2, <4>1 DEF Careful, Orderly, Spoken
    <3>3. CASE ~(n = m.src /\ r = m.dst)
      BY <1>1, <1>6, <3>1, <3>3 DEF Careful, Orderly, Spoken
    <3> QED
      BY <3>2, <3>3
  <2>5. Spoken'
    BY <2>4 DEF Spoken
  <2> QED
    BY <2>1, <2>5
<1> QED
  BY <1>1, <1>5, <1>6 DEF Careful, Orderly

LEMMA AckCareful ==
    ASSUME Careful, Sound', NEW m \in net, OnAck(m)
    PROVE  Careful'
<1>1. UNCHANGED <<events, early>> /\ Asking' = Asking /\ net' = net \ {m}
  BY DEF OnAck, Raise, bounds, Asking
<1>2. m \in Acks /\ m.src \in Replicas /\ m.dst \in Nodes
  BY MessageKinds DEF Careful, Sound, OnAck, Acks
<1>3. NoDeletion'
  BY <1>1 DEF Careful, NoDeletion
<1>4. ASSUME early = 0
      PROVE  Opened' /\ Spoken' /\ raised' = {}
  <2>1. Opened'
    BY <1>1, <1>4 DEF Careful, Orderly, Opened
  <2>2. m \in Talks(m.dst, m.src)
    BY <1>2 DEF Talks
  <2>3. m.src \in hints[m.dst].update
    BY <1>2, <1>4, <2>2 DEF Careful, Orderly, Spoken
  <2>4. /\ hints' = [hints EXCEPT ![m.dst].update = hints[m.dst].update \ {m.src}]
        /\ raised' = raised
    BY <2>3 DEF OnAck, Acknowledged
  <2>5. hints \in [Nodes -> Hints]
    BY DEF Careful, Sound, Typing
  <2>6. ASSUME NEW n \in Nodes, NEW r \in Replicas, NEW c \in Talks(n, r)'
        PROVE  /\ hints'[n].open /\ r \in hints'[n].update
               /\ \A x, y \in Talks(n, r)' : x = y
    <3>1. \A k \in Talks(n, r)' : k \in Talks(n, r) /\ k # m
      BY <1>1 DEF Talks
    <3>2. ~(n = m.dst /\ r = m.src)
      BY <1>4, <2>2, <3>1 DEF Careful, Orderly, Spoken
    <3>3. hints[n].open /\ r \in hints[n].update /\ \A x, y \in Talks(n, r) : x = y
      BY <1>4, <3>1 DEF Careful, Orderly, Spoken
    <3>4. hints'[n].open /\ r \in hints'[n].update
      BY <1>2, <2>4, <2>5, <3>2, <3>3 DEF Hints
    <3> QED
      BY <3>1, <3>3, <3>4
  <2>7. Spoken'
    BY <2>6 DEF Spoken
  <2> QED
    BY <1>4, <2>1, <2>4, <2>7 DEF Careful, Orderly
<1> QED
  BY <1>1, <1>3, <1>4 DEF Careful, Orderly

LEMMA InitCareful == Init => Careful
<1> SUFFICES ASSUME Init PROVE Careful
  OBVIOUS
<1>1. Sound
  BY InitSound
<1>2. Asking = {} /\ net = {} /\ raised = {}
  BY DEF Init, Asking
<1> QED
  BY <1>1, <1>2 DEF Careful, NoDeletion, Orderly, Opened, Spoken, Talks

LEMMA StepCareful ==
    ASSUME "DELETE" \notin Types, Careful, [Next]_vars
    PROVE  Careful'
<1>1. Sound'
  BY StepSound DEF Careful
<1>2. ASSUME NEW n \in Clients, NEW type \in Types, NEW value \in Values \cup {NoValue},
             NEW q \in Quorums, OnLocalMessage(n, type, value, q)
      PROVE  Careful'
  BY <1>1, <1>2, LocalDoneIs, LocalCareful DEF Careful, Sound
<1>3. ASSUME NEW m \in net, OnOperation(m) \/ OnResponse(m)
      PROVE  Careful'
  BY <1>1, <1>3, PerformedIs, OperationCareful, ResponseCareful DEF Careful
<1>4. ASSUME NEW m \in net, OnUpdate(m) \/ OnAck(m)
      PROVE  Careful'
  BY <1>1, <1>4, UpdateCareful, AckCareful
<1>5. ASSUME NEW i \in Asking, OnEventTimer(i)
      PROVE  Careful'
  BY <1>1, <1>5, EventTimerCareful
<1>6. ASSUME NEW n \in Nodes, OnHintTimer(n)
      PROVE  Careful'
  BY <1>1, <1>6, HintTimerCareful
<1>7. CASE \/ \E n \in Nodes : Disconnect(n) \/ Connect(n)
           \/ UNCHANGED vars
  <2>1. UNCHANGED <<events, hints, net, early, raised>>
    BY <1>7 DEF Disconnect, Connect, vars
  <2> QED
    BY <1>1, <2>1 DEF Careful, NoDeletion, Orderly, Opened, Spoken, Talks, Asking
<1> QED
  BY <1>2, <1>3, <1>4, <1>5, <1>6, <1>7 DEF Next, Asking

\* Whoever is cut off and for however long, as long as no timer fires early and nothing is
\* deleted, an answer finds its request and an acknowledgement its hint.
THEOREM NoKeyErrorHolds ==
    ASSUME "DELETE" \notin Types
    PROVE  Spec => []NoKeyError
<1>1. Careful => NoKeyError
  BY DEF Careful, Orderly, NoKeyError
<1> QED
  BY <1>1, InitCareful, StepCareful, PTL DEF Spec

-----------------------------------------------------------------------------
(* Nobody is cut off *)

Writers == {i \in Asking : events[i].type # "GET"}
Deletes(i) == events[i].type = "DELETE"

\* All that can be stored: nothing, and what users have asked for.
Writings == {None} \cup {Asked(i) : i \in Writers}

\* A message carries what users wrote.
Genuine(m) ==
    IF Deletes(m.id)
    THEN m.type \in {"DELETE", "DELETE_RESP"} /\ m.time = events[m.id].time
    ELSE /\ m.type \in {"GET", "PUT", "GET_RESP", "PUT_RESP"}
         /\ m.type # "GET" => ItemOf(m) \in Writings
Recorded(i) == \A n \in DOMAIN events[i].resp : events[i].resp[n] \in Writings

\* Nothing else is stored, sent or recorded.
Faithful ==
    /\ \A n \in Nodes : data[n] \in Writings /\ hints[n].item \in Writings
    /\ \A m \in net \cap Updates : m.item \in Writings
    /\ \A m \in net \cap (Requests \cup Replies) : Genuine(m)
    /\ \A i \in Asking : ~Deletes(i) => Recorded(i)

\* What each replica is sent first.
First(i, r) == Asks(events[i], i, r)

\* It is on its way or its effect is there.
Reaching ==
    \A i \in Writers : \A r \in Replicas : First(i, r) \in net \/ ~Less(data[r], Asked(i))

Whole == cut = {} /\ cuts = 0
Lasting == Sound /\ Whole /\ Faithful /\ Reaching

LEMMA AskedType ==
    ASSUME Sound
    PROVE  /\ \A i \in Asking : Asked(i) \in Int \X Int /\ events[i].type \in Operations
           /\ \A i \in Writers : Asked(i) \in Pairs
           /\ Writings \subseteq Pairs /\ Pairs \subseteq Int \X Int
           /\ \A p \in Writings : ~Less(p, None)
<1>1. ASSUME NEW i \in Asking
      PROVE  /\ Asked(i) \in Int \X Int /\ events[i].type \in Operations
             /\ i \in Writers => Asked(i) \in Pairs /\ ~Less(Asked(i), None)
  <2>1. /\ events[i].time \in Nat /\ events[i].value \in Nat \cup {NoValue}
        /\ events[i].type \in Operations /\ (events[i].type = "PUT" => events[i].value \in Nat)
    BY DEF Sound, Typing, Events
  <2>2. PICK v : v = IF events[i].type = "DELETE" THEN 0 ELSE events[i].value
    OBVIOUS
  <2>3. Asked(i) = <<events[i].time, v>>
    BY <2>2 DEF Asked
  <2>4. v \in Int /\ (i \in Writers => v \in Nat)
    BY <2>1, <2>2, NodesAre DEF Writers, Operations
  <2> QED
    BY <2>1, <2>3, <2>4 DEF Pairs, Less, None
<1>2. None \in Pairs /\ ~Less(None, None)
  BY NodesAre DEF Pairs, Less, None
<1> QED
  BY <1>1, <1>2 DEF Writings, Writers, Pairs

-----------------------------------------------------------------------------
(* Steps that neither change what was asked nor forget what is stored *)

Steady ==
    /\ Asking' = Asking /\ floor' = floor
    /\ \A i \in Asking : /\ events'[i].type = events[i].type /\ events'[i].value = events[i].value
                         /\ events'[i].node = events[i].node /\ events'[i].time = events[i].time
                         /\ events'[i].quorum = events[i].quorum
    /\ \A n \in Nodes : ~Less(data'[n], data[n])

LEMMA SteadyIs ==
    ASSUME Steady
    PROVE  /\ \A i \in Asking : Asked(i)' = Asked(i) /\ (Deletes(i)' <=> Deletes(i))
           /\ \A i \in Asking, r \in Replicas : First(i, r)' = First(i, r)
           /\ Writers' = Writers /\ Writings' = Writings
<1>1. \A i \in Asking : Asked(i)' = Asked(i) /\ (Deletes(i)' <=> Deletes(i))
  BY DEF Steady, Asked, Deletes
<1>2. \A i \in Asking, r \in Replicas : First(i, r)' = First(i, r)
  BY DEF Steady, First, Asks
<1>3. Writers' = Writers
  BY DEF Steady, Writers
<1>4. Writings' = Writings
  BY <1>1, <1>3 DEF Writings, Writers
<1> QED
  BY <1>1, <1>2, <1>3, <1>4

AllHave(p) == \A r \in Replicas : ~Less(data[r], p)
HoldersOf(p) == {r \in Replicas : ~Less(data[r], p)}

\* What a replica has is not lost.
LEMMA DataGrows ==
    ASSUME Sound, Sound', Steady, NEW p \in Int \X Int
    PROVE  /\ \A n \in Nodes : ~Less(data[n], p) => ~Less(data'[n], p)
           /\ AllHave(p) => AllHave(p)'
           /\ HoldersOf(p) \subseteq HoldersOf(p)'
           /\ HoldersOf(p)' \subseteq Replicas
<1>1. \A n \in Nodes : data[n] \in Int \X Int /\ data'[n] \in Int \X Int
  BY DEF Sound, Typing, Pairs
<1>2. \A n \in Nodes : ~Less(data[n], p) => ~Less(data'[n], p)
  BY <1>1, LessTransitive DEF Steady
<1> QED
  BY <1>2, NodesAre DEF AllHave, HoldersOf

LEMMA ReachingStep ==
    ASSUME Sound, Sound', Steady, Reaching,
           \A i \in Writers : \A r \in Replicas :
               First(i, r) \in net => First(i, r) \in net' \/ ~Less(data'[r], Asked(i))
    PROVE  Reaching'
<1> SUFFICES ASSUME NEW i \in Writers, NEW r \in Replicas
             PROVE  First(i, r) \in net' \/ ~Less(data'[r], Asked(i))
  BY SteadyIs DEF Reaching, Writers
<1>1. Asked(i) \in Int \X Int /\ r \in Nodes
  BY AskedType, NodesAre DEF Writers
<1> QED
  BY <1>1, DataGrows DEF Reaching

LEMMA FaithfulStep ==
    ASSUME Sound, Steady, Faithful,
           \A n \in Nodes : data'[n] \in Writings /\ hints'[n].item \in Writings,
           \A m \in net' : \/ m \in net
                           \/ m \in Updates /\ m.item \in Writings
                           \/ m \in Acks
                           \/ m \in Requests \cup Replies /\ m.id \in Asking /\ Genuine(m),
           \A i \in Asking : ~Deletes(i) =>
               events'[i].resp = events[i].resp \/ Recorded(i)'
    PROVE  Faithful'
<1>1. Writings' = Writings /\ \A i \in Asking : Deletes(i)' <=> Deletes(i)
  BY SteadyIs
<1>2. \A m \in net' \cap Updates : m.item \in Writings
  BY DEF Faithful, Updates, Acks, Requests, Replies, Operations, Responses
<1>3. ASSUME NEW m \in net' \cap (Requests \cup Replies)
      PROVE  Genuine(m)'
  <2>1. m \notin Updates /\ m \notin Acks
    BY DEF Updates, Acks, Requests, Replies, Operations, Responses
  <2>2. m.id \in Asking /\ Genuine(m)
    BY <2>1 DEF Faithful, Sound, Addressed
  <2> QED
    BY <1>1, <2>2 DEF Genuine, Steady
<1>4. ASSUME NEW i \in Asking, ~Deletes(i)
      PROVE  Recorded(i)'
  BY <1>1, <1>4 DEF Faithful, Recorded
<1> QED
  BY <1>1, <1>2, <1>3, <1>4 DEF Faithful, Steady

\* No request is lost, and what is new has been written by users.
Carried(m) ==
    \/ m \in Updates /\ m.item \in Writings
    \/ m \in Acks
    \/ m \in Requests \cup Replies /\ m.id \in Asking /\ Genuine(m)
Carrying ==
    /\ Steady /\ Whole'
    /\ \A n \in Nodes : data'[n] \in Writings /\ hints'[n].item \in Writings
    /\ \A m \in net' : m \in net \/ Carried(m)
    /\ \A m \in net \cap Requests : m \in net'
    /\ \A i \in Asking : ~Deletes(i) => events'[i].resp = events[i].resp \/ Recorded(i)'

LEMMA CarryingLasts ==
    ASSUME Lasting, Sound', Carrying
    PROVE  Lasting'
<1>1. Steady /\ Whole'
  BY DEF Carrying
<1>2. Faithful'
  <2>1. \A m \in net' : \/ m \in net
                       \/ (m \in Updates /\ m.item \in Writings)
                       \/ m \in Acks
                       \/ (m \in Requests \cup Replies /\ m.id \in Asking /\ Genuine(m))
    BY DEF Carrying, Carried
  <2> QED
    BY <1>1, <2>1, FaithfulStep DEF Carrying, Lasting
<1>3. Reaching'
  <2>1. ASSUME NEW i \in Writers, NEW r \in Replicas, First(i, r) \in net
        PROVE  First(i, r) \in net'
    <3>1. First(i, r).type \in Operations
      BY AskedType DEF First, Asks, Writers, Lasting
    <3>2. First(i, r) \in Requests
      BY <2>1, <3>1, MessageKinds DEF Lasting, Sound, Operations
    <3> QED
      BY <2>1, <3>2 DEF Carrying
  <2> QED
    BY <1>1, <2>1, ReachingStep DEF Lasting
<1> QED
  BY <1>1, <1>2, <1>3 DEF Lasting

-----------------------------------------------------------------------------
(* A request is carried out *)

EffectOf(n, m) ==
    /\ Effect(n, m) \in Writings
    /\ n \in Replicas => ~Less(Effect(n, m), data[n])
    /\ m.type = "GET" => Answer(n, m) = Stored(n)
    /\ m.type = "PUT" => Answer(n, m) = Effect(n, m) /\ ~Less(Effect(n, m), ItemOf(m))
    /\ m.type = "DELETE" => Deletes(m.id) /\ ~Less(Effect(n, m), Asked(m.id))

LEMMA EffectIs ==
    ASSUME Lasting, NEW m \in net, m \in Requests, NEW n \in Nodes
    PROVE  EffectOf(n, m) /\ Stored(n) \in Writings
<1>1. /\ m.type \in Operations /\ m.time \in Int /\ m.id \in Asking /\ Genuine(m)
      /\ m.type = "PUT" => m.value \in Nat
  BY DEF Lasting, Sound, Addressed, Faithful, Requests
<1>2. PICK s : s = Stored(n) /\ s \in Writings /\ (n \in Replicas => s = data[n])
  BY DEF Lasting, Faithful, Stored
<1>3. s \in Pairs /\ s \in Int \X Int /\ Writings \subseteq Pairs /\ Pairs \subseteq Int \X Int
  BY <1>2, AskedType DEF Lasting
<1>4. CASE m.type = "GET"
  <2>1. Effect(n, m) = s /\ Answer(n, m) = s
    BY <1>2, <1>4 DEF Effect, Answer
  <2> QED
    BY <1>2, <1>3, <1>4, <2>1, LessIs DEF EffectOf
<1>5. CASE m.type = "PUT"
  <2>1. PICK p : p = ItemOf(m) /\ p \in Writings
    BY <1>1, <1>5 DEF Genuine
  <2>2. Effect(n, m) = Newer(s, p) /\ Answer(n, m) = Effect(n, m)
    BY <1>2, <1>5, <2>1 DEF Effect, Answer, ItemOf
  <2>3. Newer(s, p) \in {s, p} /\ ~Less(Newer(s, p), s) /\ ~Less(Newer(s, p), p)
    BY <1>3, <2>1, NewerIs
  <2> QED
    BY <1>2, <1>5, <2>1, <2>2, <2>3 DEF EffectOf
<1>6. CASE m.type = "DELETE"
  <2>1. Deletes(m.id) /\ m.time = events[m.id].time /\ m.id \in Writers
    BY <1>1, <1>6 DEF Genuine, Deletes, Writers
  <2>2. PICK d : d = <<m.time, 0>> /\ d = Asked(m.id) /\ d \in Writings
    BY <2>1 DEF Asked, Deletes, Writings
  <2>3. Effect(n, m) = IF s[1] < m.time THEN d ELSE s
    BY <1>2, <1>6, <2>2 DEF Effect
  <2>4. s[1] \in Int /\ s[2] \in Nat /\ d[1] = m.time /\ d[2] = 0 /\ d \in Int \X Int
    BY <1>1, <1>3, <2>2 DEF Pairs
  <2>5. CASE s[1] < m.time
    <3>1. ~Less(d, s) /\ ~Less(d, d)
      BY <1>1, <2>4, <2>5 DEF Less
    <3> QED
      BY <1>2, <1>6, <2>1, <2>2, <2>3, <2>5, <3>1 DEF EffectOf
  <2>6. CASE ~(s[1] < m.time)
    <3>1. ~Less(s, s) /\ ~Less(s, d)
      BY <1>1, <2>4, <2>6 DEF Less
    <3> QED
      BY <1>2, <1>6, <2>1, <2>2, <2>3, <2>6, <3>1 DEF EffectOf
  <2> QED
    BY <2>5, <2>6
<1> QED
  BY <1>1, <1>2, <1>4, <1>5, <1>6 DEF Operations

LEMMA OperationSteady ==
    ASSUME Lasting, NEW m \in net, m \in Requests, NEW a, Performed(m, a)
    PROVE  Steady
<1>1. Asking' = Asking /\ floor' = floor /\ events' = events
  BY DEF Performed, Asking
<1>2. ASSUME NEW n \in Nodes
      PROVE  ~Less(data'[n], data[n])
  <2>1. data[n] \in Int \X Int
    BY DEF Lasting, Sound, Typing, Pairs
  <2>2. data'[n] = IF n = m.dst /\ n \in Replicas THEN Effect(n, m) ELSE data[n]
    BY DEF Performed
  <2>3. n \in Replicas => ~Less(Effect(n, m), data[n])
    BY EffectIs DEF EffectOf
  <2> QED
    BY <2>1, <2>2, <2>3, LessIs
<1> QED
  BY <1>1, <1>2 DEF Steady

\* The answer is under way instead of the request.
Answered(m, r) ==
    /\ r \in Replies /\ r.id = m.id /\ r.src = m.dst /\ r.type = ResponseTo(m.type)
    /\ m.dst \in Nodes /\ m.id \in Asking /\ m \notin Replies
    /\ net' = (net \ {m}) \cup {r}
    /\ m.type # "DELETE" => ItemOf(r) = Answer(m.dst, m)
    /\ m.type = "DELETE" => r.time = m.time

LEMMA AnsweredIs ==
    ASSUME Lasting, NEW m \in net, m \in Requests, NEW a, Performed(m, a)
    PROVE  \E r : Answered(m, r)
<1>1. PICK r : r = AnswerTo(m, a) /\ r \in Replies
  BY DEF Performed
<1>2. r.id = m.id /\ r.src = m.dst /\ r.type = ResponseTo(m.type) /\ r.time = a[1] /\ r.value = a[2]
  BY <1>1 DEF AnswerTo
<1>3. m.dst \in Nodes /\ m.id \in Asking /\ m \notin Replies
  BY DEF Lasting, Sound, Addressed, Requests, Replies, Operations, Responses
<1>4. net' = (net \ {m}) \cup {r}
  <2>1. net' = Sent(net \ {m}, {r}) /\ cut = {}
    BY <1>1 DEF Performed, Lasting, Whole
  <2> QED
    BY <2>1, SentIs
<1>5. m.type # "DELETE" => ItemOf(r) = Answer(m.dst, m)
  BY <1>2 DEF Performed, ItemOf, Pairs
<1>6. m.type = "DELETE" => r.time = m.time
  BY <1>2 DEF Performed, Answer
<1>7. Answered(m, r)
  BY <1>1, <1>2, <1>3, <1>4, <1>5, <1>6 DEF Answered
<1> QED
  BY <1>7

LEMMA OperationLasts ==
    ASSUME Lasting, Sound', NEW m \in net, m \in Requests, NEW a, Performed(m, a)
    PROVE  Lasting'
<1>1. PICK r : Answered(m, r)
  BY AnsweredIs
<1>2. Steady
  BY OperationSteady
<1>3. PICK n : n = m.dst /\ n \in Nodes /\ EffectOf(n, m) /\ Stored(n) \in Writings
  BY <1>1, EffectIs DEF Answered
<1>4. /\ UNCHANGED <<events, answered>> /\ Whole'
      /\ \A k \in Nodes :
          /\ data'[k] = IF k = n /\ k \in Replicas THEN Effect(k, m) ELSE data[k]
          /\ hints'[k].item = IF k = n /\ k \notin Replicas THEN Effect(k, m) ELSE hints[k].item
  BY <1>3 DEF Performed, Lasting, Whole, bounds
<1>5. m.type \in Operations /\ m.id \in Asking /\ Genuine(m)
  BY DEF Lasting, Sound, Addressed, Faithful, Requests
<1>6. Faithful'
  <2>1. \A k \in Nodes : data'[k] \in Writings /\ hints'[k].item \in Writings
    BY <1>3, <1>4 DEF EffectOf, Lasting, Faithful
  <2>2. Genuine(r)
    <3>1. CASE m.type = "DELETE"
      BY <1>1, <1>5, <3>1 DEF Genuine, Answered, ResponseTo
    <3>2. CASE m.type # "DELETE"
      <4>1. ItemOf(r) \in Writings
        BY <1>1, <1>3, <1>5, <3>2 DEF Answered, EffectOf, Operations
      <4>2. ~Deletes(m.id)
        BY <1>5, <3>2 DEF Genuine, Operations
      <4>3. r.type \in {"GET_RESP", "PUT_RESP"}
        BY <1>1, <1>5, <3>2 DEF Answered, ResponseTo, Operations
      <4> QED
        BY <1>1, <4>1, <4>2, <4>3 DEF Genuine, Answered, Operations
    <3> QED
      BY <3>1, <3>2
  <2>3. \A k \in net' : k \in net \/ k = r
    BY <1>1 DEF Answered
  <2> QED
    BY <1>1, <1>2, <1>4, <2>1, <2>2, <2>3, FaithfulStep DEF Lasting, Answered
<1>7. Reaching'
  <2>1. ASSUME NEW i \in Writers, NEW k \in Replicas, First(i, k) \in net
        PROVE  First(i, k) \in net' \/ ~Less(data'[k], Asked(i))
    <3>1. CASE First(i, k) # m
      BY <1>1, <2>1, <3>1 DEF Answered
    <3>2. CASE First(i, k) = m
      <4>1. /\ m.id = i /\ k = n /\ m.type = events[i].type /\ m.time = events[i].time
            /\ m.value = events[i].value
        BY <1>3, <3>2 DEF First, Asks
      <4>2. data'[k] = Effect(n, m)
        BY <1>3, <1>4, <4>1
      <4>3. CASE m.type = "DELETE"
        BY <1>3, <4>1, <4>2, <4>3 DEF EffectOf
      <4>4. CASE m.type = "PUT"
        <5>1. ItemOf(m) = Asked(i)
          BY <4>1, <4>4 DEF ItemOf, Asked
        <5> QED
          BY <1>3, <4>2, <4>4, <5>1 DEF EffectOf
      <4> QED
        BY <1>5, <4>1, <4>3, <4>4 DEF Writers, Operations
    <3> QED
      BY <3>1, <3>2
  <2> QED
    BY <1>2, <2>1, ReachingStep DEF Lasting
<1> QED
  BY <1>4, <1>6, <1>7 DEF Lasting

-----------------------------------------------------------------------------
(* A request is made *)

\* The messages of the new request are added, and nothing is known of it yet.
Begun(i, e) ==
    /\ i \notin Asking /\ Asking' = Asking \cup {i} /\ e = events'[i] /\ e \in Events
    /\ (e.type = "PUT" => e.value \in Nat) /\ DOMAIN e.resp = {}
    /\ \A j \in Asking : events'[j] = events[j] /\ floor'[j] = floor[j]
    /\ floor'[i] = FloorOf(e.quorum) /\ floor'[i] \in Pairs
    /\ net' = net \cup {Asks(e, i, r) : r \in Replicas}
    /\ \A r \in Replicas : /\ Asks(e, i, r) \in Requests /\ Asks(e, i, r) \notin Replies
                           /\ Asks(e, i, r).id = i /\ Asks(e, i, r).dst = r
                           /\ Asks(e, i, r).type = e.type /\ Asks(e, i, r).time = e.time
                           /\ Asks(e, i, r).value = e.value
    /\ UNCHANGED <<data, hints, answered>> /\ UNCHANGED <<cut, cuts, early>>

LEMMA BegunIs ==
    ASSUME Lasting, Sound', NEW n \in Clients, NEW type \in Types, NEW value \in Values \cup {NoValue},
           NEW q \in Quorums, NEW i, LocalDone(n, type, value, q, i)
    PROVE  \E e : Begun(i, e)
<1>1. PICK e : e = events'[i] /\ e \in Events
  BY DEF LocalDone
<1>2. /\ i \in Nat /\ i \notin Asking /\ Asking' = Asking \cup {i}
      /\ (e.type = "PUT" => e.value \in Nat) /\ DOMAIN e.resp = {}
      /\ \A j \in Asking : events'[j] = events[j] /\ floor'[j] = floor[j]
      /\ floor'[i] = FloorOf(e.quorum) /\ floor'[i] \in Pairs
      /\ UNCHANGED <<data, hints, answered>> /\ UNCHANGED <<cut, cuts, early>>
  BY <1>1 DEF LocalDone
<1>3. \A r \in Replicas : /\ Asks(e, i, r) \in Requests
                          /\ Asks(e, i, r).id = i /\ Asks(e, i, r).dst = r
                          /\ Asks(e, i, r).type = e.type /\ Asks(e, i, r).time = e.time
                          /\ Asks(e, i, r).value = e.value
  BY <1>1, <1>2, NodesAre DEF Asks, Requests, Events
<1>4. \A r \in Replicas : Asks(e, i, r) \notin Replies
  BY <1>1, <1>3 DEF Events, Replies, Operations, Responses
<1>5. net' = net \cup {Asks(e, i, r) : r \in Replicas}
  <2>1. net' = Sent(net, {Asks(e, i, r) : r \in Replicas}) /\ cut = {}
    BY <1>1 DEF LocalDone, Lasting, Whole
  <2> QED
    BY <2>1, SentIs
<1>6. Begun(i, e)
  BY <1>1, <1>2, <1>3, <1>4, <1>5 DEF Begun
<1> QED
  BY <1>6

LEMMA LocalLasts ==
    ASSUME Lasting, Sound', NEW i, NEW e, Begun(i, e)
    PROVE  Lasting'
<1>1. /\ i \notin Asking /\ Asking' = Asking \cup {i} /\ e = events'[i] /\ e \in Events
      /\ \A j \in Asking : events'[j] = events[j] /\ floor'[j] = floor[j]
      /\ UNCHANGED <<data, hints, answered>> /\ UNCHANGED <<cut, cuts, early>>
      /\ \A k \in net' : k \in net \/ \E r \in Replicas : k = Asks(e, i, r)
      /\ net \subseteq net'
  BY DEF Begun
<1>2. \A r \in Replicas : First(i, r)' = Asks(e, i, r) /\ Asks(e, i, r) \in net'
  BY DEF Begun, First
<1>3. \A j \in Asking : /\ Asked(j)' = Asked(j) /\ (Deletes(j)' <=> Deletes(j))
                        /\ \A r \in Replicas : First(j, r)' = First(j, r)
                        /\ j \in Writers <=> j \in Writers'
  BY <1>1 DEF Asked, Deletes, First, Writers
<1>4. Writings \subseteq Writings'
  BY <1>1, <1>3 DEF Writings, Writers
<1>5. Faithful'
  <2>1. \A n \in Nodes : data'[n] \in Writings' /\ hints'[n].item \in Writings'
    BY <1>1, <1>4 DEF Lasting, Faithful
  <2>2. ASSUME NEW k \in net' \cap Updates
        PROVE  k.item \in Writings'
    <3>1. k \notin Requests
      BY DEF Updates, Requests, Operations
    <3> QED
      BY <1>1, <1>4, <2>2, <3>1 DEF Lasting, Faithful, Begun
  <2>3. ASSUME NEW k \in net \cap (Requests \cup Replies)
        PROVE  Genuine(k)'
    <3>1. Genuine(k) /\ k.id \in Asking
      BY DEF Lasting, Faithful, Sound, Addressed
    <3> QED
      BY <1>1, <1>3, <1>4, <3>1 DEF Genuine
  <2>4. ASSUME NEW r \in Replicas, NEW k, k = Asks(e, i, r)
        PROVE  Genuine(k)'
    <3>1. /\ k.id = i /\ k.dst = r /\ k.type = e.type /\ k.time = e.time /\ k.value = e.value
          /\ e.type \in Operations
      BY <1>1, <2>4 DEF Begun, Events
    <3>2. ASSUME e.type = "PUT"
          PROVE  ItemOf(k) \in Writings'
      <4>1. ItemOf(k) = Asked(i)' /\ i \in Writers'
        BY <1>1, <3>1, <3>2 DEF ItemOf, Asked, Writers
      <4> QED
        BY <4>1 DEF Writings
    <3> QED
      BY <1>1, <3>1, <3>2 DEF Genuine, Deletes, Operations
  <2>5. \A j \in Asking' : ~Deletes(j)' => Recorded(j)'
    <3>1. Recorded(i)'
      BY <1>1 DEF Begun, Recorded
    <3>2. ASSUME NEW j \in Asking, ~Deletes(j)
          PROVE  Recorded(j)'
      BY <1>1, <1>4, <3>2 DEF Lasting, Faithful, Recorded
    <3> QED
      BY <1>1, <1>3, <3>1, <3>2
  <2> QED
    BY <1>1, <2>1, <2>2, <2>3, <2>4, <2>5 DEF Faithful
<1>6. Reaching'
  BY <1>1, <1>2, <1>3 DEF Lasting, Reaching, Writers
<1> QED
  BY <1>1, <1>5, <1>6 DEF Lasting, Whole

-----------------------------------------------------------------------------
(* An answer is counted *)

CountEffect(m) ==
    /\ Steady /\ data' = data /\ hints' = hints /\ UNCHANGED <<cut, cuts, early>>
    /\ net' = (net \ {m}) \cup Repairs(m) /\ m \notin Requests
    /\ \A i \in Asking :
          /\ events'[i].open = events[i].open
          /\ events'[i].resp = IF i = m.id THEN Left(m) ELSE events[i].resp
    /\ \A i \in DOMAIN answered' :
          \/ i \in DOMAIN answered /\ answered'[i] = answered[i]
          \/ i = m.id /\ Decides(m) /\ answered'[i] = Best(m)

LEMMA CountEffectIs ==
    ASSUME Lasting, NEW m \in net, Counted(m), CountDone(m)
    PROVE  CountEffect(m)
<1>1. PICK e : e = [events[m.id] EXCEPT !.resp = Left(m), !.sent = @ \/ Decides(m)]
  OBVIOUS
<1>2. events' = [events EXCEPT ![m.id] = e] /\ Asking' = Asking /\ m.id \in Asking
  BY <1>1 DEF CountDone, Counted, CountedBy
<1>3. events \in [Asking -> Events] /\ \A n \in Nodes : data[n] \in Int \X Int
  BY DEF Lasting, Sound, Typing, Pairs
<1>4. /\ e.type = events[m.id].type /\ e.value = events[m.id].value /\ e.node = events[m.id].node
      /\ e.time = events[m.id].time /\ e.quorum = events[m.id].quorum
      /\ e.open = events[m.id].open /\ e.resp = Left(m)
  BY <1>1, <1>2, <1>3 DEF Events
<1>5. \A i \in Asking : events'[i] = IF i = m.id THEN e ELSE events[i]
  BY <1>2, <1>3
<1>6. Steady
  BY <1>2, <1>3, <1>4, <1>5, LessIs DEF Steady, CountDone
<1>7. net' = (net \ {m}) \cup Repairs(m)
  BY SentIs DEF CountDone, Lasting, Whole
<1>8. m \notin Requests
  BY DEF Counted, CountedBy, Requests, Replies, Operations, Responses
<1>9. \A i \in DOMAIN answered' :
          \/ i \in DOMAIN answered /\ answered'[i] = answered[i]
          \/ i = m.id /\ Decides(m) /\ answered'[i] = Best(m)
  BY DEF CountDone
<1>10. data' = data /\ hints' = hints /\ UNCHANGED <<cut, cuts, early>>
  BY DEF CountDone, bounds
<1>11. \A i \in Asking : /\ events'[i].open = events[i].open
                         /\ events'[i].resp = IF i = m.id THEN Left(m) ELSE events[i].resp
  BY <1>4, <1>5
<1> QED
  BY <1>6, <1>7, <1>8, <1>9, <1>10, <1>11 DEF CountEffect

\* What is left of a request that is no deletion is what users wrote.
LEMMA BestFaithful ==
    ASSUME Lasting, NEW m \in net, Counted(m), ~Deletes(m.id)
    PROVE  Best(m) \in Writings /\ \A n \in DOMAIN All(m) : All(m)[n] \in Writings
<1>1. m \in Replies /\ m.id \in Asking /\ Genuine(m) /\ Recorded(m.id) /\ m \notin Requests
  BY DEF Counted, CountedBy, Lasting, Faithful, Requests, Replies, Operations, Responses
<1>2. ItemOf(m) \in Writings
  BY <1>1 DEF Genuine, Replies, Operations, Responses
<1>3. \A n \in DOMAIN All(m) : All(m)[n] \in Writings
  BY <1>1, <1>2 DEF Counted, CountedBy, Recorded
<1> QED
  BY <1>3 DEF Counted, CountedBy

LEMMA CountLasts ==
    ASSUME Lasting, Sound', NEW m \in net, Counted(m), CountDone(m)
    PROVE  Lasting'
<1>1. CountEffect(m)
  BY CountEffectIs
<1>2. Steady /\ data' = data /\ hints' = hints /\ Whole' /\ m \notin Requests
  BY <1>1 DEF CountEffect, Lasting, Whole
<1>3. m \in Replies /\ m.id \in Asking /\ Genuine(m)
  BY DEF Counted, CountedBy, Lasting, Faithful
<1>4. /\ Deletes(m.id) <=> m.type = "DELETE_RESP"
      /\ Deletes(m.id) => m.time = events[m.id].time /\ m.id \in Writers
  BY <1>3 DEF Genuine, Deletes, Writers, Replies, Responses
<1>5. \A k \in net' : k \in net \/ Repairing(m, k)
  BY <1>1, RepairingIs DEF CountEffect
<1>6. ASSUME NEW k, Repairing(m, k)
      PROVE  k \in Requests /\ k.id \in Asking /\ Genuine(k)
  <2>1. CASE Deletes(m.id)
    BY <1>3, <1>4, <1>6, <2>1 DEF Repairing, Genuine
  <2>2. CASE ~Deletes(m.id)
    <3>1. k.type = "PUT" /\ ItemOf(k) \in Writings
      BY <1>4, <1>6, <2>2, BestFaithful DEF Repairing
    <3> QED
      BY <1>3, <1>6, <2>2, <3>1 DEF Repairing, Genuine
  <2> QED
    BY <2>1, <2>2
<1>7. ASSUME NEW i \in Asking, ~Deletes(i)
      PROVE  events'[i].resp = events[i].resp \/ Recorded(i)'
  <2>1. CASE i # m.id
    BY <1>1, <2>1 DEF CountEffect
  <2>2. CASE i = m.id
    <3>1. events'[i].resp = Left(m)
      BY <1>1, <2>2 DEF CountEffect
    <3>2. \A n \in DOMAIN Left(m) : Left(m)[n] \in Writings
      BY <1>7, <2>2, BestFaithful DEF Counted, CountedBy
    <3>3. Writings' = Writings
      BY <1>2, SteadyIs
    <3> QED
      BY <3>1, <3>2, <3>3 DEF Recorded
  <2> QED
    BY <2>1, <2>2
<1>8. \A n \in Nodes : data'[n] \in Writings /\ hints'[n].item \in Writings
  BY <1>2 DEF Lasting, Faithful
<1>9. \A k \in net \cap Requests : k \in net'
  BY <1>1 DEF CountEffect
<1>10. \A k \in net' : k \in net \/ Carried(k)
  BY <1>5, <1>6 DEF Carried
<1>11. Carrying
  BY <1>2, <1>7, <1>8, <1>9, <1>10 DEF Carrying
<1> QED
  BY <1>11, CarryingLasts

-----------------------------------------------------------------------------
(* The other steps *)

\* Everything stays as it is but for the messages.
LEMMA SameSteady ==
    ASSUME Lasting, UNCHANGED <<data, events, floor>>
    PROVE  Steady
<1>1. \A n \in Nodes : data[n] \in Int \X Int
  BY DEF Lasting, Sound, Typing, Pairs
<1> QED
  BY <1>1, LessIs DEF Steady, Asking

LEMMA RaiseLasts ==
    ASSUME Lasting, Sound', NEW m \in net, m \notin Requests, NEW line, Raise(line, m)
    PROVE  Lasting'
<1>1. UNCHANGED <<data, events, floor, hints>> /\ net' = net \ {m} /\ Whole'
  BY DEF Raise, bounds, Lasting, Whole
<1>2. Carrying
  BY <1>1, SameSteady DEF Carrying, Lasting, Faithful
<1> QED
  BY <1>2, CarryingLasts

LEMMA ResponseLasts ==
    ASSUME Lasting, Sound', NEW m \in net, OnResponse(m)
    PROVE  Lasting'
<1>1. m \notin Requests
  BY ResponseIs DEF Lasting, Requests, Replies, Operations, Responses
<1> QED
  BY <1>1, ResponseIs, RaiseLasts, CountLasts DEF Lasting

\* A hint is changed or the message is all that goes.
AckEffect(m) ==
    /\ net' = net \ {m} /\ UNCHANGED <<data, events, floor, answered, cut, cuts, early>>
    /\ m \in Acks /\ \A n \in Nodes : hints'[n].item = hints[n].item

LEMMA AckIs ==
    ASSUME Lasting, NEW m \in net, OnAck(m)
    PROVE  AckEffect(m)
<1>1. m \in Acks
  BY MessageKinds DEF OnAck, Lasting, Sound
<1>2. CASE m.src \in hints[m.dst].update
  <2>1. /\ hints' = [hints EXCEPT ![m.dst].update = hints[m.dst].update \ {m.src}]
        /\ net' = net \ {m} /\ UNCHANGED <<data, events, floor, answered, cut, cuts, early>>
    BY <1>2 DEF OnAck, bounds, Acknowledged
  <2>2. \A n \in Nodes : hints'[n].item = hints[n].item
    BY <2>1 DEF Lasting, Sound, Typing, Hints
  <2> QED
    BY <1>1, <2>1, <2>2 DEF AckEffect
<1>3. CASE m.src \notin hints[m.dst].update
  BY <1>1, <1>3 DEF OnAck, Raise, AckEffect, bounds
<1> QED
  BY <1>2, <1>3

LEMMA AckLasts ==
    ASSUME Lasting, Sound', NEW m \in net, OnAck(m)
    PROVE  Lasting'
<1>1. AckEffect(m)
  BY AckIs
<1>2. Steady
  BY <1>1, SameSteady DEF AckEffect
<1>3. m \notin Requests
  BY <1>1 DEF AckEffect, Acks, Requests, Operations
<1>4. Carrying
  BY <1>1, <1>2, <1>3 DEF AckEffect, Carrying, Lasting, Faithful, Whole
<1> QED
  BY <1>4, CarryingLasts

\* The replica takes what it is told if it is later, and acknowledges it.
UpdateEffect(m, a) ==
    /\ m \in Updates /\ a \in Acks /\ net' = (net \ {m}) \cup {a}
    /\ Steady /\ UNCHANGED <<events, hints, answered, floor, cut, cuts, early>>
    /\ \A n \in Nodes : data'[n] \in Writings

LEMMA UpdateIs ==
    ASSUME Lasting, NEW m \in net, OnUpdate(m)
    PROVE  \E a : UpdateEffect(m, a)
<1>1. m \in Updates /\ m.item \in Writings /\ m.dst \in Nodes /\ m.src \in Nodes /\ m.dst \in Replicas
  <2>1. m \in Updates
    BY MessageKinds DEF OnUpdate, Lasting, Sound
  <2>2. m.dst \in Replicas /\ m.src \in Nodes
    BY <2>1 DEF Updates
  <2> QED
    BY <2>1, <2>2, NodesAre DEF Lasting, Faithful
<1>2. PICK a : a = [type |-> "ACK", src |-> m.dst, dst |-> m.src] /\ a \in Acks
  <2>1. [type |-> "ACK", src |-> m.dst, dst |-> m.src] \in Acks
    BY <1>1 DEF Acks
  <2> QED
    BY <2>1
<1>3. net' = (net \ {m}) \cup {a}
  <2>1. net' = Sent(net \ {m}, {a}) /\ cut = {}
    BY <1>2 DEF OnUpdate, Lasting, Whole
  <2> QED
    BY <2>1, SentIs
<1>4. UNCHANGED <<events, hints, answered, floor>> /\ UNCHANGED <<cut, cuts, early>>
  BY DEF OnUpdate, bounds
<1>5. \A n \in Nodes : data[n] \in Int \X Int /\ data[n] \in Writings /\ m.item \in Int \X Int
  BY <1>1, AskedType DEF Lasting, Faithful
<1>6. \A n \in Nodes : data'[n] = IF n = m.dst THEN Newer(data[n], m.item) ELSE data[n]
  <2>1. data \in [Nodes -> Pairs] /\ data' = [data EXCEPT ![m.dst] = Newer(@, m.item)]
    BY DEF Lasting, Sound, Typing, OnUpdate
  <2> QED
    BY <2>1
<1>7. \A n \in Nodes : ~Less(data'[n], data[n]) /\ data'[n] \in Writings
  <2> SUFFICES ASSUME NEW n \in Nodes PROVE ~Less(data'[n], data[n]) /\ data'[n] \in Writings
    OBVIOUS
  <2>1. Newer(data[n], m.item) \in {data[n], m.item} /\ ~Less(Newer(data[n], m.item), data[n])
    BY <1>5, NewerIs
  <2> QED
    BY <1>1, <1>5, <1>6, <2>1, LessIs
<1>8. Steady
  BY <1>4, <1>7 DEF Steady, Asking
<1>9. UpdateEffect(m, a)
  BY <1>1, <1>2, <1>3, <1>4, <1>7, <1>8 DEF UpdateEffect
<1> QED
  BY <1>9

LEMMA UpdateLasts ==
    ASSUME Lasting, Sound', NEW m \in net, OnUpdate(m)
    PROVE  Lasting'
<1>1. PICK a : UpdateEffect(m, a)
  BY UpdateIs
<1>2. m \notin Requests
  BY <1>1 DEF UpdateEffect, Updates, Requests, Operations
<1>3. Carrying
  BY <1>1, <1>2 DEF UpdateEffect, Carrying, Carried, Lasting, Faithful, Whole
<1> QED
  BY <1>3, CarryingLasts

LEMMA EventTimerLasts ==
    ASSUME Lasting, Sound', NEW i \in Asking, OnEventTimer(i)
    PROVE  Lasting'
<1>1. /\ UNCHANGED <<data, hints, floor, cut, cuts>>
      /\ AsksMore(i) \/ Drops(i)
      /\ Asks(events[i], i, events[i].handoff) \in Requests
      /\ Asking' = Asking
      /\ \A j \in Asking : /\ events'[j].type = events[j].type
                           /\ events'[j].value = events[j].value
                           /\ events'[j].node = events[j].node
                           /\ events'[j].time = events[j].time
                           /\ events'[j].quorum = events[j].quorum
                           /\ events'[j].resp = events[j].resp
  <2>1. Sound
    BY DEF Lasting
  <2> QED
    BY <2>1, EventTimerIs
<1>2. Steady
  <2>1. \A n \in Nodes : data[n] \in Int \X Int
    BY DEF Lasting, Sound, Typing, Pairs
  <2> QED
    BY <1>1, <2>1, LessIs DEF Steady
<1>3. PICK k : k = Asks(events[i], i, events[i].handoff)
  OBVIOUS
<1>4. net \subseteq net' /\ \A x \in net' : x \in net \/ x = k
  BY <1>1, <1>3, SentIs DEF AsksMore, Drops
<1>5. Carried(k)
  <2>1. /\ k \in Requests /\ k.id = i /\ k.type = events[i].type /\ k.time = events[i].time
        /\ k.value = events[i].value /\ k.type \in Operations
    BY <1>1, <1>3 DEF Asks, Requests
  <2>2. CASE k.type = "PUT"
    <3>1. ItemOf(k) = Asked(i) /\ i \in Writers
      BY <2>1, <2>2 DEF ItemOf, Asked, Writers
    <3> QED
      BY <2>1, <2>2, <3>1 DEF Carried, Genuine, Deletes, Writings
  <2> QED
    BY <2>1, <2>2 DEF Carried, Genuine, Deletes, Operations
<1>6. Carrying
  BY <1>1, <1>2, <1>4, <1>5 DEF Carrying, Lasting, Faithful, Whole
<1> QED
  BY <1>6, CarryingLasts

HintTimerEffect(n) ==
    /\ UNCHANGED <<data, events, answered, floor, cut, cuts>> /\ net \subseteq net'
    /\ \A k \in Nodes : hints'[k].item \in Writings
    /\ \A k \in net' : k \in net \/ (k \in Updates /\ k.item \in Writings)

LEMMA HintTimerIs ==
    ASSUME Lasting, NEW n \in Nodes, OnHintTimer(n)
    PROVE  HintTimerEffect(n)
<1>1. UNCHANGED <<data, events, answered, floor, cut, cuts>>
  BY DEF OnHintTimer
<1>2. hints \in [Nodes -> Hints] /\ \A k \in Nodes : hints[k].item \in Writings
  BY DEF Lasting, Sound, Typing, Faithful
<1>3. \A k \in Nodes : hints'[k].item \in Writings
  <2>1. NoHint.item \in Writings
    BY DEF NoHint, Writings
  <2>2. hints' = [hints EXCEPT ![n] = NoHint] \/ hints' = hints
    BY DEF OnHintTimer
  <2> QED
    BY <1>2, <2>1, <2>2
<1>4. PICK msgs : msgs = {[type |-> "UPDATE", src |-> n, dst |-> r,
                           item |-> hints[n].item] : r \in Informed(n)}
  OBVIOUS
<1>5. net' = net \/ net' = Sent(net, msgs)
  BY <1>4 DEF OnHintTimer
<1>6. ASSUME NEW k \in net', k \notin net
      PROVE  k \in Updates /\ k.item \in Writings
  <2>1. k \in msgs
    BY <1>5, <1>6, SentIs
  <2>2. PICK r \in Replicas : k = [type |-> "UPDATE", src |-> n, dst |-> r, item |-> hints[n].item]
    BY <1>2, <1>4, <2>1 DEF Informed, Hints
  <2>3. hints[n].item \in Pairs /\ hints[n].item \in Writings
    BY <1>2 DEF Hints
  <2> QED
    BY <2>2, <2>3 DEF Updates
<1>7. net \subseteq net'
  BY <1>5, SentIs
<1> QED
  BY <1>1, <1>3, <1>6, <1>7 DEF HintTimerEffect

LEMMA HintTimerLasts ==
    ASSUME Lasting, Sound', NEW n \in Nodes, OnHintTimer(n)
    PROVE  Lasting'
<1>1. HintTimerEffect(n)
  BY HintTimerIs
<1>2. Steady
  BY <1>1, SameSteady DEF HintTimerEffect
<1>3. Carrying
  BY <1>1, <1>2 DEF HintTimerEffect, Carrying, Carried, Lasting, Faithful, Whole
<1> QED
  BY <1>3, CarryingLasts

LEMMA InitLasting == Init => Lasting
<1> SUFFICES ASSUME Init PROVE Lasting
  OBVIOUS
<1>1. Asking = {} /\ net = {} /\ Whole
  BY DEF Init, Asking, Whole
<1>2. \A n \in Nodes : data[n] = None /\ hints[n].item = None
  BY DEF Init, NoHint
<1> QED
  BY <1>1, <1>2, InitSound DEF Lasting, Faithful, Writings, Reaching, Writers

LEMMA StepLasting ==
    ASSUME MaxCuts = 0, Lasting, [Next]_vars
    PROVE  Lasting'
<1>1. Sound'
  BY StepSound DEF Lasting
<1>2. ASSUME NEW n \in Clients, NEW type \in Types, NEW value \in Values \cup {NoValue},
             NEW q \in Quorums, OnLocalMessage(n, type, value, q)
      PROVE  Lasting'
  BY <1>1, <1>2, LocalDoneIs, BegunIs, LocalLasts DEF Lasting, Sound
<1>3. ASSUME NEW m \in net, OnOperation(m)
      PROVE  Lasting'
  BY <1>1, <1>3, PerformedIs, OperationLasts DEF Lasting
<1>4. ASSUME NEW m \in net, OnResponse(m) \/ OnUpdate(m) \/ OnAck(m)
      PROVE  Lasting'
  BY <1>1, <1>4, ResponseLasts, UpdateLasts, AckLasts
<1>5. ASSUME NEW i \in Asking, OnEventTimer(i)
      PROVE  Lasting'
  BY <1>1, <1>5, EventTimerLasts
<1>6. ASSUME NEW n \in Nodes, OnHintTimer(n)
      PROVE  Lasting'
  BY <1>1, <1>6, HintTimerLasts
<1>7. ASSUME NEW n \in Nodes
      PROVE  ~Disconnect(n) /\ ~Connect(n)
  BY DEF Disconnect, Connect, Lasting, Whole
<1>8. CASE UNCHANGED vars
  <2>1. UNCHANGED <<data, events, floor, hints, net>> /\ Whole'
    BY <1>8 DEF vars, Lasting, Whole
  <2>2. Steady
    BY <2>1, SameSteady
  <2>3. Carrying
    BY <2>1, <2>2 DEF Carrying, Lasting, Faithful
  <2> QED
    BY <1>1, <2>3, CarryingLasts
<1> QED
  BY <1>2, <1>3, <1>4, <1>5, <1>6, <1>7, <1>8 DEF Next, Asking

\* Nothing under way is all that is needed of the hypothesis of LatestWinsAtRest: each
\* replica has what every request to write asked for, and nothing else is ever stored.
LEMMA RestIs == Lasting => LatestWinsAtRest
<1> SUFFICES ASSUME Lasting, net = {}, NEW r \in Replicas
             PROVE  data[r] = Latest(Writings)
  <2>1. Writings = {None} \cup {Asked(i) : i \in {j \in DOMAIN events : events[j].type # "GET"}}
    BY DEF Writings, Writers, Asking
  <2> QED
    BY <2>1 DEF LatestWinsAtRest
<1>1. Writings \subseteq Int \X Int /\ r \in Nodes /\ data[r] \in Writings
  BY AskedType, NodesAre DEF Lasting, Faithful
<1>2. ASSUME NEW p \in Writings
      PROVE  ~Less(data[r], p)
  <2>1. CASE p = None
    BY <1>1, <2>1, AskedType DEF Lasting
  <2>2. ASSUME NEW i \in Writers, p = Asked(i)
        PROVE  ~Less(data[r], p)
    BY <2>2 DEF Lasting, Reaching
  <2> QED
    BY <2>1, <2>2 DEF Writings
<1>3. IsLatest(Writings, data[r])
  BY <1>1, <1>2 DEF IsLatest
<1> QED
  BY <1>1, <1>3, LatestUnique

\* While nobody is cut off, the latest of all that was asked to be written is what every
\* replica has in the end, whenever the timers fire.
THEOREM LatestWinsAtRestHolds ==
    ASSUME MaxCuts = 0
    PROVE  Spec => []LatestWinsAtRest
  BY RestIs, InitLasting, StepLasting, PTL DEF Spec

-----------------------------------------------------------------------------
(* Nobody is cut off and no timer is early *)

\* Only a deletion goes to nodes that are no replicas, since only answers to a deletion
\* may be refused.
Placed(m) == IF m.type \in Operations THEN m.dst \in Replicas ELSE m.src \in Replicas
Near ==
    /\ \A m \in net \cap (Requests \cup Replies) : ~Deletes(m.id) => Placed(m)
    /\ \A i \in Asking : ~Deletes(i) => DOMAIN events[i].resp \subseteq Replicas

\* What the nodes have told the coordinator of i, the answers under way included.
Told(i) ==
    {<<m.src, ItemOf(m)>> : m \in {r \in net \cap Replies : r.id = i}}
    \cup {<<n, events[i].resp[n]>> : n \in DOMAIN events[i].resp}

\* A replica has what it has told, or has done the deletion.
Held ==
    \A i \in Asking : \A t \in Told(i) :
        t[1] \in Replicas => ~Less(data[t[1]], IF Deletes(i) THEN Asked(i) ELSE t[2])

\* Other nodes are asked to delete only when all replicas have done it.
Handed(i) ==
    \/ \E t \in Told(i) : t[1] \notin Replicas
    \/ \E m \in net \cap Requests : m.id = i /\ m.dst \notin Replicas
HandedOn == \A i \in Asking : Handed(i) => AllHave(Asked(i))

\* An open request waits for each replica or has its answer.
Awaits(i, r) ==
    \/ \E t \in Told(i) : t[1] = r
    \/ \E m \in net \cap Requests : m.id = i /\ m.dst = r
Waiting ==
    \A i \in Asking : events[i].open /\ ~Deletes(i) => \A r \in Replicas : Awaits(i, r)

\* Enough replicas for any quorum of i to meet had, when i began, what i must not miss.
Meets(i, W) ==
    /\ Cardinality(W) + events[i].quorum > N
    /\ \A n \in W : ~Less(data[n], floor[i])
    /\ \A t \in Told(i) : t[1] \in W => ~Less(t[2], floor[i])
Met == \A i \in Asking : ~Deletes(i) => \E W \in SUBSET Replicas : Meets(i, W)

\* A write that is answered is held by a quorum of the replicas.
Kept ==
    \A i \in DOMAIN answered :
        events[i].type # "GET" => Cardinality(HoldersOf(Written(i))) >= events[i].quorum

Quiet == early = 0

Inv == /\ Lasting /\ Quiet /\ Near /\ Held /\ HandedOn
       /\ Waiting /\ Met /\ Kept /\ QuorumsMeet

LEMMA ToldIs ==
    ASSUME NEW i, NEW t
    PROVE  t \in Told(i) <=>
               \/ \E m \in net \cap Replies : m.id = i /\ t = <<m.src, ItemOf(m)>>
               \/ \E n \in DOMAIN events[i].resp : t = <<n, events[i].resp[n]>>
  BY DEF Told

LEMMA ToldType ==
    ASSUME Sound, NEW i \in Asking, NEW t \in Told(i)
    PROVE  t[1] \in Nodes /\ t[2] \in Int \X Int
<1>1. ASSUME NEW m \in net \cap Replies, t = <<m.src, ItemOf(m)>>
      PROVE  t[1] \in Nodes /\ t[2] \in Int \X Int
  BY <1>1, NodesAre DEF Replies, ItemOf
<1>2. ASSUME NEW n \in DOMAIN events[i].resp, t = <<n, events[i].resp[n]>>
      PROVE  t[1] \in Nodes /\ t[2] \in Int \X Int
  <2>1. PICK resp, S : resp = events[i].resp /\ S \in SUBSET Nodes /\ resp \in [S -> Pairs]
    BY DEF Sound, Typing, Events
  <2>2. n \in S /\ resp[n] \in Pairs /\ t = <<n, resp[n]>>
    BY <1>2, <2>1
  <2> QED
    BY <2>1, <2>2 DEF Pairs
<1> QED
  BY <1>1, <1>2, ToldIs

LEMMA HeldStep ==
    ASSUME Sound, Sound', Steady, Held,
           \A i \in Asking : \A t \in Told(i)' :
               t \in Told(i) \/ (t[1] \in Replicas =>
                   ~Less(data'[t[1]], IF Deletes(i) THEN Asked(i) ELSE t[2]))
    PROVE  Held'
<1> SUFFICES ASSUME NEW i \in Asking, NEW t \in Told(i)', t[1] \in Replicas
             PROVE  ~Less(data'[t[1]], IF Deletes(i) THEN Asked(i) ELSE t[2])
  BY SteadyIs DEF Held, Steady
<1>1. CASE t \in Told(i)
  <2>1. PICK p : p = IF Deletes(i) THEN Asked(i) ELSE t[2]
    OBVIOUS
  <2>2. p \in Int \X Int /\ t[1] \in Nodes
    BY <1>1, <2>1, ToldType, AskedType
  <2>3. ~Less(data[t[1]], p)
    BY <1>1, <2>1 DEF Held
  <2> QED
    BY <2>1, <2>2, <2>3, DataGrows
<1> QED
  BY <1>1

LEMMA HandedStep ==
    ASSUME Sound, Sound', Steady, HandedOn,
           \A i \in Asking : Handed(i)' => Handed(i) \/ AllHave(Asked(i))
    PROVE  HandedOn'
<1>1. \A i \in Asking : AllHave(Asked(i)) => AllHave(Asked(i))'
  <2> SUFFICES ASSUME NEW i \in Asking, AllHave(Asked(i)) PROVE AllHave(Asked(i))'
    OBVIOUS
  <2>1. PICK p : p = Asked(i) /\ p \in Int \X Int /\ p = Asked(i)'
    BY AskedType, SteadyIs
  <2>2. AllHave(p) /\ AllHave(p)'
    BY <2>1, DataGrows
  <2> QED
    BY <2>1, <2>2 DEF AllHave
<1> QED
  BY <1>1 DEF HandedOn, Steady

LEMMA MetStep ==
    ASSUME Sound, Sound', Steady, Met,
           \A i \in Asking : ~Deletes(i) => \A t \in Told(i)' :
               \/ t \in Told(i)
               \/ t[1] \in Replicas => t[2] \in Int \X Int /\ ~Less(t[2], data[t[1]])
    PROVE  Met'
<1> SUFFICES ASSUME NEW i \in Asking, ~Deletes(i)
             PROVE  \E W \in SUBSET Replicas : Meets(i, W)'
  BY SteadyIs DEF Met, Steady
<1>1. PICK W \in SUBSET Replicas : Meets(i, W)
  BY DEF Met
<1>2. PICK f : f = floor[i] /\ f = floor'[i] /\ f \in Int \X Int
  BY DEF Steady, Sound, Typing, Pairs
<1>3. ASSUME NEW n \in W
      PROVE  n \in Nodes /\ n \in Replicas /\ data[n] \in Int \X Int /\ ~Less(data[n], f)
  <2>1. n \in Nodes /\ n \in Replicas
    BY NodesAre
  <2>2. data[n] \in Int \X Int
    BY <2>1 DEF Sound, Typing, Pairs
  <2> QED
    BY <1>1, <1>2, <2>1, <2>2 DEF Meets
<1>4. \A n \in W : ~Less(data'[n], f)
  BY <1>2, <1>3, DataGrows
<1>5. ASSUME NEW t \in Told(i)', t[1] \in W
      PROVE  ~Less(t[2], f)
  <2>1. CASE t \in Told(i)
    BY <1>1, <1>2, <1>5, <2>1 DEF Meets
  <2>2. CASE t[2] \in Int \X Int /\ ~Less(t[2], data[t[1]])
    BY <1>2, <1>3, <1>5, <2>2, LessTransitive
  <2> QED
    BY <1>3, <1>5, <2>1, <2>2
<1>6. Cardinality(W) + events'[i].quorum > N
  BY <1>1 DEF Meets, Steady
<1>7. Meets(i, W)'
  BY <1>2, <1>4, <1>5, <1>6 DEF Meets
<1> QED
  BY <1>7

LEMMA ReplicasCount == IsFiniteSet(Replicas) /\ Cardinality(Replicas) = 3
<1>1. PICK a \in Int, b \in Int : a = 0 /\ b = 2
  OBVIOUS
<1>2. IsFiniteSet(a .. b) /\ Cardinality(a .. b) = IF a > b THEN 0 ELSE b - a + 1
  BY FS_Interval
<1>3. Replicas = a .. b
  BY <1>1 DEF Replicas, N
<1> QED
  BY <1>1, <1>2, <1>3

LEMMA ReplicaSets ==
    ASSUME NEW V \in SUBSET Replicas
    PROVE  /\ IsFiniteSet(V) /\ Cardinality(V) \in Nat /\ Cardinality(V) <= 3
           /\ Cardinality(V) = 3 => V = Replicas
           /\ \A W \in SUBSET V : Cardinality(W) <= Cardinality(V)
<1>1. IsFiniteSet(V) /\ Cardinality(V) <= 3 /\ (Cardinality(V) = 3 => V = Replicas)
  BY ReplicasCount, FS_Subset
<1> QED
  BY <1>1, FS_CardinalityType, FS_Subset

\* Two sets of replicas that are larger together than N have one in common.
LEMMA ReplicasMeet ==
    ASSUME NEW V \in SUBSET Replicas, NEW W \in SUBSET Replicas,
           Cardinality(V) + Cardinality(W) > N
    PROVE  \E r \in Replicas : r \in V /\ r \in W
<1>1. SUFFICES ASSUME V \cap W = {} PROVE FALSE
  OBVIOUS
<1>2. PICK U : U = V \cup W /\ U \in SUBSET Replicas
  OBVIOUS
<1>3. Cardinality(U) = Cardinality(V) + Cardinality(W) - Cardinality({})
  BY <1>1, <1>2, ReplicaSets, FS_Union
<1>4. Cardinality({}) = 0 /\ Cardinality(U) <= 3
  BY <1>2, ReplicaSets, FS_EmptySet
<1>5. Cardinality(V) \in Nat /\ Cardinality(W) \in Nat
  BY ReplicaSets
<1> QED
  BY <1>3, <1>4, <1>5, NodesAre

\* What is kept of one answer.
KeptOf(i) == events[i].type # "GET" => Cardinality(HoldersOf(Written(i))) >= events[i].quorum

LEMMA KeptStep ==
    ASSUME Sound, Sound', Steady, NEW i \in DOMAIN answered, KeptOf(i), answered'[i] = answered[i]
    PROVE  KeptOf(i)'
<1>1. i \in Asking
  BY DEF Sound, Typing
<1>2. PICK p : p = Written(i) /\ p \in Int \X Int /\ p = Written(i)'
  <2>1. Written(i) \in Int \X Int
    BY WrittenType DEF Sound, Pairs
  <2>2. Written(i)' = Written(i)
    BY <1>1 DEF Written, Steady
  <2> QED
    BY <2>1, <2>2
<1>3. PICK H, G : H = HoldersOf(p) /\ G = HoldersOf(p)' /\ H \in SUBSET G /\ G \in SUBSET Replicas
  BY <1>2, DataGrows
<1>4. Cardinality(H) <= Cardinality(G) /\ Cardinality(H) \in Nat /\ Cardinality(G) \in Nat
  BY <1>3, ReplicaSets
<1>5. HoldersOf(Written(i)) = H /\ HoldersOf(Written(i))' = G
  BY <1>2, <1>3 DEF HoldersOf
<1>6. events'[i].type = events[i].type /\ events'[i].quorum = events[i].quorum /\ events[i].quorum \in Int
  BY <1>1 DEF Steady, Sound, Typing, Events
<1> QED
  BY <1>4, <1>5, <1>6 DEF KeptOf

\* No answer is sent.
LEMMA UnansweredStep ==
    ASSUME Sound, Sound', Steady, Kept, QuorumsMeet, answered' = answered
    PROVE  Kept' /\ QuorumsMeet'
<1>1. \A i \in DOMAIN answered : KeptOf(i)'
  BY KeptStep DEF Kept, KeptOf
<1>2. Kept'
  BY <1>1 DEF Kept, KeptOf
<1>3. DOMAIN answered \subseteq Asking
  BY DEF Sound, Typing
<1>4. QuorumsMeet'
  BY <1>3 DEF QuorumsMeet, Steady
<1> QED
  BY <1>2, <1>4

LEMMA NearStep ==
    ASSUME Sound, Steady, Near,
           \A m \in net' \cap (Requests \cup Replies) :
               m \in net \/ (m.id \in Asking /\ (~Deletes(m.id) => Placed(m))),
           \A i \in Asking : ~Deletes(i) => DOMAIN events'[i].resp \subseteq Replicas
    PROVE  Near'
<1>1. \A i \in Asking : Deletes(i)' <=> Deletes(i)
  BY SteadyIs
<1>2. \A m \in net \cap (Requests \cup Replies) : m.id \in Asking
  BY DEF Sound, Addressed
<1> QED
  BY <1>1, <1>2 DEF Near, Placed, Steady

-----------------------------------------------------------------------------
(* These steps *)

LEMMA AnsweredTold ==
    ASSUME NEW m \in net, NEW r, Answered(m, r), events' = events, NEW i
    PROVE  /\ \A t \in Told(i)' : t \in Told(i) \/ (i = m.id /\ t = <<m.dst, ItemOf(r)>>)
           /\ Told(i) \subseteq Told(i)'
           /\ i = m.id => <<m.dst, ItemOf(r)>> \in Told(i)'
<1>1. \A k \in net' \cap Replies : k \in net \cap Replies \/ k = r
  BY DEF Answered
<1>2. \A k \in net \cap Replies : k \in net' \cap Replies
  BY DEF Answered
<1>3. r \in net' \cap Replies /\ r.id = m.id /\ r.src = m.dst
  BY DEF Answered
<1> QED
  BY <1>1, <1>2, <1>3 DEF Told

LEMMA OperationInv ==
    ASSUME Inv, Lasting', NEW m \in net, m \in Requests, NEW a, Performed(m, a)
    PROVE  Inv'
<1> Lasting /\ Sound /\ Sound'
  BY DEF Inv, Lasting
<1>1. PICK r : Answered(m, r)
  BY AnsweredIs
<1>2. Steady
  BY OperationSteady
<1>3. PICK n : n = m.dst /\ n \in Nodes /\ EffectOf(n, m) /\ Stored(n) \in Writings
  BY <1>1, EffectIs DEF Answered
<1>4. events' = events
  BY DEF Performed
<1>5. /\ UNCHANGED <<events, answered>> /\ Quiet'
      /\ \A k \in Nodes : data'[k] = IF k = n /\ k \in Replicas THEN Effect(k, m) ELSE data[k]
  BY <1>3 DEF Performed, Inv, Quiet, bounds
<1>6. m.type \in Operations /\ m.id \in Asking /\ Genuine(m)
  BY DEF Lasting, Sound, Addressed, Faithful, Requests
<1>7. Writings \subseteq Int \X Int
  BY AskedType DEF Inv
<1>8. Held'
  <2>1. ASSUME NEW i \in Asking, NEW t \in Told(i)', t \notin Told(i), t[1] \in Replicas
        PROVE  ~Less(data'[t[1]], IF Deletes(i) THEN Asked(i) ELSE t[2])
    <3>1. i = m.id /\ t = <<m.dst, ItemOf(r)>>
      BY <1>4, <1>1, <2>1, AnsweredTold
    <3>2. i = m.id /\ t = <<n, ItemOf(r)>> /\ n \in Replicas /\ data'[n] = Effect(n, m)
      BY <1>3, <1>5, <2>1, <3>1
    <3>3. CASE m.type = "DELETE"
      BY <1>3, <3>2, <3>3 DEF EffectOf
    <3>4. CASE m.type # "DELETE"
      <4>1. ~Deletes(i) /\ ItemOf(r) = Answer(n, m) /\ (m.type = "GET" => Stored(n) = data[n])
        BY <1>1, <1>3, <1>6, <3>2, <3>4 DEF Genuine, Answered, Operations, Stored
      <4>2. data[n] \in Int \X Int /\ Effect(n, m) \in Int \X Int
        BY <1>3, <1>7 DEF EffectOf, Lasting, Faithful
      <4>3. ~Less(Effect(n, m), Answer(n, m))
        BY <1>3, <1>6, <3>2, <3>4, <4>1, <4>2, LessIs DEF EffectOf, Operations
      <4> QED
        BY <3>2, <4>1, <4>3
    <3> QED
      BY <3>3, <3>4
  <2> QED
    BY <1>2, <2>1, HeldStep DEF Inv
<1>9. HandedOn'
  <2>1. ASSUME NEW i \in Asking, Handed(i)'
        PROVE  Handed(i)
    <3>1. CASE \E t \in Told(i)' : t[1] \notin Replicas
      <4>1. PICK t \in Told(i)' : t[1] \notin Replicas
        BY <3>1
      <4>2. t \in Told(i) \/ (i = m.id /\ t = <<m.dst, ItemOf(r)>>)
        BY <1>1, <1>5, AnsweredTold
      <4> QED
        BY <4>1, <4>2 DEF Handed
    <3>2. CASE \E k \in net' \cap Requests : k.id = i /\ k.dst \notin Replicas
      <4>1. r \notin Requests
        BY <1>1 DEF Answered, Requests, Replies, Operations, Responses
      <4> QED
        BY <1>1, <3>2, <4>1 DEF Handed, Answered
    <3> QED
      BY <2>1, <3>1, <3>2 DEF Handed
  <2> QED
    BY <1>2, <2>1, HandedStep DEF Inv
<1>10. Waiting'
  <2>1. ASSUME NEW i \in Asking, NEW k \in Replicas, Awaits(i, k)
        PROVE  Awaits(i, k)'
    <3>1. CASE \E t \in Told(i) : t[1] = k
      BY <1>1, <1>5, <3>1, AnsweredTold DEF Awaits
    <3>2. ASSUME NEW q \in net \cap Requests, q.id = i, q.dst = k
          PROVE  Awaits(i, k)'
      <4>1. CASE q = m
        <5>1. PICK t : t = <<m.dst, ItemOf(r)>>
          OBVIOUS
        <5>2. t \in Told(i)' /\ t[1] = k
          BY <1>1, <1>5, <3>2, <4>1, <5>1, AnsweredTold
        <5> QED
          BY <5>2 DEF Awaits
      <4>2. CASE q # m
        BY <1>1, <3>2, <4>2 DEF Awaits, Answered
      <4> QED
        BY <4>1, <4>2
    <3> QED
      BY <2>1, <3>1, <3>2 DEF Awaits
  <2> QED
    BY <1>2, <1>5, <2>1, SteadyIs DEF Inv, Waiting, Steady
<1>11. Met'
  <2>1. ASSUME NEW i \in Asking, ~Deletes(i), NEW t \in Told(i)', t \notin Told(i), t[1] \in Replicas
        PROVE  t[2] \in Int \X Int /\ ~Less(t[2], data[t[1]])
    <3>1. i = m.id /\ t = <<m.dst, ItemOf(r)>>
      BY <1>4, <1>1, <2>1, AnsweredTold
    <3>2. i = m.id /\ t = <<n, ItemOf(r)>> /\ n \in Replicas
      BY <1>3, <2>1, <3>1
    <3>3. m.type \in {"GET", "PUT"}
      BY <1>3, <1>6, <2>1, <3>2 DEF EffectOf, Operations
    <3>4. t[2] = Answer(n, m) /\ (m.type = "GET" => Stored(n) = data[n])
      BY <1>1, <1>3, <3>2, <3>3 DEF Answered, Stored
    <3>5. data[n] \in Int \X Int /\ Effect(n, m) \in Int \X Int
      BY <1>3, <1>7 DEF EffectOf, Lasting, Faithful
    <3> QED
      BY <1>3, <3>2, <3>3, <3>4, <3>5, LessIs DEF EffectOf
  <2> QED
    BY <1>2, <2>1, MetStep DEF Inv
<1>12. Kept' /\ QuorumsMeet'
  BY <1>2, <1>5, UnansweredStep DEF Inv
<1>13. Near'
  <2>1. ~Deletes(m.id) => m.dst \in Replicas
    BY <1>6 DEF Inv, Near, Placed
  <2>2. ~Deletes(m.id) => Placed(r)
    BY <1>1, <2>1 DEF Answered, Placed, Replies, Operations, Responses
  <2>3. \A k \in net' : k \in net \/ k = r
    BY <1>1 DEF Answered
  <2>4. r.id \in Asking
    BY <1>1 DEF Answered
  <2> QED
    BY <1>1, <1>2, <1>5, <2>2, <2>3, <2>4, NearStep DEF Inv, Near, Answered
<1> QED
  BY <1>5, <1>8, <1>9, <1>10, <1>11, <1>12, <1>13 DEF Inv

LEMMA LocalInv ==
    ASSUME Inv, Lasting', NEW i, NEW e, Begun(i, e)
    PROVE  Inv'
<1> Lasting /\ Sound /\ Sound'
  BY DEF Inv, Lasting
<1>1. /\ i \notin Asking /\ Asking' = Asking \cup {i} /\ e = events'[i] /\ e \in Events
      /\ \A j \in Asking : events'[j] = events[j] /\ floor'[j] = floor[j]
      /\ UNCHANGED <<data, hints, answered>> /\ UNCHANGED <<cut, cuts, early>>
      /\ \A k \in net' : k \in net \/ \E r \in Replicas : k = Asks(e, i, r)
      /\ net \subseteq net'
  BY DEF Begun
<1>2. \A r \in Replicas : First(i, r)' = Asks(e, i, r) /\ Asks(e, i, r) \in net'
  BY DEF Begun, First
<1>3. \A j \in Asking : /\ Asked(j)' = Asked(j) /\ (Deletes(j)' <=> Deletes(j))
                        /\ \A r \in Replicas : First(j, r)' = First(j, r)
                        /\ j \in Writers <=> j \in Writers'
  BY <1>1 DEF Asked, Deletes, First, Writers
<1>4. Writings \subseteq Writings'
  BY <1>1, <1>3 DEF Writings, Writers
<1>5. \A k \in net' \cap Replies : k \in net /\ k.id \in Asking
  BY <1>1 DEF Begun, Sound, Addressed
<1>6. Told(i)' = {} /\ \A j \in Asking : Told(j)' = Told(j)
  <2>1. Told(i)' = {}
    BY <1>1, <1>5 DEF Told, Begun
  <2>2. \A j \in Asking : Told(j)' = Told(j)
    <3>1. net' \cap Replies = net \cap Replies
      BY <1>1, <1>5
    <3> QED
      BY <1>1, <3>1 DEF Told
  <2> QED
    BY <2>1, <2>2
<1>7. Held'
  BY <1>1, <1>3, <1>6 DEF Inv, Held
<1>8. HandedOn'
  <2>1. ~Handed(i)'
    <3>1. \A k \in net' \cap Requests : k.id = i => k.dst \in Replicas
      BY <1>1 DEF Begun, Sound, Addressed
    <3> QED
      BY <1>6, <3>1 DEF Handed
  <2>2. ASSUME NEW j \in Asking, Handed(j)'
        PROVE  AllHave(Asked(j))'
    <3>1. Handed(j)
      BY <1>1, <1>6, <2>2 DEF Handed, Begun
    <3> QED
      BY <1>1, <1>3, <3>1 DEF Inv, HandedOn, AllHave
  <2> QED
    BY <1>1, <2>1, <2>2 DEF HandedOn
<1>9. Waiting'
  <2>1. \A r \in Replicas : Awaits(i, r)'
    BY <1>2 DEF Awaits, Begun
  <2>2. ASSUME NEW j \in Asking, NEW r \in Replicas, Awaits(j, r)
        PROVE  Awaits(j, r)'
    BY <1>1, <1>6, <2>2 DEF Awaits
  <2> QED
    BY <1>1, <1>3, <2>1, <2>2 DEF Inv, Waiting
<1>10. \A j \in DOMAIN answered : j \in Asking /\ Written(j)' = Written(j)
  BY <1>1 DEF Sound, Typing, Written
<1>11. Met'
  <2>1. ASSUME NEW j \in Asking, ~Deletes(j)
        PROVE  \E W \in SUBSET Replicas : Meets(j, W)'
    BY <1>1, <1>6, <2>1 DEF Inv, Met, Meets
  <2>2. \E W \in SUBSET Replicas : Meets(i, W)'
    <3>1. PICK f, q : f = floor'[i] /\ f = FloorOf(q) /\ q = e.quorum /\ q \in 1 .. N
      BY DEF Begun, Events
    <3>2. ASSUME NEW W \in SUBSET Replicas, Cardinality(W) + q > N, \A n \in W : ~Less(data[n], f)
          PROVE  Meets(i, W)'
      BY <1>1, <1>6, <3>1, <3>2 DEF Meets
    <3>3. CASE f = None
      <4>1. \A n \in Replicas : ~Less(data[n], f)
        BY <3>3, AskedType, NodesAre DEF Lasting, Faithful
      <4>2. Cardinality(Replicas) + q > N
        BY <3>1, ReplicasCount, NodesAre
      <4>3. Meets(i, Replicas)'
        BY <3>2, <4>1, <4>2
      <4> QED
        BY <4>3
    <3>4. ASSUME NEW j \in DOMAIN answered,
                 events[j].type # "GET", events[j].quorum + q > N, f = Written(j)
          PROVE  \E W \in SUBSET Replicas : Meets(i, W)'
      <4>1. PICK W : W = HoldersOf(f) /\ W \in SUBSET Replicas /\ Cardinality(W) >= events[j].quorum
        BY <3>4 DEF Inv, Kept, HoldersOf
      <4>2. \A n \in W : ~Less(data[n], f)
        BY <4>1 DEF HoldersOf
      <4>3. Cardinality(W) + q > N
        <5>1. events[j] \in Events
          BY <1>10 DEF Sound, Typing
        <5>2. PICK c, d : c = Cardinality(W) /\ c \in Nat /\ d = events[j].quorum /\ d \in Int
          BY <4>1, <5>1, ReplicaSets DEF Events
        <5>3. q \in Int /\ c >= d /\ d + q > N /\ N = 3
          BY <3>1, <3>4, <4>1, <5>2, NodesAre
        <5>4. c + q > N
          BY <5>2, <5>3
        <5> QED
          BY <5>2, <5>4
      <4> QED
        BY <3>2, <4>1, <4>2, <4>3
    <3> QED
      BY <3>1, <3>3, <3>4, FloorOfIs DEF FloorIs, Sound
  <2> QED
    BY <1>1, <1>3, <2>1, <2>2 DEF Met
<1>12. Kept'
  BY <1>1, <1>10 DEF Inv, Kept, HoldersOf
<1>13. QuorumsMeet'
  BY <1>1, <1>10 DEF Inv, QuorumsMeet
<1>14. Near'
  <2>1. ASSUME NEW k \in net' \cap (Requests \cup Replies), ~Deletes(k.id)'
        PROVE  Placed(k)
    <3>1. CASE k \in net
      <4>1. k.id \in Asking
        BY <2>1, <3>1 DEF Sound, Addressed
      <4> QED
        BY <1>3, <2>1, <3>1, <4>1 DEF Inv, Near
    <3>2. ASSUME NEW r \in Replicas, k = Asks(e, i, r)
          PROVE  Placed(k)
      BY <3>2 DEF Begun, Placed, Requests
    <3> QED
      BY <1>1, <2>1, <3>1, <3>2
  <2>2. \A j \in Asking' : ~Deletes(j)' => DOMAIN events'[j].resp \subseteq Replicas
    BY <1>1, <1>3 DEF Inv, Near, Begun
  <2> QED
    BY <2>1, <2>2 DEF Near, Placed
<1> QED
  BY <1>1, <1>7, <1>8, <1>9, <1>11, <1>12, <1>13, <1>14 DEF Inv, Quiet

\* What is counted has been told.
LEMMA AllTold ==
    ASSUME NEW m \in net, Counted(m)
    PROVE  \A n \in DOMAIN All(m) : <<n, All(m)[n]>> \in Told(m.id)
<1> SUFFICES ASSUME NEW n \in DOMAIN All(m) PROVE <<n, All(m)[n]>> \in Told(m.id)
  OBVIOUS
<1> QED
  BY DEF Counted, CountedBy, Told

\* Nothing more is told by counting it.
LEMMA CountTold ==
    ASSUME NEW m \in net, Counted(m), CountEffect(m)
    PROVE  /\ \A n \in DOMAIN All(m) : <<n, All(m)[n]>> \in Told(m.id)
           /\ \A i \in Asking : \A t \in Told(i)' : t \in Told(i)
           /\ \A i \in Asking : \A t \in Told(i) : t \in Told(i)' \/ (i = m.id /\ t[1] \in DOMAIN All(m))
           /\ \A n \in DOMAIN Left(m) : <<n, Left(m)[n]>> \in Told(m.id)'
<1>1. m \in Replies /\ m.id \in Asking
  BY DEF Counted, CountedBy
<1>2. ASSUME NEW n \in DOMAIN All(m)
      PROVE  <<n, All(m)[n]>> \in Told(m.id)
  BY <1>2, AllTold
<1>3. \A k \in net' \cap Replies : k \in net \cap Replies
  <2>1. \A k \in Repairs(m) : k \in Requests
    BY RepairingIs DEF Repairing
  <2>2. \A k \in Requests : k \notin Replies
    BY DEF Requests, Replies, Operations, Responses
  <2> QED
    BY <2>1, <2>2 DEF CountEffect
<1>4. \A n \in DOMAIN Left(m) : n \in DOMAIN All(m) /\ Left(m)[n] = All(m)[n]
  BY DEF Counted, CountedBy
<1>5. ASSUME NEW i \in Asking, NEW t \in Told(i)'
      PROVE  t \in Told(i)
  <2>1. CASE \E k \in net' \cap Replies : k.id = i /\ t = <<k.src, ItemOf(k)>>
    BY <1>3, <2>1, ToldIs
  <2>2. ASSUME NEW n \in DOMAIN events'[i].resp, t = <<n, events'[i].resp[n]>>
        PROVE  t \in Told(i)
    <3>1. CASE i = m.id
      <4>1. n \in DOMAIN All(m) /\ t = <<n, All(m)[n]>>
        BY <1>4, <2>2, <3>1 DEF CountEffect
      <4> QED
        BY <1>2, <3>1, <4>1
    <3>2. CASE i # m.id
      <4>1. events'[i].resp = events[i].resp
        BY <3>2 DEF CountEffect
      <4> QED
        BY <2>2, <4>1, ToldIs
    <3> QED
      BY <3>1, <3>2
  <2>3. \/ \E k \in net' \cap Replies : k.id = i /\ t = <<k.src, ItemOf(k)>>
        \/ \E n \in DOMAIN events'[i].resp : t = <<n, events'[i].resp[n]>>
    BY <1>5 DEF Told
  <2> QED
    BY <2>1, <2>2, <2>3
<1>6. ASSUME NEW i \in Asking, NEW t \in Told(i)
      PROVE  t \in Told(i)' \/ (i = m.id /\ t[1] \in DOMAIN All(m))
  <2>1. ASSUME NEW k \in net \cap Replies, k.id = i, t = <<k.src, ItemOf(k)>>
        PROVE  t \in Told(i)' \/ (i = m.id /\ t[1] \in DOMAIN All(m))
    <3>1. CASE k = m
      BY <2>1, <3>1 DEF Counted, CountedBy
    <3>2. CASE k # m
      BY <2>1, <3>2 DEF Told, CountEffect
    <3> QED
      BY <3>1, <3>2
  <2>2. ASSUME NEW n \in DOMAIN events[i].resp, t = <<n, events[i].resp[n]>>
        PROVE  t \in Told(i)' \/ (i = m.id /\ t[1] \in DOMAIN All(m))
    <3>1. CASE i = m.id
      BY <2>2, <3>1 DEF Counted, CountedBy
    <3>2. CASE i # m.id
      <4>1. events'[i].resp = events[i].resp
        BY <3>2 DEF CountEffect
      <4> QED
        BY <2>2, <4>1 DEF Told
    <3> QED
      BY <3>1, <3>2
  <2> QED
    BY <2>1, <2>2, <1>6, ToldIs
<1>7. ASSUME NEW n \in DOMAIN Left(m)
      PROVE  <<n, Left(m)[n]>> \in Told(m.id)'
  <2>1. events'[m.id].resp = Left(m)
    BY <1>1 DEF CountEffect
  <2> QED
    BY <1>7, <2>1 DEF Told
<1> QED
  BY <1>2, <1>5, <1>6, <1>7

\* The best answer of a request that is no deletion, and who has it.
BestIs(m) ==
    /\ DOMAIN All(m) \subseteq Replicas
    /\ DOMAIN Left(m) \subseteq HoldersOf(Best(m))
    /\ Decides(m) => Cardinality(DOMAIN Left(m)) >= events[m.id].quorum

LEMMA BestHeld ==
    ASSUME Inv, NEW m \in net, Counted(m), ~Deletes(m.id)
    PROVE  BestIs(m)
<1> Lasting
  BY DEF Inv
<1>1. m \in Replies /\ m.id \in Asking /\ Placed(m) /\ DOMAIN events[m.id].resp \subseteq Replicas
  BY DEF Counted, CountedBy, Inv, Near
<1>2. m.src \in Replicas
  BY <1>1 DEF Placed, Replies, Operations, Responses
<1>3. DOMAIN All(m) \subseteq Replicas
  BY <1>1, <1>2 DEF Counted, CountedBy
<1>4. ASSUME NEW n \in DOMAIN Left(m)
      PROVE  n \in HoldersOf(Best(m))
  <2>1. n \in DOMAIN All(m) /\ All(m)[n] = Best(m) /\ n \in Replicas
    BY <1>3, <1>4 DEF Counted, CountedBy
  <2>2. PICK t : t = <<n, All(m)[n]>>
    OBVIOUS
  <2>3. t \in Told(m.id) /\ t[1] = n /\ t[2] = Best(m)
    BY <2>1, <2>2, AllTold
  <2>4. ~Less(data[n], Best(m))
    BY <1>1, <2>1, <2>3 DEF Inv, Held
  <2> QED
    BY <2>1, <2>4 DEF HoldersOf
<1>5. Decides(m) => Cardinality(DOMAIN Left(m)) >= events[m.id].quorum
  BY DEF Decides, QuorumReached
<1> QED
  BY <1>3, <1>4, <1>4, <1>5 DEF BestIs

\* A deletion that is answered has been done by a quorum of the replicas.
LEMMA DeletionHeld ==
    ASSUME Inv, NEW m \in net, Counted(m), Deletes(m.id), Decides(m)
    PROVE  Cardinality(HoldersOf(Asked(m.id))) >= events[m.id].quorum
<1> Lasting /\ Sound
  BY DEF Inv, Lasting
<1>1. m \in Replies /\ m.id \in Asking
  BY DEF Counted, CountedBy
<1>2. PICK L, H, q : /\ L = DOMAIN Left(m) /\ H = HoldersOf(Asked(m.id)) /\ H \in SUBSET Replicas
                     /\ q = events[m.id].quorum /\ q \in Int /\ q <= 3 /\ Cardinality(L) >= q
  <2>1. events[m.id].quorum \in Int /\ events[m.id].quorum <= 3
    <3>1. events[m.id].quorum \in 1 .. N
      BY <1>1 DEF Sound, Typing, Events
    <3> QED
      BY <3>1, NodesAre
  <2> QED
    BY <2>1 DEF HoldersOf, Decides, QuorumReached
<1>3. \A n \in L : <<n, All(m)[n]>> \in Told(m.id)
  BY <1>2, AllTold DEF Counted, CountedBy
<1>4. CASE L \subseteq Replicas
  <2>1. ASSUME NEW n \in L
        PROVE  n \in H
    <3>1. PICK t : t = <<n, All(m)[n]>>
      OBVIOUS
    <3>2. t \in Told(m.id) /\ t[1] = n /\ n \in Replicas
      BY <1>3, <1>4, <2>1, <3>1
    <3>3. ~Less(data[n], Asked(m.id))
      BY <1>1, <3>2 DEF Inv, Held
    <3> QED
      BY <1>2, <3>2, <3>3 DEF HoldersOf
  <2>2. L \in SUBSET H
    BY <2>1
  <2>3. PICK c, d : /\ c = Cardinality(L) /\ d = Cardinality(H)
                    /\ c \in Nat /\ d \in Nat /\ c <= d
    BY <1>2, <1>4, <2>2, ReplicaSets
  <2>4. d >= q
    BY <1>2, <2>3
  <2> QED
    BY <1>2, <2>3, <2>4
<1>5. CASE ~(L \subseteq Replicas)
  <2>1. PICK n \in L : n \notin Replicas
    BY <1>5
  <2>2. PICK t : t = <<n, All(m)[n]>>
    OBVIOUS
  <2>3. AllHave(Asked(m.id))
    <3>1. t \in Told(m.id) /\ t[1] \notin Replicas
      BY <1>3, <2>1, <2>2
    <3> QED
      BY <1>1, <3>1 DEF Inv, HandedOn, Handed
  <2>4. H = Replicas
    BY <1>2, <2>3 DEF AllHave, HoldersOf
  <2>5. Cardinality(H) = 3
    BY <2>4, ReplicasCount
  <2> QED
    BY <1>2, <2>5
<1> QED
  BY <1>4, <1>5

LEMMA CountInv ==
    ASSUME Inv, Lasting', NEW m \in net, Counted(m), CountDone(m)
    PROVE  Inv'
<1> Lasting /\ Sound /\ Sound'
  BY DEF Inv, Lasting
<1>1. CountEffect(m)
  BY CountEffectIs
<1>2. Steady /\ data' = data /\ hints' = hints /\ Quiet' /\ m \notin Requests
  BY <1>1 DEF CountEffect, Inv, Quiet
<1>3. m \in Replies /\ m.id \in Asking /\ Genuine(m)
  BY DEF Counted, CountedBy, Lasting, Faithful
<1>4. /\ Deletes(m.id) <=> m.type = "DELETE_RESP"
      /\ Deletes(m.id) => m.time = events[m.id].time /\ m.id \in Writers
  BY <1>3 DEF Genuine, Deletes, Writers, Replies, Responses
<1>5. \A k \in net' : k \in net \/ Repairing(m, k)
  BY <1>1, RepairingIs DEF CountEffect
<1>6. \A n \in Stale(m) : n \in DOMAIN All(m)
  BY DEF Stale
<1>7. Held'
  BY <1>1, <1>2, CountTold, HeldStep DEF Inv
<1>8. HandedOn'
  <2>1. ASSUME NEW i \in Asking, Handed(i)'
        PROVE  Handed(i)
    <3>1. CASE \E t \in Told(i)' : t[1] \notin Replicas
      BY <1>1, <3>1, CountTold DEF Handed
    <3>2. ASSUME NEW k \in net' \cap Requests, k.id = i, k.dst \notin Replicas
          PROVE  Handed(i)
      <4>1. CASE k \in net
        BY <3>2, <4>1 DEF Handed
      <4>2. CASE Repairing(m, k)
        <5>1. PICK t : t = <<k.dst, All(m)[k.dst]>>
          OBVIOUS
        <5>2. t \in Told(i) /\ t[1] \notin Replicas
          BY <1>6, <3>2, <4>2, <5>1, AllTold DEF Repairing
        <5> QED
          BY <5>2 DEF Handed
      <4> QED
        BY <1>5, <4>1, <4>2
    <3> QED
      BY <2>1, <3>1, <3>2 DEF Handed
  <2> QED
    BY <1>2, <2>1, HandedStep DEF Inv
<1>9. Waiting'
  <2>1. ASSUME NEW i \in Asking, NEW r \in Replicas, Awaits(i, r)
        PROVE  Awaits(i, r)'
    <3>1. ASSUME NEW t \in Told(i), t[1] = r
          PROVE  Awaits(i, r)'
      <4>1. CASE t \in Told(i)'
        BY <3>1, <4>1 DEF Awaits
      <4>2. CASE i = m.id /\ r \in DOMAIN Left(m)
        <5>1. PICK u : u = <<r, Left(m)[r]>>
          OBVIOUS
        <5>2. u \in Told(i)' /\ u[1] = r
          BY <1>1, <4>2, <5>1, CountTold
        <5> QED
          BY <5>2 DEF Awaits
      <4>3. CASE i = m.id /\ r \in Stale(m)
        <5>1. PICK k \in Repairs(m) : k.dst = r
          BY <4>3, RepairingIs
        <5>2. k \in net' \cap Requests /\ k.id = i
          BY <1>1, <4>3, RepairingIs DEF CountEffect, Repairing
        <5> QED
          BY <5>1, <5>2 DEF Awaits
      <4>4. t \in Told(i)' \/ (i = m.id /\ r \in DOMAIN All(m))
        BY <1>1, <3>1, CountTold
      <4>5. r \in DOMAIN All(m) => r \in DOMAIN Left(m) \/ r \in Stale(m)
        BY DEF Counted, CountedBy
      <4> QED
        BY <4>1, <4>2, <4>3, <4>4, <4>5
    <3>2. CASE \E k \in net \cap Requests : k.id = i /\ k.dst = r
      BY <1>1, <3>2 DEF Awaits, CountEffect
    <3> QED
      BY <2>1, <3>1, <3>2 DEF Awaits
  <2>2. \A i \in Asking : events'[i].open = events[i].open
    BY <1>1 DEF CountEffect
  <2> QED
    BY <1>2, <2>1, <2>2, SteadyIs DEF Inv, Waiting, Steady
<1>10. Met'
  BY <1>1, <1>2, CountTold, MetStep DEF Inv
<1>11. ASSUME NEW i \in DOMAIN answered'
       PROVE  KeptOf(i)' /\ (events'[i].type # "DELETE" => ~Less(answered'[i], floor'[i]))
  <2>1. CASE i \in DOMAIN answered /\ answered'[i] = answered[i]
    <3>1. i \in Asking /\ KeptOf(i)
      BY <2>1 DEF Inv, Sound, Typing, Kept, KeptOf
    <3>2. KeptOf(i)'
      BY <1>2, <2>1, <3>1, KeptStep DEF Inv
    <3> QED
      BY <1>2, <2>1, <3>1, <3>2 DEF Inv, QuorumsMeet, Steady
  <2>2. CASE i = m.id /\ Decides(m) /\ answered'[i] = Best(m)
    <3>1. PICK q : /\ q = events[i].quorum /\ q = events'[i].quorum /\ q \in Int
                   /\ events'[i].type = events[i].type
      BY <1>2, <1>3, <2>2 DEF Sound, Typing, Events, Steady
    <3>2. CASE Deletes(i)
      <4>1. Written(i)' = Asked(i)
        BY <1>2, <1>3, <2>2, <3>2 DEF Written, Asked, Deletes, Steady
      <4>2. Cardinality(HoldersOf(Asked(i))) >= q
        BY <2>2, <3>1, <3>2, DeletionHeld
      <4>3. PICK p : p = Asked(i) /\ p = Written(i)'
        BY <4>1
      <4>4. HoldersOf(p)' = HoldersOf(p)
        BY <1>2 DEF HoldersOf
      <4>5. HoldersOf(Written(i))' = HoldersOf(Asked(i))
        BY <4>3, <4>4 DEF HoldersOf
      <4> QED
        BY <3>1, <3>2, <4>2, <4>5 DEF KeptOf, Deletes
    <3>3. CASE ~Deletes(i)
      <4>1. PICK L, p, H : /\ L = DOMAIN Left(m) /\ p = Best(m) /\ H = HoldersOf(p)
                           /\ L \in SUBSET H /\ H \in SUBSET Replicas /\ Cardinality(L) >= q
        BY <2>2, <3>1, <3>3, BestHeld DEF BestIs, HoldersOf
      <4>2. PICK c, d : c = Cardinality(L) /\ d = Cardinality(H) /\ c \in Nat /\ d \in Nat /\ c <= d
        BY <4>1, ReplicaSets
      <4>3. KeptOf(i)'
        <5>1. Written(i)' = p
          BY <2>2, <3>1, <3>3, <4>1 DEF Written, Deletes
        <5>2. HoldersOf(Written(i))' = H
          BY <1>2, <4>1, <5>1 DEF HoldersOf
        <5>3. d >= q
          BY <3>1, <4>1, <4>2
        <5> QED
          BY <3>1, <4>2, <5>2, <5>3 DEF KeptOf
      <4>4. PICK W \in SUBSET Replicas : Meets(i, W)
        BY <1>3, <2>2, <3>3 DEF Inv, Met
      <4>5. PICK w : w = Cardinality(W) /\ w \in Nat /\ w + q > N
        BY <3>1, <4>4, ReplicaSets DEF Meets
      <4>6. w + c > N
        BY <3>1, <4>1, <4>2, <4>5, NodesAre
      <4>7. PICK r \in Replicas : r \in W /\ r \in L
        BY <4>1, <4>2, <4>5, <4>6, ReplicasMeet
      <4>8. PICK t : t = <<r, All(m)[r]>>
        OBVIOUS
      <4>9. t \in Told(i) /\ t[1] = r /\ t[2] = p
        BY <2>2, <4>1, <4>7, <4>8, AllTold DEF Counted, CountedBy
      <4>10. ~Less(p, floor[i])
        BY <4>4, <4>7, <4>9 DEF Meets
      <4> QED
        BY <1>2, <2>2, <4>1, <4>3, <4>10 DEF Steady
    <3> QED
      BY <3>2, <3>3
  <2> QED
    BY <1>1, <2>1, <2>2 DEF CountEffect
<1>12. Kept' /\ QuorumsMeet'
  BY <1>11 DEF Kept, KeptOf, QuorumsMeet
<1>13. Near'
  <2>1. ASSUME NEW k, Repairing(m, k), ~Deletes(m.id)
        PROVE  Placed(k)
    BY <1>6, <2>1, BestHeld DEF Repairing, BestIs, Placed, Requests
  <2>2. ASSUME NEW i \in Asking, ~Deletes(i)
        PROVE  DOMAIN events'[i].resp \subseteq Replicas
    <3>1. CASE i # m.id
      <4>1. events'[i].resp = events[i].resp
        BY <1>1, <3>1 DEF CountEffect
      <4> QED
        BY <2>2, <4>1 DEF Inv, Near
    <3>2. CASE i = m.id
      <4>1. events'[i].resp = Left(m)
        BY <1>1, <3>2 DEF CountEffect
      <4> QED
        BY <2>2, <3>2, <4>1, BestHeld DEF BestIs, Counted, CountedBy
    <3> QED
      BY <3>1, <3>2
  <2>3. \A k : Repairing(m, k) => k.id = m.id
    BY DEF Repairing
  <2> QED
    BY <1>2, <1>3, <1>5, <2>1, <2>2, <2>3, NearStep DEF Inv
<1> QED
  BY <1>2, <1>7, <1>8, <1>9, <1>10, <1>12, <1>13 DEF Inv

-----------------------------------------------------------------------------
(* The other steps bring the coordinators no news *)

\* A request is sent to other nodes when all replicas have done it; an answer is lost only
\* if its request is a deletion or has been dropped.
Harmless(k) ==
    \/ k \in Updates \cup Acks
    \/ /\ k \in Requests /\ k.id \in Asking /\ (Deletes(k.id) \/ Placed(k))
       /\ k.dst \in Replicas \/ AllHave(Asked(k.id))
Unneeded(k) ==
    \/ k \in Updates \cup Acks
    \/ k \in Replies /\ (Deletes(k.id) \/ ~events[k.id].open)
NoNews ==
    /\ Steady /\ answered' = answered /\ Quiet'
    /\ \A i \in Asking : events'[i].resp = events[i].resp /\ (events'[i].open => events[i].open)
    /\ \A k \in net' : k \in net \/ Harmless(k)
    /\ \A k \in net : k \in net' \/ Unneeded(k)

LEMMA NoNewsInv ==
    ASSUME Inv, Lasting', NoNews
    PROVE  Inv'
<1> Lasting /\ Sound /\ Sound'
  BY DEF Inv, Lasting
<1>1. Steady /\ answered' = answered /\ Quiet'
  BY DEF NoNews
<1>2. \A k \in net' \cap Replies : k \in net
  BY DEF NoNews, Harmless, Updates, Acks, Requests, Replies, Operations, Responses
<1>3. ASSUME NEW i \in Asking, NEW t \in Told(i)'
      PROVE  t \in Told(i)
  <2>1. events'[i].resp = events[i].resp
    BY DEF NoNews
  <2> QED
    BY <1>2, <1>3, <2>1 DEF Told
<1>4. \A k \in net \cap Requests : k \in net'
  BY DEF NoNews, Unneeded, Updates, Acks, Requests, Replies, Operations, Responses
<1>5. Near'
  <2>1. \A i \in Asking : ~Deletes(i) => DOMAIN events'[i].resp \subseteq Replicas
    BY DEF NoNews, Inv, Near
  <2>2. \A k \in net' \cap (Requests \cup Replies) :
            k \in net \/ (k.id \in Asking /\ (~Deletes(k.id) => Placed(k)))
    BY DEF NoNews, Harmless, Updates, Acks, Requests, Replies, Operations, Responses
  <2> QED
    BY <1>1, <2>1, <2>2, NearStep DEF Inv
<1>6. Held' /\ Met' /\ Kept' /\ QuorumsMeet'
  BY <1>1, <1>3, HeldStep, MetStep, UnansweredStep DEF Inv
<1>7. HandedOn'
  <2>1. ASSUME NEW i \in Asking, Handed(i)'
        PROVE  Handed(i) \/ AllHave(Asked(i))
    <3>1. CASE \E t \in Told(i)' : t[1] \notin Replicas
      BY <1>3, <3>1 DEF Handed
    <3>2. ASSUME NEW k \in net' \cap Requests, k.id = i, k.dst \notin Replicas
          PROVE  Handed(i) \/ AllHave(Asked(i))
      <4>1. CASE k \in net
        BY <3>2, <4>1 DEF Handed
      <4>2. CASE Harmless(k)
        BY <3>2, <4>2 DEF Harmless, Updates, Acks, Requests, Operations
      <4> QED
        BY <4>1, <4>2 DEF NoNews
    <3> QED
      BY <2>1, <3>1, <3>2 DEF Handed
  <2> QED
    BY <1>1, <2>1, HandedStep DEF Inv
<1>8. Waiting'
  <2>1. ASSUME NEW i \in Asking, events[i].open, ~Deletes(i), NEW r \in Replicas, Awaits(i, r)
        PROVE  Awaits(i, r)'
    <3>1. ASSUME NEW t \in Told(i), t[1] = r
          PROVE  t \in Told(i)'
      <4>1. \A k \in net \cap Replies : k.id = i => k \in net'
        BY <2>1 DEF NoNews, Unneeded, Updates, Acks, Replies, Responses
      <4>2. events'[i].resp = events[i].resp
        BY DEF NoNews
      <4> QED
        BY <3>1, <4>1, <4>2 DEF Told
    <3>2. CASE \E k \in net \cap Requests : k.id = i /\ k.dst = r
      BY <1>4, <3>2 DEF Awaits
    <3> QED
      BY <2>1, <3>1, <3>2 DEF Awaits
  <2>2. \A i \in Asking : events'[i].open => events[i].open
    BY DEF NoNews
  <2> QED
    BY <1>1, <2>1, <2>2, SteadyIs DEF Inv, Waiting, Steady
<1> QED
  BY <1>1, <1>5, <1>6, <1>7, <1>8 DEF Inv

LEMMA RaiseInv ==
    ASSUME Inv, Lasting', NEW m \in net, NEW line, Raise(line, m), Unneeded(m)
    PROVE  Inv'
<1>1. UNCHANGED <<data, events, floor, answered>> /\ net' = net \ {m} /\ Quiet'
  BY DEF Raise, bounds, Inv, Quiet
<1>2. Steady
  BY <1>1, SameSteady DEF Inv
<1>3. NoNews
  BY <1>1, <1>2 DEF NoNews
<1> QED
  BY <1>3, NoNewsInv

LEMMA AckInv ==
    ASSUME Inv, Lasting', NEW m \in net, OnAck(m)
    PROVE  Inv'
<1>1. AckEffect(m) /\ Quiet'
  BY AckIs DEF Inv, Quiet, AckEffect
<1>2. Steady
  BY <1>1, SameSteady DEF Inv, AckEffect
<1>3. NoNews
  BY <1>1, <1>2 DEF NoNews, AckEffect, Unneeded
<1> QED
  BY <1>3, NoNewsInv

LEMMA UpdateInv ==
    ASSUME Inv, Lasting', NEW m \in net, OnUpdate(m)
    PROVE  Inv'
<1>1. PICK a : UpdateEffect(m, a)
  BY UpdateIs DEF Inv
<1>2. NoNews
  BY <1>1 DEF NoNews, UpdateEffect, Harmless, Unneeded, Inv, Quiet
<1> QED
  BY <1>2, NoNewsInv

\* When nothing is under way, every node that was asked has answered.
LEMMA SilenceIs ==
    ASSUME Inv, net = {}
    PROVE  /\ \A i \in Asking : events[i].open /\ ~Deletes(i) => Complete(events[i])
           /\ \A i \in Writers : AllHave(Asked(i))
<1>1. ASSUME NEW i \in Asking, events[i].open, ~Deletes(i)
      PROVE  Complete(events[i])
  <2>1. PICK D : D = DOMAIN events[i].resp /\ D \subseteq Replicas
    BY <1>1 DEF Inv, Near
  <2>2. ASSUME NEW r \in Replicas
        PROVE  r \in D
    <3>1. Awaits(i, r)
      BY <1>1 DEF Inv, Waiting
    <3>2. PICK t \in Told(i) : t[1] = r
      BY <3>1 DEF Awaits
    <3>3. PICK n \in D : t = <<n, events[i].resp[n]>>
      BY <2>1, ToldIs
    <3> QED
      BY <3>2, <3>3
  <2>3. D = Replicas
    BY <2>1, <2>2
  <2> QED
    BY <2>1, <2>3, ReplicasCount, NodesAre DEF Complete
<1> QED
  BY <1>1 DEF Inv, Lasting, Reaching, AllHave

LEMMA TimeoutQuiet ==
    ASSUME MaxEarly = 0, Inv, Timeout
    PROVE  net = {} /\ early' = early
  BY DEF Timeout, Inv, Quiet

LEMMA EventTimerInv ==
    ASSUME MaxEarly = 0, Inv, Lasting', NEW i \in Asking, OnEventTimer(i)
    PROVE  Inv'
<1> Lasting /\ Sound /\ Sound'
  BY DEF Inv, Lasting
<1>1. /\ net = {} /\ events[i].open
      /\ UNCHANGED <<data, hints, answered, floor, cut, cuts, early>>
      /\ Asks(events[i], i, events[i].handoff) \in Requests
      /\ AsksMore(i) \/ Drops(i)
  BY EventTimerIs, TimeoutQuiet
<1>2. /\ Asking' = Asking
      /\ \A j \in Asking : /\ events'[j].type = events[j].type
                           /\ events'[j].value = events[j].value
                           /\ events'[j].node = events[j].node
                           /\ events'[j].time = events[j].time
                           /\ events'[j].quorum = events[j].quorum
                           /\ events'[j].resp = events[j].resp
                           /\ events'[j].open => events[j].open
  BY EventTimerIs
<1>3. Steady
  <2>1. \A n \in Nodes : data[n] \in Int \X Int
    BY DEF Sound, Typing, Pairs
  <2> QED
    BY <1>1, <1>2, <2>1, LessIs DEF Steady
<1>4. ASSUME NEW k \in net'
      PROVE  Harmless(k)
  <2>1. AsksMore(i)
    BY <1>1 DEF Drops
  <2>2. k = Asks(events[i], i, events[i].handoff)
    BY <1>1, <2>1, SentIs DEF AsksMore
  <2>3. k \in Requests /\ k.id = i /\ k.type = events[i].type /\ k.time = events[i].time
    BY <1>1, <2>2 DEF Asks
  <2>4. Deletes(i)
    BY <1>1, <2>1, SilenceIs DEF AsksMore
  <2>5. AllHave(Asked(i))
    BY <1>1, <2>4, SilenceIs DEF Writers, Deletes
  <2> QED
    BY <2>3, <2>4, <2>5 DEF Harmless
<1>5. NoNews
  BY <1>1, <1>2, <1>3, <1>4 DEF NoNews, Inv, Quiet
<1> QED
  BY <1>5, NoNewsInv

LEMMA HintTimerInv ==
    ASSUME MaxEarly = 0, Inv, Lasting', NEW n \in Nodes, OnHintTimer(n)
    PROVE  Inv'
<1>1. HintTimerEffect(n) /\ early' = early
  BY HintTimerIs, TimeoutQuiet DEF Inv, OnHintTimer
<1>2. Steady
  BY <1>1, SameSteady DEF Inv, HintTimerEffect
<1>3. NoNews
  BY <1>1, <1>2 DEF NoNews, Harmless, HintTimerEffect, Inv, Quiet
<1> QED
  BY <1>3, NoNewsInv

LEMMA ResponseInv ==
    ASSUME Inv, Lasting', NEW m \in net, OnResponse(m)
    PROVE  Inv'
<1> Lasting /\ Sound /\ Sound'
  BY DEF Inv, Lasting
<1>1. m \in Replies /\ m.id \in Asking
  BY ResponseIs DEF Inv
<1>2. CASE Raise(52, m) /\ ~events[m.id].open
  BY <1>1, <1>2, RaiseInv DEF Unneeded
<1>3. CASE Raise(53, m) /\ m.type = "DELETE_RESP"
  <2>1. Deletes(m.id)
    BY <1>1, <1>3 DEF Lasting, Faithful, Genuine
  <2> QED
    BY <1>1, <1>3, <2>1, RaiseInv DEF Unneeded
<1>4. CASE Counted(m) /\ CountDone(m)
  BY <1>4, CountInv
<1> QED
  BY <1>2, <1>3, <1>4, ResponseIs DEF Inv

LEMMA InitInv == Init => Inv
<1> SUFFICES ASSUME Init PROVE Inv
  OBVIOUS
<1>1. Asking = {} /\ net = {} /\ DOMAIN answered = {} /\ Quiet
  BY DEF Init, Asking, Quiet
<1>2. Near /\ Held /\ HandedOn /\ Waiting /\ Met /\ Kept /\ QuorumsMeet
  BY <1>1 DEF Near, Held, HandedOn, Waiting, Met, Kept, QuorumsMeet
<1> QED
  BY <1>1, <1>2, InitLasting DEF Inv

LEMMA StepInv ==
    ASSUME MaxCuts = 0, MaxEarly = 0, Inv, [Next]_vars
    PROVE  Inv'
<1>1. Lasting' /\ Lasting /\ Sound
  BY StepLasting DEF Inv, Lasting
<1>2. ASSUME NEW n \in Clients, NEW type \in Types, NEW value \in Values \cup {NoValue},
             NEW q \in Quorums, OnLocalMessage(n, type, value, q)
      PROVE  Inv'
  <2>1. Typing /\ Sound'
    BY <1>1 DEF Lasting, Sound
  <2>2. PICK i : LocalDone(n, type, value, q, i)
    BY <1>2, <2>1, LocalDoneIs
  <2>3. PICK e : Begun(i, e)
    BY <1>1, <2>1, <2>2, BegunIs
  <2> QED
    BY <1>1, <2>3, LocalInv
<1>3. ASSUME NEW m \in net, OnOperation(m)
      PROVE  Inv'
  BY <1>1, <1>3, PerformedIs, OperationInv
<1>4. ASSUME NEW m \in net, OnResponse(m) \/ OnUpdate(m) \/ OnAck(m)
      PROVE  Inv'
  BY <1>1, <1>4, ResponseInv, UpdateInv, AckInv
<1>5. ASSUME NEW i \in Asking, OnEventTimer(i)
      PROVE  Inv'
  BY <1>1, <1>5, EventTimerInv
<1>6. ASSUME NEW n \in Nodes, OnHintTimer(n)
      PROVE  Inv'
  BY <1>1, <1>6, HintTimerInv
<1>7. ASSUME NEW n \in Nodes
      PROVE  ~Disconnect(n) /\ ~Connect(n)
  BY DEF Disconnect, Connect, Inv, Lasting, Whole
<1>8. CASE UNCHANGED vars
  <2>1. UNCHANGED <<data, events, floor, answered, net>> /\ Quiet'
    BY <1>8 DEF vars, Inv, Quiet
  <2>2. Steady
    BY <1>1, <2>1, SameSteady
  <2>3. NoNews
    BY <2>1, <2>2 DEF NoNews
  <2> QED
    BY <1>1, <2>3, NoNewsInv
<1> QED
  BY <1>2, <1>3, <1>4, <1>5, <1>6, <1>7, <1>8 DEF Next, Asking

\* While nobody is cut off and timers fire only when nothing is under way, a read or a write
\* that is answered does not miss a write that was answered before it began with a quorum
\* that meets its own.
THEOREM QuorumsMeetHolds ==
    ASSUME MaxCuts = 0, MaxEarly = 0
    PROVE  Spec => []QuorumsMeet
<1>1. Inv => QuorumsMeet
  BY DEF Inv
<1> QED
  BY <1>1, InitInv, StepInv, PTL DEF Spec

LEMMA CountStored ==
    ASSUME Inv, Lasting', NEW m \in net, Counted(m), CountDone(m),
           NEW i \in DOMAIN answered' \ DOMAIN answered, events[i].type = "PUT"
    PROVE  Cardinality({n \in Nodes : ~Less(Stored(n)', answered'[i])}) >= events[i].quorum
<1> Lasting /\ Sound /\ Sound'
  BY DEF Inv, Lasting
<1>1. /\ i = m.id /\ Decides(m) /\ answered'[i] = Best(m) /\ data' = data /\ i \in Asking
      /\ ~Deletes(i)
  BY CountEffectIs DEF CountEffect, Counted, CountedBy, Deletes
<1>2. PICK q, L, p, S : /\ q = events[i].quorum /\ L = DOMAIN Left(m) /\ p = Best(m)
                        /\ S = {n \in Nodes : ~Less(Stored(n)', p)}
  OBVIOUS
<1>3. Cardinality(L) >= q /\ L \subseteq HoldersOf(p) /\ L \in SUBSET Replicas
  BY <1>1, <1>2, BestHeld DEF BestIs, HoldersOf
<1>4. L \in SUBSET S
  <2>1. ASSUME NEW n \in L
        PROVE  n \in S
    <3>1. n \in Replicas /\ n \in Nodes /\ ~Less(data[n], p)
      BY <1>3, <2>1, NodesAre DEF HoldersOf
    <3>2. Stored(n)' = data[n]
      BY <1>1, <3>1 DEF Stored
    <3> QED
      BY <1>2, <3>1, <3>2
  <2> QED
    BY <2>1
<1>5. IsFiniteSet(S)
  <2>1. S \in SUBSET Nodes
    BY <1>2
  <2> QED
    BY <2>1, NodesAre, FS_Subset
<1>6. Cardinality(L) <= Cardinality(S) /\ Cardinality(L) \in Nat /\ Cardinality(S) \in Nat
  BY <1>4, <1>5, FS_Subset, FS_CardinalityType
<1>7. q \in Int
  BY <1>1, <1>2 DEF Sound, Typing, Events
<1>8. Cardinality(S) >= q
  BY <1>3, <1>6, <1>7
<1> QED
  BY <1>1, <1>2, <1>8

\* What is answered to a PUT is held by as many nodes as its quorum asks for, at the moment
\* of the answer.
THEOREM StoredByQuorumHolds ==
    ASSUME MaxCuts = 0, MaxEarly = 0
    PROVE  Spec => StoredByQuorum
<1>1. ASSUME Inv, [Next]_vars, NEW i \in DOMAIN answered' \ DOMAIN answered, events[i].type = "PUT"
      PROVE  Cardinality({n \in Nodes : ~Less(Stored(n)', answered'[i])}) >= events[i].quorum
  <2>1. \E m \in net : OnResponse(m)
    <3>1. ASSUME NEW m \in net, OnAck(m)
          PROVE  answered' = answered
      BY <3>1 DEF OnAck, Raise
    <3> QED
      BY <1>1, <3>1 DEF Next, vars, OnLocalMessage, OnOperation, OnUpdate, OnEventTimer,
                        OnHintTimer, Disconnect, Connect
  <2>2. PICK m \in net : OnResponse(m)
    BY <2>1
  <2>3. Counted(m) /\ CountDone(m)
    BY <1>1, <2>2, ResponseIs DEF Inv, Lasting, Raise
  <2> QED
    BY <1>1, <2>3, StepLasting, CountStored DEF Inv
<1>2. Inv /\ [Next]_vars =>
          [\A i \in DOMAIN answered' \ DOMAIN answered :
              events[i].type = "PUT" =>
                  Cardinality({n \in Nodes : ~Less(Stored(n)', answered'[i])})
                      >= events[i].quorum]_vars
  BY <1>1
<1> QED
  BY <1>2, InitInv, StepInv, PTL DEF Spec, StoredByQuorum
=============================================================================

-------------------------- MODULE KvSharding_proofs --------------------------
(***************************************************************************)
(* Proofs about KvSharding, for every ring, every set of keys and any      *)
(* number of requests, changes and crashes, when one change is complete    *)
(* before the next begins.                                                 *)
(***************************************************************************)
EXTENDS KvSharding, SequenceTheorems, FiniteSetTheorems, WellFoundedInduction, TLAPS

-----------------------------------------------------------------------------
(* The ring *)

\* A finite set of numbers that is not empty has a greatest element.
LEMMA GreatestExists ==
    ASSUME NEW S, S \subseteq Nat, IsFiniteSet(S), S # {}
    PROVE  \E x \in S : \A y \in S : x >= y
<1> DEFINE Without == {T \in SUBSET S : T # {} /\ ~ \E x \in T : \A y \in T : x >= y}
           Order == StrictSubsetOrdering(S)
<1>1. SUFFICES ASSUME Without # {} PROVE FALSE
  OBVIOUS
<1>2. Without \subseteq FiniteSubsetsOf(S)
  BY FS_Subset DEF FiniteSubsetsOf
<1>3. IsWellFoundedOn(Order, FiniteSubsetsOf(S))
  BY FS_StrictSubsetOrderingWellFounded
<1>4. PICK T \in Without : \A U \in Without : <<U, T>> \notin Order
  <2> HIDE DEF Without, Order
  <2>. QED BY <1>1, <1>2, <1>3, WFMin
<1>5. PICK x \in T : TRUE
  OBVIOUS
<1>6. <<T \ {x}, T>> \in Order
  BY <1>5 DEF StrictSubsetOrdering
<1>7. T \ {x} \notin Without
  BY <1>4, <1>6
<1>8. CASE T = {x}
  BY <1>8, <1>5
<1>9. CASE T # {x}
  <2>1. PICK z \in T \ {x} : \A y \in T \ {x} : z >= y
    BY <1>5, <1>7, <1>9
  <2>2. x \in Nat /\ z \in Nat /\ \A y \in T : y \in Nat
    BY <1>5, <2>1
  <2>3. CASE z >= x
    BY <2>1, <2>2, <2>3
  <2>4. CASE x > z
    BY <2>1, <2>2, <2>4, <1>5
  <2>. QED BY <2>2, <2>3, <2>4
<1>. QED BY <1>8, <1>9

LEMMA MaxIs ==
    ASSUME NEW S, S \subseteq Nat, IsFiniteSet(S), S # {}
    PROVE  Max(S) \in S /\ \A y \in S : Max(S) >= y
BY GreatestExists DEF Max

\* The owner of h is the last node at or before h, or the last one of all if there
\* is none.
IsOwner(S, o, h) ==
    /\ o \in S
    /\ \/ o <= h /\ \A n \in S : n <= h => n <= o
       \/ \A n \in S : h < n /\ n <= o

LEMMA OwnerIs ==
    ASSUME NEW S, S \subseteq Nat, IsFiniteSet(S), S # {}, NEW h \in Nat
    PROVE  IsOwner(S, Owner(S, h), h)
<1> DEFINE below == {n \in S : n <= h}
<1>1. CASE below = {}
  <2>1. Owner(S, h) = Max(S)
    BY <1>1 DEF Owner
  <2>2. Max(S) \in S /\ \A y \in S : Max(S) >= y
    BY MaxIs
  <2>3. \A n \in S : h < n /\ n <= Max(S)
    BY <1>1, <2>2
  <2>. QED BY <2>1, <2>2, <2>3 DEF IsOwner
<1>2. CASE below # {}
  <2>1. Owner(S, h) = Max(below)
    BY <1>2 DEF Owner
  <2>2. IsFiniteSet(below) /\ below \subseteq Nat
    BY FS_Subset
  <2>3. Max(below) \in below /\ \A y \in below : Max(below) >= y
    BY <1>2, <2>2, MaxIs
  <2>. QED BY <2>1, <2>3 DEF IsOwner
<1>. QED BY <1>1, <1>2

LEMMA OwnerUnique ==
    ASSUME NEW S, S \subseteq Nat, NEW h \in Nat, NEW o, NEW q,
           IsOwner(S, o, h), IsOwner(S, q, h)
    PROVE  o = q
BY DEF IsOwner

LEMMA MaxUnique ==
    ASSUME NEW S, S \subseteq Nat, IsFiniteSet(S), NEW o \in S, \A n \in S : n <= o
    PROVE  Max(S) = o
<1>1. Max(S) \in S /\ Max(S) >= o
  BY MaxIs
<1>2. Max(S) \in Nat /\ o \in Nat /\ Max(S) <= o
  BY <1>1
<1>. QED BY <1>1, <1>2

\* A new node takes keys from the node before it only; that node keeps just
\* those of its keys which it still owns (split_by_key).
AfterAdd(S, a, h) ==
    /\ Owner(S, h) # Owner(S, a) => Owner(S \cup {a}, h) = Owner(S, h)
    /\ Owner(S, h) = Owner(S, a) /\ Keeps(S \cup {a}, Owner(S, a), a, h) =>
          Owner(S \cup {a}, h) = Owner(S, a)
    /\ Owner(S, h) = Owner(S, a) /\ ~Keeps(S \cup {a}, Owner(S, a), a, h) =>
          Owner(S \cup {a}, h) = a

LEMMA OwnerAfterAdd ==
    ASSUME NEW S, S \subseteq Nat, IsFiniteSet(S), S # {},
           NEW a \in Nat \ S, NEW h \in Nat
    PROVE  AfterAdd(S, a, h)
<1> DEFINE R == S \cup {a}
           o == Owner(S, a)
           q == Owner(S, h)
           t == Owner(R, h)
<1>1. IsFiniteSet(R) /\ R \subseteq Nat /\ R # {}
  BY FS_AddElement
<1>2. IsOwner(S, o, a) /\ IsOwner(S, q, h) /\ IsOwner(R, t, h)
  BY <1>1, OwnerIs
<1>3. Max(R) \in R /\ \A n \in R : Max(R) >= n
  BY <1>1, MaxIs
<1> HIDE DEF o, q, t
<1>4. q # o => IsOwner(R, q, h)
  BY <1>2 DEF IsOwner
<1>5. q = o /\ Keeps(R, o, a, h) => IsOwner(R, o, h)
  BY <1>2, <1>3 DEF IsOwner, Keeps
<1>6. ASSUME q = o, ~Keeps(R, o, a, h) PROVE IsOwner(R, a, h)
  <2>1. o # Max(R) => \E n \in R : n > o
    <3>1. Max(R) \in R /\ Max(R) \in Nat /\ o \in R /\ o \in Nat /\ Max(R) >= o
      BY <1>1, <1>2, <1>3 DEF IsOwner
    <3>2. o # Max(R) => Max(R) > o
      BY <3>1
    <3>. QED BY <3>1, <3>2
  <2>2. CASE o <= h
    <3>1. h >= a /\ o # Max(R) /\ o \in Nat
      BY <1>2, <1>6, <2>2 DEF IsOwner, Keeps
    <3>2. o <= a
      BY <1>2, <2>1, <3>1 DEF IsOwner
    <3>3. \A n \in S : n <= h => n <= o
      BY <1>2, <1>6, <2>2, <3>1 DEF IsOwner
    <3>. QED BY <3>1, <3>2, <3>3 DEF IsOwner
  <2>3. CASE h < o
    BY <1>2, <1>3, <1>6, <2>1, <2>3 DEF IsOwner, Keeps
  <2>. QED BY <1>2, <2>2, <2>3 DEF IsOwner
<1>7. (q # o => t = q) /\ (q = o /\ Keeps(R, o, a, h) => t = o) /\ (q = o /\ ~Keeps(R, o, a, h) => t = a)
  BY <1>1, <1>2, <1>4, <1>5, <1>6, OwnerUnique
<1>. QED BY <1>7 DEF AfterAdd, o, q, t

\* When a node goes, all its keys have one new owner, and no other key moves.
AfterRemove(S, r, h) ==
    /\ Owner(S \cup {r}, h) = r => Owner(S, h) = Owner(S, r)
    /\ Owner(S \cup {r}, h) # r => Owner(S, h) = Owner(S \cup {r}, h)

LEMMA OwnerAfterRemove ==
    ASSUME NEW S, S \subseteq Nat, IsFiniteSet(S), S # {},
           NEW r \in Nat \ S, NEW h \in Nat
    PROVE  AfterRemove(S, r, h)
<1> DEFINE R == S \cup {r}
           o == Owner(S, r)
           q == Owner(S, h)
           t == Owner(R, h)
<1>1. IsFiniteSet(R) /\ R \subseteq Nat /\ R # {}
  BY FS_AddElement
<1>2. IsOwner(S, o, r) /\ IsOwner(S, q, h) /\ IsOwner(R, t, h)
  BY <1>1, OwnerIs
<1> HIDE DEF o, q, t
<1>3. t # r => IsOwner(S, t, h)
  BY <1>2 DEF IsOwner
<1>4. t = r => IsOwner(S, o, h)
  BY <1>2 DEF IsOwner
<1>5. (t = r => q = o) /\ (t # r => q = t)
  BY <1>2, <1>3, <1>4, OwnerUnique
<1>. QED BY <1>5 DEF AfterRemove, o, q, t

-----------------------------------------------------------------------------
(* The inductive invariant *)

Records == [Keys -> Values \cup {Absent}]
Request == [id : Nat, node : Nodes, type : {"GET", "PUT", "DELETE"}, key : Keys,
            value : Values \cup {Absent}]
Notice == [type : {"NODE_ADDED", "NODE_REMOVED"}, id : Nodes]
Message ==
    [kind : {"REQUEST"}, src : Nodes, dst : Nodes, request : Request]
    \cup [kind : {"RESPONSE"}, src : Nodes, dst : Nodes, request : Request,
          value : Values \cup {Absent}]
    \cup [kind : {"UPDATE"}, src : Nodes, dst : Nodes, data : Records]

TypeOK ==
    /\ nodes \in [Nodes -> SUBSET Nodes]
    /\ data \in [Nodes -> Records]
    /\ notices \in [Nodes -> Seq(Notice)]
    /\ net \subseteq Message
    /\ members \subseteq Nodes /\ members # {}
    /\ failed \subseteq Nodes
    /\ requests \in Nat

Waiting == {n \in Nodes : notices[n] # << >>}
Change(n) == Head(notices[n])

\* Whoever has no notice left knows the administrator's list; the others have one,
\* the same for all, and know the list as it was before that change.
Views ==
    /\ members \subseteq Created /\ failed \subseteq Created
    /\ Waiting \subseteq Created \ failed
    /\ \A n \in Nodes \ Created : data[n] = Empty
    /\ \A n \in (Created \ failed) \ Waiting : nodes[n] = members
    /\ \A n \in Waiting :
          /\ Len(notices[n]) = 1
          /\ \/ /\ Change(n).type = "NODE_ADDED"
                /\ Change(n).id \in members /\ members # {Change(n).id}
                /\ nodes[n] = IF n = Change(n).id THEN members ELSE members \ {Change(n).id}
             \/ /\ Change(n).type = "NODE_REMOVED"
                /\ Change(n).id \notin members
                /\ nodes[n] = members \cup {Change(n).id}
    /\ \A n, o \in Waiting : Change(n) = Change(o)

\* Nodes do not fail during a change.
AllUp == ~Settled => members \cap failed = {}

\* The node that will send records away when it handles its notice.
Giver(n) ==
    /\ n \in Waiting
    /\ \/ Change(n).type = "NODE_ADDED" /\ n # Change(n).id /\ n = Owner(nodes[n], Change(n).id)
       \/ Change(n).type = "NODE_REMOVED" /\ n = Change(n).id

Has(n, k) == n \in Holders /\ data[n][k] # Absent

\* Until the giver has sent, records are where the old ring has them, and nothing
\* is on its way; afterwards they are where the new ring has them, or on the way there.
Placed ==
    /\ \A g \in Nodes : Giver(g) =>
          /\ Updates = {}
          /\ \A n \in Nodes, k \in Keys : Has(n, k) => Owner(nodes[g], k) = n
    /\ (\A g \in Nodes : ~Giver(g)) =>
          \A n \in Nodes, k \in Keys : Has(n, k) => Owner(members, k) = n
    /\ \A m \in Updates :
          /\ m.dst \in members
          /\ \A k \in Keys : m.data[k] # Absent =>
                Owner(members, k) = m.dst /\ data[m.dst][k] = Absent
    /\ \A m, w \in Updates : m = w

\* What can be served is asked of the owner, and nothing moves meanwhile.
Asking ==
    \A m \in net : m.kind = "REQUEST" =>
        /\ m.src = m.request.node
        /\ m.request.type = "PUT" => m.request.value # Absent
        /\ m.dst \notin failed => Settled /\ m.dst = Owner(members, m.request.key)

\* A request or its answer is in flight, never both and neither twice.
Single ==
    /\ \A m \in net : m.kind \in {"REQUEST", "RESPONSE"} => m.request.id < requests
    /\ \A m \in net : m.kind = "RESPONSE" => m.dst = m.request.node
    /\ \A m, w \in net :
          /\ m.kind \in {"REQUEST", "RESPONSE"}
          /\ w.kind \in {"REQUEST", "RESPONSE"}
          /\ m.request.id = w.request.id
          => m = w

Inv == TypeOK /\ Views /\ AllUp /\ Placed /\ Asking /\ Single

LEMMA OwnerIn ==
    ASSUME NEW S, S \subseteq Nodes, S # {}, NEW h \in Nat
    PROVE  Owner(S, h) \in S
<1>1. S \subseteq Nat /\ IsFiniteSet(S)
  BY KvShardingAssumption, FS_Subset
<1>. QED BY <1>1, OwnerIs DEF IsOwner

LEMMA MessageIs ==
    ASSUME NEW m \in Message
    PROVE  /\ m.kind = "REQUEST" => m \in [kind : {"REQUEST"}, src : Nodes, dst : Nodes, request : Request]
           /\ m.kind = "RESPONSE" =>
                 m \in [kind : {"RESPONSE"}, src : Nodes, dst : Nodes, request : Request,
                        value : Values \cup {Absent}]
           /\ m.kind = "UPDATE" => m \in [kind : {"UPDATE"}, src : Nodes, dst : Nodes, data : Records]
BY DEF Message

LEMMA TypeStep ==
    ASSUME TypeOK, Views, [Next]_vars
    PROVE  TypeOK'
<1> USE DEF TypeOK
<1>0. Nodes \subseteq Nat /\ Keys \subseteq Nat
  BY KvShardingAssumption
<1>1. ASSUME NEW n \in Nodes, NEW k \in Keys, NEW v \in Values \cup {Absent},
             NEW t \in {"GET", "PUT", "DELETE"}, OnRequest(n, t, k, v)
      PROVE  TypeOK'
  <2> DEFINE r == [id |-> requests, node |-> n, type |-> t, key |-> k, value |-> v]
             m == [kind |-> "REQUEST", src |-> n, dst |-> Owner(nodes[n], k), request |-> r]
  <2>1. nodes[n] # {}
    BY <1>1 DEF OnRequest, Views, Created
  <2>2. Owner(nodes[n], k) \in Nodes
    BY <1>0, <2>1, OwnerIn
  <2>3. r \in Request
    BY DEF Request
  <2>4. m \in Message
    BY <2>2, <2>3 DEF Message
  <2>5. net' = net \cup {m} /\ requests' = requests + 1
    BY <1>1 DEF OnRequest
  <2> HIDE DEF m, r
  <2>. QED BY <1>1, <2>4, <2>5 DEF OnRequest
<1>2. ASSUME NEW m \in net, Serve(m) PROVE TypeOK'
  <2>1. /\ m.kind = "REQUEST" /\ m.dst \in Nodes /\ m.src \in Nodes
        /\ m.request \in Request
    BY <1>2, MessageIs DEF Serve
  <2>2. /\ m.request.value \in Values \cup {Absent} /\ m.request.key \in Keys
        /\ data[m.dst] \in Records
    BY <2>1 DEF Request
  <2>3. Value(m.dst, m.request) \in Values \cup {Absent}
    BY <2>2 DEF Value, Records
  <2>4. Stored(m.dst, m.request) \in [Nodes -> Records]
    <3>1. [data EXCEPT ![m.dst][m.request.key] = m.request.value] \in [Nodes -> Records]
      BY <2>1, <2>2 DEF Records
    <3>2. [data EXCEPT ![m.dst][m.request.key] = Absent] \in [Nodes -> Records]
      BY <2>1, <2>2 DEF Records
    <3>3. m.request.type \in {"GET", "PUT", "DELETE"}
      BY <2>1 DEF Request
    <3>. QED BY <3>1, <3>2, <3>3 DEF Stored
  <2>5. [kind |-> "RESPONSE", src |-> m.dst, dst |-> m.src,
         request |-> m.request, value |-> Value(m.dst, m.request)] \in Message
    BY <2>1, <2>3 DEF Message
  <2>. QED BY <1>2, <2>4, <2>5 DEF Serve
<1>3. ASSUME NEW m \in net, OnResponse(m) PROVE TypeOK'
  BY <1>3 DEF OnResponse
<1>4. ASSUME NEW m \in net, OnUpdate(m) PROVE TypeOK'
  <2>1. m.dst \in Nodes /\ m.data \in Records
    BY <1>4, MessageIs DEF OnUpdate
  <2>2. Merged(data[m.dst], m.data) \in Records
    BY <2>1 DEF Merged, Records
  <2>. QED BY <1>4, <2>1, <2>2 DEF OnUpdate
<1>5. ASSUME NEW n \in Nodes, AddNode(n) PROVE TypeOK'
  <2>1. [type |-> "NODE_ADDED", id |-> n] \in Notice
    BY DEF Notice
  <2>2. notices' \in [Nodes -> Seq(Notice)]
    <3> DEFINE c == [type |-> "NODE_ADDED", id |-> n]
    <3>1. \A o \in Nodes : Append(notices[o], c) \in Seq(Notice)
      BY <2>1
    <3> HIDE DEF c
    <3>2. Told("NODE_ADDED", n, Created \cup {n}) \in [Nodes -> Seq(Notice)]
      BY <3>1 DEF Told, c
    <3>. QED BY <1>5, <3>2 DEF AddNode
  <2>. QED BY <1>5, <2>2 DEF AddNode
<1>6. ASSUME NEW n \in Nodes, RemoveNode(n) PROVE TypeOK'
  <2>1. [type |-> "NODE_REMOVED", id |-> n] \in Notice
    BY DEF Notice
  <2>2. notices' \in [Nodes -> Seq(Notice)]
    <3> DEFINE c == [type |-> "NODE_REMOVED", id |-> n]
    <3>1. \A o \in Nodes : Append(notices[o], c) \in Seq(Notice)
      BY <2>1
    <3> HIDE DEF c
    <3>2. Told("NODE_REMOVED", n, Created) \in [Nodes -> Seq(Notice)]
      BY <3>1 DEF Told, c
    <3>. QED BY <1>6, <3>2 DEF RemoveNode
  <2>. QED BY <1>6, <2>2 DEF RemoveNode
<1>7. ASSUME NEW n \in Nodes, OnNodeAdded(n) PROVE TypeOK'
  <2> DEFINE a == Change(n).id
             ring == nodes[n] \cup {a}
  <2>1. Head(notices[n]) \in Notice /\ Tail(notices[n]) \in Seq(Notice)
    BY <1>7 DEF OnNodeAdded, HasNotice
  <2>2. a \in Nodes
    BY <2>1 DEF Change, Notice
  <2>3. Kept(n, ring, a) \in Records /\ Moved(n, ring, a) \in Records
    BY DEF Kept, Moved, Records
  <2>4. Update(n, a, Moved(n, ring, a)) \in Message
    BY <2>2, <2>3 DEF Update, Message
  <2>5. /\ nodes' = [nodes EXCEPT ![n] = ring]
        /\ data' \in {data, [data EXCEPT ![n] = Kept(n, ring, a)]}
        /\ net' \in {net, net \cup {Update(n, a, Moved(n, ring, a))}}
        /\ notices' = [notices EXCEPT ![n] = Tail(notices[n])]
        /\ UNCHANGED <<members, failed, requests>>
    BY <1>7 DEF OnNodeAdded, Change
  <2> HIDE DEF ring, a
  <2>6. ring \in SUBSET Nodes
    BY <2>2 DEF ring
  <2>. QED BY <2>1, <2>3, <2>4, <2>5, <2>6
<1>8. ASSUME NEW n \in Nodes, OnNodeRemoved(n) PROVE TypeOK'
  <2> DEFINE r == Change(n).id
             ring == nodes[n] \ {r}
  <2>1. /\ Head(notices[n]) \in Notice /\ Tail(notices[n]) \in Seq(Notice)
        /\ n \in Waiting /\ Change(n).type = "NODE_REMOVED"
    BY <1>8 DEF OnNodeRemoved, HasNotice, Waiting, Change
  <2>2. r \in Nodes /\ r \in Nat
    BY <2>1, <1>0 DEF Change, Notice
  <2>3. ring \in SUBSET Nodes /\ ring # {}
    <3>1. r \notin members /\ nodes[n] = members \cup {r}
      BY <2>1 DEF Views
    <3> HIDE DEF r
    <3>. QED BY <3>1, <1>0
  <2>4. Update(n, Heir(r, ring), data[n]) \in Message
    BY <2>2, <2>3, OwnerIn DEF Update, Message, Heir
  <2>5. /\ nodes' = [nodes EXCEPT ![n] = ring]
        /\ net' \in {net, net \cup {Update(n, Heir(r, ring), data[n])}}
        /\ notices' = [notices EXCEPT ![n] = Tail(notices[n])]
        /\ UNCHANGED <<data, members, failed, requests>>
    BY <1>8 DEF OnNodeRemoved, Change
  <2> HIDE DEF ring, r
  <2>. QED BY <2>1, <2>3, <2>4, <2>5
<1>9. ASSUME NEW n \in Nodes, Crash(n) PROVE TypeOK'
  BY <1>9 DEF Crash
<1>10. CASE UNCHANGED vars
  BY <1>10 DEF vars
<1>. QED BY <1>1, <1>2, <1>3, <1>4, <1>5, <1>6, <1>7, <1>8, <1>9, <1>10 DEF Next

-----------------------------------------------------------------------------
(* The users' requests, between two changes *)

LEMMA InitInv == Init => Inv
<1> SUFFICES ASSUME Init PROVE Inv
  OBVIOUS
<1>1. TypeOK
  BY KvShardingAssumption DEF Init, TypeOK, Nodes, Empty, Records
<1>2. Waiting = {} /\ Created = Initial /\ Updates = {} /\ net = {}
  BY KvShardingAssumption DEF Init, Waiting, Created, Updates, Nodes
<1>3. Views
  BY <1>2 DEF Init, Views, Nodes
<1>4. Placed
  <2>1. \A n \in Nodes, k \in Keys : ~Has(n, k) /\ ~Giver(n)
    BY <1>2 DEF Init, Has, Empty, Giver
  <2>. QED BY <1>2, <2>1 DEF Placed
<1>. QED BY <1>1, <1>2, <1>3, <1>4 DEF Inv, AllUp, Asking, Single, Init

\* Nothing about the ring or its changes is different after a step that leaves
\* these alone.
LEMMA SameRing ==
    ASSUME UNCHANGED <<nodes, notices, members, failed>>, Updates' = Updates
    PROVE  /\ Created' = Created /\ Waiting' = Waiting /\ Holders' = Holders
           /\ Settled' = Settled
           /\ AllUp => AllUp'
           /\ \A n \in Nodes : Giver(n)' = Giver(n) /\ Change(n)' = Change(n)
<1>1. Created' = Created /\ Waiting' = Waiting /\ Holders' = Holders /\ Settled' = Settled
  BY DEF Created, Waiting, Holders, Settled
<1>2. \A n \in Nodes : Giver(n)' = Giver(n) /\ Change(n)' = Change(n)
  BY <1>1 DEF Giver, Change
<1>. QED BY <1>1, <1>2 DEF AllUp

LEMMA SameViews ==
    ASSUME Views, UNCHANGED <<nodes, notices, members, failed>>,
           \A n \in Nodes \ Created : data'[n] = data[n]
    PROVE  Views'
BY DEF Views, Created, Waiting, Change

LEMMA SamePlaces ==
    ASSUME Placed, UNCHANGED <<nodes, notices, members, failed, data>>, Updates' = Updates
    PROVE  Placed'
<1>1. \A n \in Nodes, k \in Keys : Has(n, k)' = Has(n, k)
  BY SameRing DEF Has
<1>. QED BY <1>1, SameRing DEF Placed

LEMMA RequestStep ==
    ASSUME Inv, TypeOK', NEW n \in Nodes, NEW k \in Keys, NEW v \in Values \cup {Absent},
           NEW t \in {"GET", "PUT", "DELETE"}, OnRequest(n, t, k, v)
    PROVE  Inv'
<1> USE DEF Inv
<1> DEFINE r == [id |-> requests, node |-> n, type |-> t, key |-> k, value |-> v]
           w == [kind |-> "REQUEST", src |-> n, dst |-> Owner(nodes[n], k), request |-> r]
<1>1. /\ n \in members \ failed /\ Settled
      /\ v = Absent <=> t # "PUT"
      /\ requests' = requests + 1
      /\ net' = net \cup {w}
      /\ UNCHANGED <<nodes, data, notices, members, failed>>
  BY DEF OnRequest
<1>2. Updates' = Updates
  BY <1>1 DEF Updates
<1>3. Views' /\ AllUp' /\ Placed'
  BY <1>1, <1>2, SameRing, SameViews, SamePlaces
<1>4. nodes[n] = members
  BY <1>1 DEF Settled, Views, Waiting, TypeOK
<1>5. Asking'
  BY <1>1, <1>2, <1>4, SameRing DEF Asking
<1>6. Single'
  <2>1. requests \in Nat /\ \A m \in net : m.kind \in {"REQUEST", "RESPONSE"} => m.request.id \in Nat
    BY MessageIs DEF TypeOK, Request
  <2>. QED BY <1>1, <2>1 DEF Single
<1>. QED BY <1>3, <1>5, <1>6

LEMMA ServeStep ==
    ASSUME Inv, TypeOK', NEW m \in net, Serve(m)
    PROVE  Inv'
<1> USE DEF Inv
<1> DEFINE w == [kind |-> "RESPONSE", src |-> m.dst, dst |-> m.src,
                 request |-> m.request, value |-> Value(m.dst, m.request)]
           key == m.request.key
<1>1. /\ m.kind = "REQUEST" /\ m.dst \notin failed
      /\ net' = (net \ {m}) \cup {w}
      /\ UNCHANGED <<nodes, notices, members, failed, requests>>
  BY DEF Serve
<1>2. Updates' = Updates
  BY <1>1 DEF Updates
<1>3. /\ m.dst \in Nodes /\ m.src \in Nodes /\ key \in Keys
      /\ m.request.id \in Nat
  BY <1>1, MessageIs DEF TypeOK, Request
<1>4. Settled /\ m.dst = Owner(members, key) /\ m.src = m.request.node
  BY <1>1 DEF Asking
<1>5. m.dst \in members
  BY <1>3, <1>4, OwnerIn, KvShardingAssumption DEF TypeOK
<1>6. \/ data' = data
      \/ \E v : data' = [data EXCEPT ![m.dst][key] = v]
  <2>1. m.request.type \in {"GET", "PUT", "DELETE"} /\ data' = Stored(m.dst, m.request)
    BY <1>1, MessageIs DEF TypeOK, Request, Serve
  <2>. QED BY <2>1 DEF Stored
<1>12. \A o \in Nodes : o # m.dst => data'[o] = data[o]
  BY <1>6 DEF TypeOK
<1>13. \A o \in Nodes, k \in Keys : o # m.dst \/ k # key => data'[o][k] = data[o][k]
  <2>1. ASSUME NEW v, data' = [data EXCEPT ![m.dst][key] = v], NEW k \in Keys, k # key
        PROVE  data'[m.dst][k] = data[m.dst][k]
    <3>1. DOMAIN data[m.dst] = Keys /\ m.dst \in DOMAIN data
      BY <1>3 DEF TypeOK, Records
    <3>2. data'[m.dst] = [data[m.dst] EXCEPT ![key] = v]
      BY <2>1, <3>1
    <3>. QED BY <2>1, <3>1, <3>2
  <2>. QED BY <1>6, <1>12, <2>1
<1>7. Views'
  <2>1. \A o \in Nodes \ Created : o # m.dst
    BY <1>5 DEF Views
  <2>. QED BY <1>1, <1>12, <2>1, SameViews
<1>8. \A g \in Nodes : ~Giver(g)
  BY <1>4 DEF Giver, Waiting, Settled
<1>9. Placed'
  <2>1. Updates = {}
    BY <1>4 DEF Settled
  <2>2. \A o \in Nodes, k \in Keys : Has(o, k)' => Owner(members, k) = o
    <3>1. \A o \in Nodes, k \in Keys : Has(o, k)' =>
             Has(o, k) \/ (o = m.dst /\ k = key)
      BY <1>1, <1>2, <1>13, SameRing DEF Has
    <3>. QED BY <1>4, <1>8, <3>1 DEF Placed
  <2>. QED BY <1>1, <1>2, <1>8, <2>1, <2>2, SameRing DEF Placed
<1>10. Asking'
  BY <1>1, <1>2, SameRing DEF Asking
<1>11. Single'
  BY <1>1, <1>3, <1>4 DEF Single
<1>. QED BY <1>1, <1>2, <1>7, <1>9, <1>10, <1>11, SameRing

LEMMA ResponseStep ==
    ASSUME Inv, TypeOK', NEW m \in net, OnResponse(m)
    PROVE  Inv'
<1> USE DEF Inv
<1>1. /\ m.kind = "RESPONSE" /\ net' = net \ {m}
      /\ UNCHANGED <<nodes, data, notices, members, failed, requests>>
  BY DEF OnResponse
<1>2. Updates' = Updates
  BY <1>1 DEF Updates
<1>3. Views' /\ AllUp' /\ Placed'
  BY <1>1, <1>2, SameRing, SameViews, SamePlaces
<1>4. Asking'
  BY <1>1, <1>2, SameRing DEF Asking
<1>5. Single'
  BY <1>1 DEF Single
<1>. QED BY <1>3, <1>4, <1>5

-----------------------------------------------------------------------------
(* A change and the records that move *)

\* While a change is under way every member is up and knows itself.
LEMMA MemberHolds ==
    ASSUME Inv, ~Settled, NEW x \in members
    PROVE  x \in Holders
<1>1. x \in Nodes /\ x \in Created \ failed
  BY DEF Inv, TypeOK, Views, AllUp
<1>2. x \in nodes[x]
  <2>1. CASE x \in Waiting
    BY <2>1 DEF Inv, Views
  <2>2. CASE x \notin Waiting
    BY <1>1, <2>2 DEF Inv, Views
  <2>. QED BY <2>1, <2>2
<1>. QED BY <1>1, <1>2 DEF Holders

\* During a change nothing is asked of a node that is up.
LEMMA NobodyAsks ==
    ASSUME Inv, ~Settled, UNCHANGED <<failed, requests>>, TypeOK',
           \A m \in net' : m \in net \/ m.kind = "UPDATE"
    PROVE  Asking' /\ Single'
<1>1. Asking'
  BY DEF Inv, Asking
<1>2. Single'
  BY DEF Inv, Single
<1>. QED BY <1>1, <1>2

LEMMA UpdateStep ==
    ASSUME Inv, TypeOK', NEW m \in net, OnUpdate(m)
    PROVE  Inv'
<1> USE DEF Inv
<1>1. /\ m \in Updates /\ net' = net \ {m} /\ m.dst \in Nodes /\ m.data \in Records
      /\ data' = [data EXCEPT ![m.dst] = Merged(data[m.dst], m.data)]
      /\ UNCHANGED <<nodes, notices, members, failed, requests>>
  BY MessageIs DEF OnUpdate, Updates, TypeOK
<1>2. Updates' = {} /\ ~Settled
  BY <1>1 DEF Updates, Placed, Settled
<1>3. m.dst \in members
  BY <1>1 DEF Placed
<1>4. Created' = Created /\ Waiting' = Waiting /\ Holders' = Holders
  BY <1>1 DEF Created, Waiting, Holders
<1>5. \A g \in Nodes : ~Giver(g) /\ ~Giver(g)'
  <2>1. \A g \in Nodes : Giver(g)' = Giver(g)
    BY <1>1, <1>4 DEF Giver, Change
  <2>. QED BY <1>1, <2>1 DEF Placed
<1>6. Views'
  <2>1. \A n \in Nodes \ Created : n # m.dst
    BY <1>3 DEF Views
  <2>2. \A n \in Nodes \ Created : data'[n] = data[n]
    BY <1>1, <2>1 DEF TypeOK
  <2>. QED BY <1>1, <2>2, SameViews
<1>7. Placed'
  <2>1. ASSUME NEW n \in Nodes, NEW k \in Keys, Has(n, k)' PROVE Owner(members, k) = n
    <3>1. Has(n, k) \/ (n = m.dst /\ m.data[k] # Absent)
      BY <1>1, <1>4, <2>1 DEF Has, Merged, TypeOK
    <3>. QED BY <1>1, <1>5, <3>1 DEF Placed
  <2>. QED BY <1>1, <1>2, <1>5, <2>1 DEF Placed
<1>8. AllUp'
  BY <1>1, <1>2 DEF AllUp
<1>. QED BY <1>1, <1>2, <1>6, <1>7, <1>8, NobodyAsks

LEMMA CrashStep ==
    ASSUME Inv, TypeOK', NEW n \in Nodes, Crash(n)
    PROVE  Inv'
<1> USE DEF Inv
<1>1. /\ Settled /\ n \in members /\ failed' = failed \cup {n} /\ net' \subseteq net
      /\ UNCHANGED <<nodes, data, notices, members, requests>>
  BY DEF Crash
<1>2. /\ Created' = Created /\ Waiting = {} /\ Waiting' = {} /\ Holders' \subseteq Holders
      /\ Updates = {} /\ Updates' = {} /\ Settled'
  BY <1>1 DEF Created, Waiting, Holders, Settled, Updates
<1>3. Views'
  BY <1>1, <1>2 DEF Views
<1>4. Placed'
  BY <1>1, <1>2 DEF Placed, Giver, Has
<1>5. AllUp' /\ Asking' /\ Single'
  BY <1>1, <1>2 DEF AllUp, Asking, Single
<1>. QED BY <1>3, <1>4, <1>5

LEMMA AppendIs == \A c : Append(<< >>, c) = <<c>>
OBVIOUS

LEMMA TailOfOne == \A T : \A s \in Seq(T) : Len(s) = 1 => Tail(s) = << >>
<1> SUFFICES ASSUME NEW T, NEW s \in Seq(T), Len(s) = 1 PROVE Tail(s) = << >>
  OBVIOUS
<1>1. s # << >>
  BY EmptySeq
<1>2. Tail(s) \in Seq(T) /\ Len(Tail(s)) = 0
  BY <1>1, HeadTailProperties
<1>. QED BY <1>2, EmptySeq

LEMMA AddStep ==
    ASSUME Inv, TypeOK', ~Overlapping, NEW a \in Nodes, AddNode(a)
    PROVE  Inv'
<1> USE DEF Inv
<1> DEFINE c == [type |-> "NODE_ADDED", id |-> a]
<1>1. /\ Settled /\ Idle /\ members \cap failed = {}
      /\ a \notin Created /\ a \notin members /\ a \notin failed
      /\ members' = members \cup {a}
      /\ nodes' = [nodes EXCEPT ![a] = members \cup {a}]
      /\ notices' = [n \in Nodes |-> IF n \in (Created \cup {a}) \ failed
                                     THEN Append(notices[n], c) ELSE notices[n]]
      /\ UNCHANGED <<data, net, failed, requests>>
  BY DEF AddNode, MayChange, Told, Views
<1>2. Waiting = {} /\ Updates = {} /\ Updates' = {}
  BY <1>1 DEF Settled, Waiting, Updates
<1>3. /\ Created' = Created \cup {a} /\ Holders' = Holders \cup {a}
      /\ \A n \in Created : nodes'[n] = nodes[n]
  BY <1>1 DEF Created, Holders, TypeOK
<1>4. \A n \in (Created \cup {a}) \ failed : notices'[n] = <<c>>
  <2>1. \A n \in Nodes : notices[n] = << >>
    BY <1>2 DEF Waiting
  <2>2. Append(<< >>, c) = <<c>>
    BY AppendIs
  <2> HIDE DEF c
  <2>. QED BY <1>1, <2>1, <2>2 DEF Created
<1>5. Waiting' = (Created \cup {a}) \ failed
  BY <1>1, <1>2, <1>4 DEF Waiting, Created
<1>6. \A n \in Waiting' : /\ Change(n)' = c /\ Len(notices'[n]) = 1
                          /\ n # a => nodes'[n] = members /\ n \in Created
  <2>1. Head(<<c>>) = c /\ Len(<<c>>) = 1
    OBVIOUS
  <2> HIDE DEF c
  <2>2. \A n \in Waiting' : Change(n)' = c /\ Len(notices'[n]) = 1
    BY <1>4, <1>5, <2>1 DEF Change
  <2>3. \A n \in Created \ failed : nodes[n] = members
    BY <1>2 DEF Views
  <2>. QED BY <1>3, <1>5, <2>2, <2>3
<1>7. Views'
  <2>1. nodes'[a] = members'
    BY <1>1 DEF TypeOK
  <2>2. members' \ {a} = members /\ a \in members' /\ members' # {a}
    BY <1>1 DEF TypeOK
  <2>3. members' \subseteq Created' /\ failed' \subseteq Created' /\ Waiting' \subseteq Created' \ failed'
    BY <1>1, <1>3, <1>5 DEF Views
  <2>4. \A n \in Nodes \ Created' : data'[n] = Empty
    BY <1>1, <1>3 DEF Views
  <2>5. ASSUME NEW n \in Waiting'
        PROVE  /\ Len(notices'[n]) = 1 /\ Change(n)' = c
               /\ nodes'[n] = IF n = a THEN members' ELSE members' \ {a}
    BY <1>6, <2>1, <2>2
  <2>6. \A n \in Waiting' : Change(n)'.type = "NODE_ADDED" /\ Change(n)'.id = a
    BY <2>5
  <2>7. (Created' \ failed') \ Waiting' = {}
    BY <1>1, <1>3, <1>5
  <2> HIDE DEF c
  <2>. QED BY <2>2, <2>3, <2>4, <2>5, <2>6, <2>7 DEF Views
<1>8. Placed'
  <2>1. \A n \in Nodes, k \in Keys : Has(n, k)' => Owner(members, k) = n
    <3>1. \A n \in Nodes, k \in Keys : Has(n, k)' => Has(n, k)
      BY <1>1, <1>3 DEF Has, Views, Empty
    <3>. QED BY <1>2, <3>1 DEF Placed, Giver
  <2>2. Owner(members, a) \in members
    BY OwnerIn, KvShardingAssumption DEF TypeOK
  <2>3. PICK g \in Nodes : g = Owner(members, a)
    BY <2>2 DEF TypeOK
  <2>5. Giver(g)'
    <3>1. g \in Created \ failed /\ g # a
      BY <1>1, <2>2, <2>3 DEF Views
    <3>2. g \in Waiting' /\ nodes'[g] = members
      BY <1>5, <1>6, <3>1
    <3>3. Change(g)'.type = "NODE_ADDED" /\ Change(g)'.id = a
      BY <1>6, <3>2
    <3>. QED BY <2>3, <3>1, <3>2, <3>3 DEF Giver
  <2>4. \A o \in Nodes : Giver(o)' => nodes'[o] = members
    <3>1. \A o \in Waiting' : Change(o)'.type = "NODE_ADDED" /\ Change(o)'.id = a
      BY <1>6
    <3>. QED BY <1>6, <3>1 DEF Giver
  <2>. QED BY <1>2, <2>1, <2>4, <2>5 DEF Placed
<1>9. AllUp'
  BY <1>1 DEF AllUp
<1>10. Asking' /\ Single'
  BY <1>1 DEF Asking, Single, Idle
<1>. QED BY <1>7, <1>8, <1>9, <1>10

LEMMA RemoveStep ==
    ASSUME Inv, TypeOK', ~Overlapping, NEW r \in Nodes, RemoveNode(r)
    PROVE  Inv'
<1> USE DEF Inv
<1> DEFINE c == [type |-> "NODE_REMOVED", id |-> r]
<1>1. /\ Settled /\ Idle /\ members \cap failed \subseteq {r}
      /\ r \in members /\ members # {r}
      /\ members' = members \ {r}
      /\ notices' = [n \in Nodes |-> IF n \in Created \ failed
                                     THEN Append(notices[n], c) ELSE notices[n]]
      /\ UNCHANGED <<nodes, data, net, failed, requests>>
  BY DEF RemoveNode, MayChange, Told
<1>2. Waiting = {} /\ Updates = {} /\ Updates' = {}
  BY <1>1 DEF Settled, Waiting, Updates
<1>3. Created' = Created /\ Holders' = Holders
  BY <1>1 DEF Created, Holders
<1>4. \A n \in Created \ failed : notices'[n] = <<c>>
  <2>1. \A n \in Nodes : notices[n] = << >>
    BY <1>2 DEF Waiting
  <2>2. Append(<< >>, c) = <<c>>
    BY AppendIs
  <2> HIDE DEF c
  <2>. QED BY <1>1, <2>1, <2>2 DEF Created
<1>5. Waiting' = Created \ failed
  BY <1>1, <1>2, <1>4 DEF Waiting, Created
<1>6. members = members' \cup {r} /\ r \notin members' /\ members' # {}
  BY <1>1
<1>7. \A n \in Waiting' : /\ Change(n)' = c /\ Len(notices'[n]) = 1 /\ nodes'[n] = members
  <2>1. Head(<<c>>) = c /\ Len(<<c>>) = 1
    OBVIOUS
  <2> HIDE DEF c
  <2>2. \A n \in Waiting' : Change(n)' = c /\ Len(notices'[n]) = 1
    BY <1>4, <1>5, <2>1 DEF Change
  <2>3. \A n \in Created \ failed : nodes[n] = members
    BY <1>2 DEF Views
  <2>. QED BY <1>1, <1>5, <2>2, <2>3
<1>8. Views'
  <2>1. members' \subseteq Created' /\ failed' \subseteq Created' /\ Waiting' \subseteq Created' \ failed'
    BY <1>1, <1>3, <1>5 DEF Views
  <2>2. \A n \in Nodes \ Created' : data'[n] = Empty
    BY <1>1, <1>3 DEF Views
  <2>3. c.type = "NODE_REMOVED" /\ c.id = r
    OBVIOUS
  <2> HIDE DEF c
  <2>. QED BY <1>1, <1>3, <1>5, <1>6, <1>7, <2>1, <2>2, <2>3 DEF Views
<1>9. \A n \in Nodes, k \in Keys : Has(n, k)' => Owner(members, k) = n
  <2>1. \A n \in Nodes, k \in Keys : Has(n, k)' => Has(n, k)
    BY <1>1, <1>3 DEF Has
  <2>. QED BY <1>2, <2>1 DEF Placed, Giver
<1>10. Placed'
  <2>1. CASE r \notin failed
    <3>0. c.type = "NODE_REMOVED" /\ c.id = r /\ members \subseteq Created
      BY DEF Views
    <3>1. r \in Waiting' /\ \A g \in Waiting' : Change(g)'.type = "NODE_REMOVED" /\ Change(g)'.id = r
      <4>1. r \in Waiting'
        BY <1>1, <1>5, <2>1, <3>0
      <4>2. \A g \in Waiting' : Change(g)' = c
        BY <1>7
      <4> HIDE DEF c
      <4>. QED BY <3>0, <4>1, <4>2
    <3>2. Giver(r)' /\ \A g \in Nodes : Giver(g)' => nodes'[g] = members
      BY <1>7, <3>1 DEF Giver
    <3>. QED BY <1>2, <1>9, <3>2 DEF Placed
  <2>2. CASE r \in failed
    <3>0. \A g \in Waiting' : Change(g)'.type = "NODE_REMOVED" /\ Change(g)'.id = r
      BY <1>7
    <3>1. \A g \in Nodes : ~Giver(g)'
      BY <1>5, <3>0, <2>2 DEF Giver
    <3>2. ASSUME NEW n \in Nodes, NEW k \in Keys, Has(n, k)' PROVE Owner(members', k) = n
      <4>1. n # r
        BY <1>1, <2>2, <3>2 DEF Has, Holders
      <4>2. members' \subseteq Nat /\ IsFiniteSet(members') /\ r \in Nat \ members' /\ k \in Nat
        BY <1>1, <1>6, KvShardingAssumption, FS_Subset DEF TypeOK
      <4>3. PICK S : S = members'
        OBVIOUS
      <4>4. AfterRemove(S, r, k)
        <5>1. S # {}
          BY <1>6, <4>3
        <5>. QED BY <4>2, <4>3, <5>1, OwnerAfterRemove
      <4>. QED BY <1>6, <1>9, <3>2, <4>1, <4>3, <4>4 DEF AfterRemove
    <3>. QED BY <1>2, <3>1, <3>2 DEF Placed
  <2>. QED BY <2>1, <2>2
<1>11. AllUp'
  BY <1>1 DEF AllUp
<1>12. Asking' /\ Single'
  BY <1>1 DEF Asking, Single, Idle
<1>. QED BY <1>8, <1>10, <1>11, <1>12

\* A node that has handled its notice knows the administrator's list, and the
\* others are as they were.
LEMMA NoticeHandled ==
    ASSUME Inv, TypeOK', NEW n \in Waiting,
           nodes' = [nodes EXCEPT ![n] = members],
           notices' = [notices EXCEPT ![n] = Tail(@)],
           UNCHANGED <<members, failed>>,
           \A o \in Nodes \ Created : data'[o] = data[o]
    PROVE  /\ Views'
           /\ Waiting' = Waiting \ {n}
           /\ \A o \in Nodes : o # n => nodes'[o] = nodes[o] /\ Change(o)' = Change(o)
           /\ \A g \in Nodes : Giver(g)' <=> g # n /\ Giver(g)
           /\ nodes'[n] = members
<1> USE DEF Inv
<1>1. n \in Created \ failed /\ n \in Nodes
  BY DEF Views, Waiting
<1>2. Tail(notices[n]) = << >>
  <2>1. Len(notices[n]) = 1 /\ notices[n] \in Seq(Notice)
    BY <1>1 DEF Views, TypeOK
  <2>. QED BY <2>1, TailOfOne
<1>3. /\ nodes'[n] = members /\ notices'[n] = << >>
      /\ \A o \in Nodes : o # n => nodes'[o] = nodes[o] /\ notices'[o] = notices[o]
  BY <1>1, <1>2 DEF TypeOK
<1>4. \A o \in Nodes : o # n => Change(o)' = Change(o)
  BY <1>3 DEF Change
<1>5. Waiting' = Waiting \ {n} /\ Created' = Created
  BY <1>1, <1>3 DEF Waiting, Created, TypeOK
<1>6. \A g \in Nodes : Giver(g)' <=> g # n /\ Giver(g)
  BY <1>3, <1>4, <1>5 DEF Giver
<1>7. Views'
  <2>1. members' \subseteq Created' /\ failed' \subseteq Created' /\ Waiting' \subseteq Created' \ failed'
    BY <1>5 DEF Views
  <2>2. \A o \in Nodes \ Created' : data'[o] = Empty
    BY <1>5 DEF Views
  <2>3. \A o \in (Created' \ failed') \ Waiting' : nodes'[o] = members'
    BY <1>3, <1>5 DEF Views, Created
  <2>4. Waiting' \subseteq Nodes /\ n \notin Waiting'
    BY <1>5 DEF Waiting
  <2>5. \A o \in Waiting' : /\ notices'[o] = notices[o] /\ nodes'[o] = nodes[o]
                            /\ Change(o)' = Change(o) /\ o \in Waiting
    BY <1>3, <1>4, <1>5, <2>4
  <2>6. \A o \in Waiting :
          /\ Len(notices[o]) = 1
          /\ \/ /\ Change(o).type = "NODE_ADDED"
                /\ Change(o).id \in members /\ members # {Change(o).id}
                /\ nodes[o] = IF o = Change(o).id THEN members ELSE members \ {Change(o).id}
             \/ /\ Change(o).type = "NODE_REMOVED"
                /\ Change(o).id \notin members
                /\ nodes[o] = members \cup {Change(o).id}
    BY DEF Views
  <2>7. \A o, p \in Waiting : Change(o) = Change(p)
    BY DEF Views
  <2>8. \A o \in Waiting' :
          /\ Len(notices'[o]) = 1
          /\ \/ /\ Change(o)'.type = "NODE_ADDED"
                /\ Change(o)'.id \in members' /\ members' # {Change(o)'.id}
                /\ nodes'[o] = IF o = Change(o)'.id THEN members' ELSE members' \ {Change(o)'.id}
             \/ /\ Change(o)'.type = "NODE_REMOVED"
                /\ Change(o)'.id \notin members'
                /\ nodes'[o] = members' \cup {Change(o)'.id}
    <3> TAKE o \in Waiting'
    <3>1. /\ notices'[o] = notices[o] /\ nodes'[o] = nodes[o]
          /\ Change(o)' = Change(o) /\ o \in Waiting /\ members' = members
      BY <2>5
    <3>. QED BY <2>6, <3>1
  <2>9. \A o, p \in Waiting' : Change(o)' = Change(p)'
    BY <2>5, <2>7
  <2>. QED BY <2>1, <2>2, <2>3, <2>8, <2>9 DEF Views
<1>. QED BY <1>3, <1>4, <1>5, <1>6, <1>7

\* What a node knows that has not handled its notice yet.
LEMMA NoticeIs ==
    ASSUME Views, NEW n \in Waiting
    PROVE  LET c == Change(n) IN
           /\ c.type = "NODE_ADDED" =>
                 /\ c.id \in members /\ members # {c.id}
                 /\ nodes[n] = IF n = c.id THEN members ELSE members \ {c.id}
                 /\ nodes[n] \cup {c.id} = members
           /\ c.type = "NODE_REMOVED" =>
                 /\ c.id \notin members
                 /\ nodes[n] = members \cup {c.id}
                 /\ nodes[n] \ {c.id} = members
<1>1. /\ Change(n).type = "NODE_ADDED" =>
           /\ Change(n).id \in members /\ members # {Change(n).id}
           /\ nodes[n] = IF n = Change(n).id THEN members ELSE members \ {Change(n).id}
      /\ Change(n).type = "NODE_REMOVED" =>
           /\ Change(n).id \notin members
           /\ nodes[n] = members \cup {Change(n).id}
  BY DEF Views
<1>. QED BY <1>1

LEMMA NodeAddedStep ==
    ASSUME Inv, TypeOK', NEW n \in Nodes, OnNodeAdded(n)
    PROVE  Inv'
<1> USE DEF Inv
<1> DEFINE a == Change(n).id
           u == Update(n, a, Moved(n, members, a))
<1>1. /\ n \in Waiting /\ Change(n).type = "NODE_ADDED" /\ ~Settled
      /\ UNCHANGED <<members, failed, requests>>
      /\ notices' = [notices EXCEPT ![n] = Tail(@)]
  BY DEF OnNodeAdded, HasNotice, Waiting, Change, Settled
<1>2. /\ a \in members /\ members # {a}
      /\ nodes[n] = IF n = a THEN members ELSE members \ {a}
      /\ nodes[n] \cup {a} = members
  BY <1>1, NoticeIs
<1>3. /\ nodes' = [nodes EXCEPT ![n] = members]
      /\ IF n # a /\ n = Owner(nodes[n], a)
         THEN /\ data' = [data EXCEPT ![n] = Kept(n, members, a)]
              /\ net' = net \cup {u}
         ELSE UNCHANGED <<data, net>>
  BY <1>2 DEF OnNodeAdded, Change
<1>4. Giver(n) <=> n # a /\ n = Owner(nodes[n], a)
  BY <1>1 DEF Giver
<1> HIDE DEF a, u
<1>5. \A o \in Nodes : o # n => data'[o] = data[o]
  BY <1>3 DEF TypeOK
<1>6. /\ Views'
      /\ \A o \in Nodes : o # n => nodes'[o] = nodes[o]
      /\ \A g \in Nodes : Giver(g)' <=> g # n /\ Giver(g)
      /\ nodes'[n] = members
  <2>1. n \in Created
    BY <1>1 DEF Views
  <2>. QED BY <1>1, <1>3, <1>5, <2>1, NoticeHandled
<1>7. Holders' = Holders
  BY <1>1, <1>2, <1>6 DEF Holders
<1>8. Asking' /\ Single' /\ AllUp'
  <2>1. u.kind = "UPDATE"
    BY DEF u, Update
  <2>2. \A m \in net' : m \in net \/ m.kind = "UPDATE"
    BY <1>3, <2>1
  <2>3. AllUp'
    BY <1>1 DEF AllUp
  <2>. QED BY <1>1, <2>2, <2>3, NobodyAsks
<1>9. CASE ~Giver(n)
  <2>1. data' = data /\ net' = net /\ Updates' = Updates
    BY <1>3, <1>4, <1>9 DEF Updates
  <2>2. \A g \in Nodes : Giver(g)' <=> Giver(g)
    BY <1>6, <1>9
  <2>3. \A g \in Nodes : Giver(g) => nodes'[g] = nodes[g]
    BY <1>6, <1>9
  <2>4. \A o \in Nodes, k \in Keys : Has(o, k)' <=> Has(o, k)
    BY <1>7, <2>1 DEF Has
  <2>5. Placed'
    BY <1>1, <2>1, <2>2, <2>3, <2>4 DEF Placed
  <2>. QED BY <1>6, <1>8, <2>5
<1>10. CASE Giver(n)
  <2> DEFINE old == nodes[n]
  <2>1. /\ n # a /\ n = Owner(old, a) /\ old \cup {a} = members /\ a \notin old
        /\ data' = [data EXCEPT ![n] = Kept(n, members, a)] /\ net' = net \cup {u}
    BY <1>2, <1>3, <1>4, <1>10
  <2>2. old \subseteq Nat /\ old \subseteq Nodes /\ IsFiniteSet(old) /\ old # {} /\ a \in Nat \ old
    <3>1. old \subseteq Nodes /\ old # {} /\ a \in Nodes
      BY <1>1, <1>2 DEF TypeOK
    <3>. QED BY <2>1, <3>1, KvShardingAssumption, FS_Subset
  <2>3. n \in old /\ n \in members
    BY <2>1, <2>2, OwnerIn
  <2>4. n \in Holders /\ a \in Holders
    BY <1>1, <1>2, <2>3, MemberHolds
  <2>5. Updates = {} /\ Updates' = {u}
    <3>1. Updates = {}
      BY <1>10 DEF Placed
    <3>2. u.kind = "UPDATE"
      BY DEF u, Update
    <3>. QED BY <2>1, <3>1, <3>2 DEF Updates
  <2>6. \A o \in Nodes, k \in Keys : Has(o, k) => Owner(old, k) = o
    BY <1>10 DEF Placed
  <2>7. \A g \in Nodes : ~Giver(g)'
    <3>1. ASSUME NEW g \in Nodes, Giver(g), g # n PROVE FALSE
      <4>1. g \in Waiting /\ Change(g) = Change(n)
        BY <1>1, <3>1 DEF Giver, Views
      <4>2. g # a /\ g = Owner(nodes[g], a)
        BY <1>1, <3>1, <4>1 DEF Giver, a
      <4>3. nodes[g] = members \ {a}
        BY <1>1, <4>1, <4>2 DEF Views, a
      <4>. QED BY <1>2, <2>1, <3>1, <4>2, <4>3
    <3>. QED BY <1>6, <3>1
  <2>8. \A k \in Keys :
           /\ Owner(old, k) # n => Owner(members, k) = Owner(old, k)
           /\ Owner(old, k) = n /\ Keeps(members, n, a, k) => Owner(members, k) = n
           /\ Owner(old, k) = n /\ ~Keeps(members, n, a, k) => Owner(members, k) = a
    <3> HIDE DEF old
    <3>1. \A k \in Keys : k \in Nat
      BY KvShardingAssumption
    <3>2. PICK S, b : S = old /\ b = a
      OBVIOUS
    <3>3. ASSUME NEW k \in Keys PROVE AfterAdd(S, b, k)
      <4>1. k \in Nat /\ b \in Nat \ S /\ S \subseteq Nat /\ IsFiniteSet(S) /\ S # {}
        BY <2>2, <3>1, <3>2
      <4>. QED BY <4>1, OwnerAfterAdd
    <3>. QED BY <2>1, <3>2, <3>3 DEF AfterAdd
  <2>9. ASSUME NEW o \in Nodes, NEW k \in Keys, Has(o, k)' PROVE Owner(members, k) = o
    <3>1. CASE o # n
      <4>1. Has(o, k)
        BY <1>5, <1>7, <2>9, <3>1 DEF Has
      <4>. QED BY <2>6, <2>8, <3>1, <4>1
    <3>2. CASE o = n
      <4>1. data'[n][k] = IF Keeps(members, n, a, k) THEN data[n][k] ELSE Absent
        BY <2>1 DEF TypeOK, Kept
      <4>2. Keeps(members, n, a, k) /\ Has(n, k)
        BY <1>7, <2>9, <3>2, <4>1 DEF Has
      <4>. QED BY <2>6, <2>8, <3>2, <4>2
    <3>. QED BY <3>1, <3>2
  <2>10. u.dst = a /\ \A k \in Keys : u.data[k] = IF Keeps(members, n, a, k) THEN Absent ELSE data[n][k]
    BY DEF u, Update, Moved
  <2>11. ASSUME NEW k \in Keys, u.data[k] # Absent
         PROVE  Owner(members, k) = a /\ data'[a][k] = Absent
    <3>1. ~Keeps(members, n, a, k) /\ Has(n, k)
      BY <2>4, <2>10, <2>11 DEF Has
    <3>2. Owner(old, k) = n
      BY <2>6, <3>1
    <3>3. a \in Nodes
      BY <1>2 DEF TypeOK
    <3>4. ~Has(a, k)
      BY <2>1, <2>6, <3>2, <3>3
    <3>. QED BY <1>5, <2>1, <2>4, <2>8, <3>1, <3>2, <3>3, <3>4 DEF Has
  <2>12. Placed'
    BY <1>1, <1>2, <2>5, <2>7, <2>9, <2>10, <2>11 DEF Placed
  <2>. QED BY <1>6, <1>8, <2>12
<1>. QED BY <1>9, <1>10

LEMMA NodeRemovedStep ==
    ASSUME Inv, TypeOK', NEW n \in Nodes, OnNodeRemoved(n)
    PROVE  Inv'
<1> USE DEF Inv
<1> DEFINE r == Change(n).id
           u == Update(n, Owner(members, r), data[n])
<1>1. /\ n \in Waiting /\ Change(n).type = "NODE_REMOVED" /\ ~Settled
      /\ UNCHANGED <<data, members, failed, requests>>
      /\ notices' = [notices EXCEPT ![n] = Tail(@)]
  BY DEF OnNodeRemoved, HasNotice, Waiting, Change, Settled
<1>2. r \notin members /\ nodes[n] = members \cup {r} /\ nodes[n] \ {r} = members
  BY <1>1, NoticeIs
<1>3. /\ nodes' = [nodes EXCEPT ![n] = members]
      /\ net' = IF n = r THEN net \cup {u} ELSE net
  BY <1>2 DEF OnNodeRemoved, Change, Heir
<1>4. Giver(n) <=> n = r
  BY <1>1 DEF Giver
<1> HIDE DEF r, u
<1>5. /\ Views'
      /\ \A o \in Nodes : o # n => nodes'[o] = nodes[o]
      /\ \A g \in Nodes : Giver(g)' <=> g # n /\ Giver(g)
      /\ nodes'[n] = members
  BY <1>1, <1>3, NoticeHandled
<1>6. Holders' = IF n = r THEN Holders \ {n} ELSE Holders
  BY <1>1, <1>2, <1>5 DEF Holders
<1>7. Asking' /\ Single' /\ AllUp'
  <2>1. u.kind = "UPDATE"
    BY DEF u, Update
  <2>2. \A m \in net' : m \in net \/ m.kind = "UPDATE"
    BY <1>3, <2>1
  <2>3. AllUp'
    BY <1>1 DEF AllUp
  <2>. QED BY <1>1, <2>2, <2>3, NobodyAsks
<1>8. CASE n # r
  <2>1. net' = net /\ Updates' = Updates
    BY <1>3, <1>8 DEF Updates
  <2>2. \A g \in Nodes : (Giver(g)' <=> Giver(g)) /\ (Giver(g) => nodes'[g] = nodes[g])
    BY <1>4, <1>5, <1>8
  <2>3. \A o \in Nodes, k \in Keys : Has(o, k)' <=> Has(o, k)
    BY <1>1, <1>6, <1>8 DEF Has
  <2>4. Placed'
    BY <1>1, <2>1, <2>2, <2>3 DEF Placed
  <2>. QED BY <1>5, <1>7, <2>4
<1>9. CASE n = r
  <2>1. Updates = {} /\ Updates' = {u}
    <3>1. Updates = {}
      BY <1>4, <1>9 DEF Placed
    <3>2. u.kind = "UPDATE"
      BY DEF u, Update
    <3>. QED BY <1>3, <1>9, <3>1, <3>2 DEF Updates
  <2>2. \A g \in Nodes : ~Giver(g)'
    <3>1. ASSUME NEW g \in Nodes, Giver(g), g # n PROVE FALSE
      <4>1. g \in Waiting /\ Change(g) = Change(n)
        BY <1>1, <3>1 DEF Giver, Views
      <4>. QED BY <1>1, <1>9, <3>1, <4>1 DEF Giver, r
    <3>. QED BY <1>5, <3>1
  <2>3. PICK ring : ring = members
    OBVIOUS
  <2>4. /\ ring \subseteq Nat /\ ring \subseteq Nodes /\ IsFiniteSet(ring) /\ ring # {}
        /\ r \in Nat \ ring /\ ring \cup {r} = nodes[n]
    <3>1. ring \subseteq Nodes /\ ring # {} /\ r \in Nodes
      BY <1>9, <2>3 DEF TypeOK
    <3>. QED BY <1>2, <2>3, <3>1, KvShardingAssumption, FS_Subset
  <2>5. \A o \in Nodes, k \in Keys : Has(o, k) => Owner(nodes[n], k) = o
    BY <1>4, <1>9 DEF Placed
  <2>6. \A k \in Keys :
           /\ Owner(nodes[n], k) # r => Owner(members, k) = Owner(nodes[n], k)
           /\ Owner(nodes[n], k) = r => Owner(members, k) = Owner(members, r)
    <3>1. \A k \in Keys : k \in Nat
      BY KvShardingAssumption
    <3>2. \A k \in Keys : AfterRemove(ring, r, k)
      BY <2>4, <3>1, OwnerAfterRemove
    <3>. QED BY <2>3, <2>4, <3>2 DEF AfterRemove
  <2>7. ASSUME NEW o \in Nodes, NEW k \in Keys, Has(o, k)' PROVE Owner(members, k) = o
    <3>1. Has(o, k) /\ o # n
      BY <1>1, <1>6, <1>9, <2>7 DEF Has
    <3>. QED BY <1>9, <2>5, <2>6, <3>1
  <2>8. n \in Holders
    BY <1>1, <1>2, <1>9 DEF Holders, Views
  <2>9. u.dst = Owner(members, r) /\ u.data = data[n]
    BY DEF u, Update
  <2>10. u.dst \in members /\ u.dst \in Nodes /\ u.dst # n
    <3>1. Owner(ring, r) \in ring
      BY <2>4, OwnerIn
    <3>. QED BY <1>2, <1>9, <2>3, <2>4, <2>9, <3>1
  <2>11. u.dst \in Holders
    BY <1>1, <2>10, MemberHolds
  <2>12. ASSUME NEW k \in Keys, u.data[k] # Absent
         PROVE  Owner(members, k) = u.dst /\ data'[u.dst][k] = Absent
    <3>1. Has(n, k)
      BY <2>8, <2>9, <2>12 DEF Has
    <3>2. Owner(nodes[n], k) = n
      BY <2>5, <3>1
    <3>3. ~Has(u.dst, k)
      BY <2>5, <2>10, <3>2
    <3>. QED BY <1>1, <1>9, <2>6, <2>9, <2>11, <3>2, <3>3 DEF Has
  <2>13. Placed'
    BY <1>1, <2>1, <2>2, <2>7, <2>10, <2>12 DEF Placed
  <2>. QED BY <1>5, <1>7, <2>13
<1>. QED BY <1>8, <1>9

LEMMA InvStep ==
    ASSUME Inv, ~Overlapping, [Next]_vars
    PROVE  Inv'
<1>1. TypeOK'
  BY TypeStep DEF Inv
<1>2. CASE Next
  BY <1>1, <1>2, RequestStep, ServeStep, ResponseStep, UpdateStep, AddStep, RemoveStep,
     NodeAddedStep, NodeRemovedStep, CrashStep DEF Next
<1>3. CASE UNCHANGED vars
  <2>1. UNCHANGED <<nodes, notices, members, failed, data, net, requests>> /\ Updates' = Updates
    BY <1>3 DEF vars, Updates
  <2>2. Views' /\ AllUp' /\ Placed'
    BY <2>1, SameRing, SameViews, SamePlaces DEF Inv
  <2>3. Asking' /\ Single'
    BY <2>1, SameRing DEF Inv, Asking, Single
  <2>. QED BY <1>1, <2>2, <2>3 DEF Inv
<1>. QED BY <1>2, <1>3

-----------------------------------------------------------------------------
(* What the runs check *)

\* When one change is complete before the next begins, the records are where Inv
\* says at every moment.
THEOREM Rebalancing == ASSUME ~Overlapping PROVE Spec => []Inv
<1>1. Init => Inv
  BY InitInv
<1>2. Inv /\ [Next]_vars => Inv'
  BY InvStep
<1>. QED BY <1>1, <1>2, PTL DEF Spec

\* Between two changes every node knows the ring and every record is at the node
\* where all of them look for it.
THEOREM Settling == ASSUME ~Overlapping PROVE Spec => []PlacedWhenSettled
<1>1. ASSUME Inv PROVE PlacedWhenSettled
  <2>1. SUFFICES ASSUME Settled
                 PROVE  /\ \A n \in members \ failed : nodes[n] = members
                        /\ \A k \in Keys : Holding(k) \subseteq {Owner(members, k)}
    BY DEF PlacedWhenSettled
  <2>2. Waiting = {} /\ \A g \in Nodes : ~Giver(g)
    BY <2>1 DEF Settled, Waiting, Giver
  <2>3. \A n \in members \ failed : nodes[n] = members
    BY <1>1, <2>2 DEF Inv, Views
  <2>4. \A k \in Keys : Holding(k) \subseteq {Owner(members, k)}
    BY <1>1, <2>2 DEF Inv, Placed, Holding, Has, Holders
  <2>. QED BY <2>3, <2>4
<1>. QED BY <1>1, Rebalancing, PTL

\* Where a record can be, when Inv holds: with one node or in one UPDATE.
LEMMA OnePlace ==
    ASSUME Inv, NEW k \in Keys
    PROVE  /\ \A n, o \in Holding(k) : n = o
           /\ \A m, w \in Carrying(k) : m = w
           /\ Carrying(k) # {} => Holding(k) = {}
<1> USE DEF Inv
<1>1. \A n \in Holding(k) : n \in Nodes /\ Has(n, k)
  BY DEF Holding, Holders, Has
<1>2. PICK o : \A n \in Holding(k) : n = o
  BY <1>1 DEF Placed
<1>3. ASSUME NEW m \in Carrying(k), NEW n \in Holding(k) PROVE FALSE
  <2>1. m \in Updates /\ m.data[k] # Absent
    BY DEF Carrying, Carried
  <2>2. Owner(members, k) = m.dst /\ data[m.dst][k] = Absent
    BY <2>1 DEF Placed
  <2>3. \A g \in Nodes : ~Giver(g)
    BY <2>1 DEF Placed
  <2>4. n = m.dst
    BY <1>1, <2>2, <2>3 DEF Placed
  <2>. QED BY <2>2, <2>4 DEF Holding
<1>4. \A m, w \in Carrying(k) : m = w
  BY DEF Carrying, Carried, Placed
<1>. QED BY <1>2, <1>3, <1>4

\* During a rebalancing too a record is in one place only, with a node or on its
\* way to one: no UPDATE overwrites a newer value.
THEOREM OneCopy == ASSUME ~Overlapping PROVE Spec => []SingleCopy
<1>1. ASSUME Inv PROVE SingleCopy
  <2>1. SUFFICES ASSUME NEW k \in Keys
                 PROVE  Cardinality(Holding(k)) + Cardinality(Carrying(k)) <= 1
    BY DEF SingleCopy
  <2>2. /\ \A n, o \in Holding(k) : n = o
        /\ \A m, w \in Carrying(k) : m = w
        /\ Carrying(k) # {} => Holding(k) = {}
    BY <1>1, OnePlace
  <2>3. \A S : (\A x, y \in S : x = y) => S = {} \/ \E x : S = {x}
    OBVIOUS
  <2>4. \A x : Cardinality({x}) = 1
    BY FS_Singleton
  <2>5. Cardinality({}) = 0
    BY FS_EmptySet
  <2>6. \A S : (\A x, y \in S : x = y) => Cardinality(S) \in {0, 1}
    BY <2>3, <2>4, <2>5
  <2>7. Cardinality(Holding(k)) \in {0, 1} /\ Cardinality(Carrying(k)) \in {0, 1}
    BY <2>2, <2>6
  <2>8. Cardinality(Holding(k)) = 0 \/ Cardinality(Carrying(k)) = 0
    BY <2>2, <2>5
  <2>. QED BY <2>7, <2>8
<1>. QED BY <1>1, Rebalancing, PTL

-----------------------------------------------------------------------------
(* The store is one map *)

Asked == {m.request : m \in {x \in net : x.kind = "REQUEST"}}
Served == {[request |-> m.request, node |-> m.dst, value |-> m.value] :
              m \in {x \in net : x.kind = "RESPONSE"}}

\* The value v of k is with a node or on its way to one.
Somewhere(k, v) ==
    \/ \E n \in Holders : data[n][k] = v
    \/ \E m \in Carried : m.data[k] = v

\* What the map gives for a key is the one value that is somewhere.
LEMMA RecordedIs ==
    Inv => \A k \in Keys : \A v : v # Absent => (Somewhere(k, v) <=> recorded[k] = v)
<1> SUFFICES ASSUME Inv, NEW k \in Keys
             PROVE  \A v : v # Absent => (Somewhere(k, v) <=> recorded[k] = v)
  OBVIOUS
<1> DEFINE n == CHOOSE n \in Holding(k) : TRUE
           m == CHOOSE m \in Carrying(k) : TRUE
<1>1. recorded[k] = IF Holding(k) # {} THEN data[n][k]
                    ELSE IF Carrying(k) # {} THEN m.data[k] ELSE Absent
  BY DEF recorded
<1>2. (Holding(k) # {} => n \in Holding(k)) /\ (Carrying(k) # {} => m \in Carrying(k))
  OBVIOUS
<1>3. /\ \A o, p \in Holding(k) : o = p
      /\ \A o, p \in Carrying(k) : o = p
      /\ Carrying(k) # {} => Holding(k) = {}
  BY OnePlace
<1> HIDE DEF n, m
<1>4. \A v : v # Absent =>
         (Somewhere(k, v) <=> \/ \E o \in Holding(k) : data[o][k] = v
                              \/ \E o \in Carrying(k) : o.data[k] = v)
  BY DEF Somewhere, Holding, Carrying
<1>5. (\A o \in Holding(k) : data[o][k] # Absent) /\ (\A o \in Carrying(k) : o.data[k] # Absent)
  BY DEF Holding, Carrying
<1>. QED BY <1>1, <1>2, <1>3, <1>4, <1>5

LEMMA RecordedIsNext ==
    Inv' => \A k \in Keys : \A v : v # Absent => (Somewhere(k, v)' <=> recorded'[k] = v)
<1>1. (Inv => \A k \in Keys : \A v : v # Absent => (Somewhere(k, v) <=> recorded[k] = v))'
  BY RecordedIs, PTL
<1>. QED BY <1>1

LEMMA RecordedSame ==
    ASSUME Inv, Inv', NEW k \in Keys,
           \A v : v # Absent => (Somewhere(k, v)' <=> Somewhere(k, v))
    PROVE  recorded'[k] = recorded[k]
<1>1. \A v : v # Absent => (Somewhere(k, v)' <=> recorded'[k] = v)
  BY RecordedIsNext
<1>2. \A v : v # Absent => (Somewhere(k, v) <=> recorded[k] = v)
  BY RecordedIs
<1>. QED BY <1>1, <1>2

LEMMA RecordedFunction ==
    ASSUME NEW f, f = [k \in Keys |-> f[k]], \A k \in Keys : f[k] = recorded[k]
    PROVE  f = recorded
<1>1. recorded = [k \in Keys |-> recorded[k]]
  BY DEF recorded
<1>. QED BY <1>1

\* Moving records from node to node, users see nothing.
LEMMA Unseen ==
    ASSUME Inv, Inv', UNCHANGED <<failed, answered>>,
           \A k \in Keys : \A v : v # Absent => (Somewhere(k, v)' <=> Somewhere(k, v)),
           \A m : m.kind # "UPDATE" => (m \in net' <=> m \in net)
    PROVE  UNCHANGED Map!vars
<1>1. recorded' = recorded
  <2>1. \A k \in Keys : recorded'[k] = recorded[k]
    BY RecordedSame
  <2>2. recorded' = [k \in Keys |-> recorded'[k]]
    BY DEF recorded
  <2>. QED BY <2>1, <2>2, RecordedFunction
<1>2. {x \in net' : x.kind = "REQUEST"} = {x \in net : x.kind = "REQUEST"}
  OBVIOUS
<1>3. {x \in net' : x.kind = "RESPONSE"} = {x \in net : x.kind = "RESPONSE"}
  OBVIOUS
<1>. QED BY <1>1, <1>2, <1>3 DEF Map!vars

LEMMA MapInit == Init => Map!Init
<1> SUFFICES ASSUME Init PROVE Map!Init
  OBVIOUS
<1>1. \A k \in Keys : Holding(k) = {} /\ Carrying(k) = {}
  BY DEF Init, Holding, Holders, Empty, Carrying, Carried, Updates
<1>2. recorded = [k \in Keys |-> Absent]
  BY <1>1 DEF recorded
<1>. QED BY <1>2 DEF Init, Map!Init

\* Between two changes the map gives what the owner of the key has.
LEMMA AtOwner ==
    Inv /\ Settled =>
        \A k \in Keys, o \in Nodes \ failed : o = Owner(members, k) => recorded[k] = data[o][k]
<1> SUFFICES ASSUME Inv, Settled, NEW k \in Keys, NEW o \in Nodes \ failed, o = Owner(members, k)
             PROVE  recorded[k] = data[o][k]
  OBVIOUS
<1> USE DEF Inv
<1>1. Updates = {} /\ Waiting = {} /\ \A g \in Nodes : ~Giver(g)
  BY DEF Settled, Waiting, Giver
<1>2. o \in members
  BY OwnerIn, KvShardingAssumption DEF TypeOK
<1>3. o \in Holders
  BY <1>1, <1>2 DEF Holders, Views
<1>4. \A n \in Holders : data[n][k] # Absent => n = o
  BY <1>1 DEF Placed, Has, Holders
<1>5. \A v : v # Absent => (Somewhere(k, v) <=> data[o][k] = v)
  BY <1>1, <1>3, <1>4 DEF Somewhere, Carried
<1>6. \A v : v # Absent => (recorded[k] = v <=> data[o][k] = v)
  BY <1>5, RecordedIs
<1>. QED BY <1>6

LEMMA AtOwnerNext ==
    Inv' /\ Settled' =>
        \A k \in Keys, o \in Nodes \ failed' : o = Owner(members', k) => recorded'[k] = data'[o][k]
<1>1. (Inv /\ Settled =>
        \A k \in Keys, o \in Nodes \ failed : o = Owner(members, k) => recorded[k] = data[o][k])'
  BY AtOwner, PTL
<1>. QED BY <1>1

LEMMA AskImplements ==
    ASSUME Inv, Inv', NEW n \in Nodes, NEW k \in Keys, NEW v \in Values \cup {Absent},
           NEW t \in {"GET", "PUT", "DELETE"}, OnRequest(n, t, k, v)
    PROVE  Map!Next
<1> DEFINE r == [id |-> requests, node |-> n, type |-> t, key |-> k, value |-> v]
           w == [kind |-> "REQUEST", src |-> n, dst |-> Owner(nodes[n], k), request |-> r]
<1>1. net' = net \cup {w} /\ UNCHANGED <<nodes, data, failed, answered>>
  BY DEF OnRequest
<1>2. w.kind = "REQUEST" /\ w.request = r /\ r.id = requests
  OBVIOUS
<1> HIDE DEF r, w
<1>3. Updates' = Updates
  BY <1>1, <1>2 DEF Updates
<1>4. recorded' = recorded
  BY <1>1, <1>3 DEF recorded, Holding, Holders, Carrying, Carried
<1>5. Asked' = Asked \cup {r} /\ Served' = Served
  BY <1>1, <1>2 DEF Asked, Served
<1>6. r \notin Asked
  <2>1. requests \in Nat /\ \A m \in net : m.kind = "REQUEST" => m.request.id \in Nat
    BY MessageIs DEF Inv, TypeOK, Request
  <2>. QED BY <1>2, <2>1 DEF Inv, Single, Asked
<1>7. PICK q : q = r
  OBVIOUS
<1>8. q \in Asked' \ Asked
  BY <1>5, <1>6, <1>7
<1>9. Map!Ask(q)
  BY <1>1, <1>4, <1>5, <1>7 DEF Map!Ask, Asked, Served
<1>. QED BY <1>8, <1>9 DEF Map!Next, Asked

LEMMA ServeImplements ==
    ASSUME Inv, Inv', NEW m \in net, Serve(m)
    PROVE  Map!Next
<1> USE DEF Inv
<1> DEFINE r == m.request
           w == [kind |-> "RESPONSE", src |-> m.dst, dst |-> m.src,
                 request |-> r, value |-> Value(m.dst, r)]
<1>1. /\ m.kind = "REQUEST" /\ m.dst \notin failed
      /\ net' = (net \ {m}) \cup {w} /\ data' = Stored(m.dst, r)
      /\ UNCHANGED <<nodes, notices, members, failed, answered>>
  BY DEF Serve
<1>2. /\ m.dst \in Nodes /\ m.src = r.node /\ r.key \in Keys
      /\ r.type \in {"GET", "PUT", "DELETE"}
  BY <1>1, MessageIs DEF TypeOK, Request, Asking
<1>3. Settled /\ m.dst = Owner(members, r.key)
  BY <1>1 DEF Asking
<1>4. w.kind = "RESPONSE" /\ w.request = r /\ w.dst = r.node /\ w.value = Value(m.dst, r)
  BY <1>2
<1> HIDE DEF w
<1>5. Updates' = Updates /\ Settled' /\ Holders' = Holders
  BY <1>1, <1>3, <1>4 DEF Updates, Settled, Holders
<1>6. recorded[r.key] = data[m.dst][r.key] /\ recorded'[r.key] = data'[m.dst][r.key]
  <2>1. recorded[r.key] = data[m.dst][r.key]
    BY <1>1, <1>2, <1>3, AtOwner
  <2>2. recorded'[r.key] = data'[m.dst][r.key]
    BY <1>1, <1>2, <1>3, <1>5, AtOwnerNext
  <2>. QED BY <2>1, <2>2
<1>7. ASSUME NEW k \in Keys, k # r.key PROVE recorded'[k] = recorded[k]
  <2>1. \A n \in Nodes : data'[n][k] = data[n][k]
    <3>1. ASSUME NEW v, data' = [data EXCEPT ![m.dst][r.key] = v], NEW n \in Nodes
          PROVE  data'[n][k] = data[n][k]
      <4>1. DOMAIN data[n] = Keys
        BY DEF TypeOK, Records
      <4>2. data'[n] = IF n = m.dst THEN [data[n] EXCEPT ![r.key] = v] ELSE data[n]
        BY <1>2, <3>1 DEF TypeOK
      <4>. QED BY <1>7, <4>1, <4>2
    <3>. QED BY <1>1, <1>2, <3>1 DEF Stored
  <2>2. \A v : Somewhere(k, v)' <=> Somewhere(k, v)
    BY <1>1, <1>5, <2>1 DEF Somewhere, Carried, Holders
  <2>. QED BY <2>2, RecordedSame
<1>8. recorded' = Map!Applied(r)
  <2>1. recorded' = [recorded EXCEPT ![r.key] = data'[m.dst][r.key]]
    <3>1. recorded' = [k \in Keys |-> recorded'[k]] /\ recorded = [k \in Keys |-> recorded[k]]
      BY DEF recorded
    <3>. QED BY <1>6, <1>7, <3>1
  <2>2. m.dst \in DOMAIN data /\ DOMAIN data[m.dst] = Keys
    BY <1>2 DEF TypeOK, Records
  <2>3. CASE r.type = "GET"
    <3>1. recorded' = [recorded EXCEPT ![r.key] = recorded[r.key]]
      BY <1>1, <1>6, <2>1, <2>3 DEF Stored
    <3>2. recorded = [k \in Keys |-> recorded[k]]
      BY DEF recorded
    <3>3. recorded' = recorded
      BY <3>1, <3>2
    <3>. QED BY <2>3, <3>3 DEF Map!Applied
  <2>4. CASE r.type = "PUT"
    <3>1. data'[m.dst][r.key] = r.value
      BY <1>1, <1>2, <2>2, <2>4 DEF Stored
    <3>. QED BY <2>1, <2>4, <3>1 DEF Map!Applied
  <2>5. CASE r.type = "DELETE"
    <3>1. data'[m.dst][r.key] = Absent
      BY <1>1, <1>2, <2>2, <2>5 DEF Stored
    <3>. QED BY <2>1, <2>5, <3>1 DEF Map!Applied
  <2>. QED BY <1>2, <2>3, <2>4, <2>5
<1>9. r \in Asked /\ Asked' = Asked \ {r}
  <2>1. \A x \in net : x.kind = "REQUEST" /\ x.request = r => x = m
    BY <1>1 DEF Single
  <2>. QED BY <1>1, <1>4, <2>1 DEF Asked
<1>10. Served' = Served \cup {[request |-> r, node |-> r.node, value |-> Map!Result(r)]}
  <2>1. w.value = Map!Result(r)
    BY <1>4, <1>6 DEF Value, Map!Result
  <2>2. {x \in net' : x.kind = "RESPONSE"} = {x \in net : x.kind = "RESPONSE"} \cup {w}
    BY <1>1, <1>4
  <2>. QED BY <1>4, <2>1, <2>2 DEF Served
<1>11. Map!Serve(r)
  BY <1>1, <1>8, <1>9, <1>10 DEF Map!Serve, Asked, Served
<1>. QED BY <1>9, <1>11 DEF Map!Next, Asked

LEMMA AnswerImplements ==
    ASSUME Inv, Inv', NEW m \in net, OnResponse(m)
    PROVE  Map!Next
<1> USE DEF Inv
<1> DEFINE a == [request |-> m.request, node |-> m.dst, value |-> m.value]
<1>1. /\ m.kind = "RESPONSE" /\ net' = net \ {m} /\ answered' = answered \cup {a}
      /\ UNCHANGED <<nodes, data, failed>>
  BY DEF OnResponse
<1>2. Updates' = Updates
  BY <1>1 DEF Updates
<1>3. recorded' = recorded
  BY <1>1, <1>2 DEF recorded, Holding, Holders, Carrying, Carried
<1>4. Asked' = Asked
  BY <1>1 DEF Asked
<1>5. a \in Served /\ Served' = Served \ {a}
  <2>1. \A x \in net : x.kind = "RESPONSE" /\ x.request = m.request => x = m
    BY <1>1 DEF Single
  <2>. QED BY <1>1, <2>1 DEF Served
<1>6. Map!Answer(a)
  BY <1>1, <1>3, <1>4, <1>5 DEF Map!Answer, Asked, Served
<1>. QED BY <1>5, <1>6 DEF Map!Next, Served

LEMMA CrashImplements ==
    ASSUME Inv, Inv', NEW n \in Nodes, Crash(n)
    PROVE  Map!Next
<1>1. /\ failed' = failed \cup {n} /\ n \notin failed /\ net' \subseteq net
      /\ UNCHANGED <<nodes, data, answered>>
  BY DEF Crash
<1>2. Asked' \subseteq Asked /\ Served' \subseteq Served
  BY <1>1 DEF Asked, Served
<1>3. ASSUME NEW k \in Keys PROVE recorded'[k] \in {recorded[k], Absent}
  <2>1. \A v : v # Absent => (Somewhere(k, v) <=> recorded[k] = v)
    BY RecordedIs
  <2>2. \A v : v # Absent => (Somewhere(k, v)' <=> recorded'[k] = v)
    BY RecordedIsNext
  <2>3. \A v : Somewhere(k, v)' => Somewhere(k, v)
    BY <1>1 DEF Somewhere, Holders, Carried, Updates
  <2>. QED BY <2>1, <2>2, <2>3
<1>4. Map!Fail
  BY <1>1, <1>2, <1>3 DEF Map!Fail, Asked, Served
<1>. QED BY <1>4 DEF Map!Next

LEMMA UpdateUnseen ==
    ASSUME Inv, Inv', NEW m \in net, OnUpdate(m)
    PROVE  UNCHANGED Map!vars
<1> USE DEF Inv
<1>1. /\ m \in Updates /\ net' = net \ {m} /\ m.dst \in Nodes /\ m.data \in Records
      /\ m.dst \notin failed /\ m.kind = "UPDATE"
      /\ data' = [data EXCEPT ![m.dst] = Merged(data[m.dst], m.data)]
      /\ UNCHANGED <<nodes, failed, answered>>
  BY MessageIs DEF OnUpdate, Updates, TypeOK
<1>2. Updates = {m} /\ Updates' = {} /\ ~Settled /\ m.dst \in members
  BY <1>1 DEF Updates, Placed, Settled
<1>3. m.dst \in Holders /\ Holders' = Holders
  BY <1>1, <1>2, MemberHolds DEF Holders
<1>4. ASSUME NEW k \in Keys, NEW v, v # Absent PROVE Somewhere(k, v)' <=> Somewhere(k, v)
  <2>1. \A n \in Nodes : n # m.dst => data'[n][k] = data[n][k]
    BY <1>1 DEF TypeOK
  <2>2. data'[m.dst][k] = IF m.data[k] = Absent THEN data[m.dst][k] ELSE m.data[k]
    BY <1>1 DEF TypeOK, Merged
  <2>3. m.data[k] # Absent => data[m.dst][k] = Absent
    BY <1>1 DEF Placed
  <2>4. Carried = {m} /\ Carried' = {}
    BY <1>1, <1>2 DEF Carried
  <2>5. Somewhere(k, v) <=> m.data[k] = v \/ \E n \in Holders : data[n][k] = v
    BY <2>4 DEF Somewhere
  <2>6. Somewhere(k, v)' <=> \E n \in Holders : data'[n][k] = v
    BY <1>3, <2>4 DEF Somewhere
  <2>7. Holders \subseteq Nodes
    BY DEF Holders
  <2>. QED BY <1>3, <1>4, <2>1, <2>2, <2>3, <2>5, <2>6, <2>7
<1>. QED BY <1>1, <1>4, Unseen

LEMMA AddUnseen ==
    ASSUME Inv, Inv', ~Overlapping, NEW a \in Nodes, AddNode(a)
    PROVE  UNCHANGED Map!vars
<1> USE DEF Inv
<1>1. /\ a \notin Created
      /\ nodes' = [nodes EXCEPT ![a] = members \cup {a}]
      /\ UNCHANGED <<data, net, failed, answered>>
  BY DEF AddNode
<1>2. Holders' \subseteq Holders \cup {a} /\ Holders \subseteq Holders'
  BY <1>1 DEF Holders, Created, TypeOK
<1>3. \A k \in Keys : data[a][k] = Absent
  BY <1>1 DEF Views, Empty
<1>4. Carried' = Carried
  BY <1>1 DEF Carried, Updates
<1>5. \A k \in Keys : \A v : v # Absent => (Somewhere(k, v)' <=> Somewhere(k, v))
  BY <1>1, <1>2, <1>3, <1>4 DEF Somewhere
<1>. QED BY <1>1, <1>5, Unseen

LEMMA RemoveUnseen ==
    ASSUME Inv, Inv', NEW r \in Nodes, RemoveNode(r)
    PROVE  UNCHANGED Map!vars
<1>1. UNCHANGED <<nodes, data, net, failed, answered>>
  BY DEF RemoveNode
<1>2. Holders' = Holders /\ Carried' = Carried
  BY <1>1 DEF Holders, Carried, Updates
<1>3. \A k \in Keys : \A v : v # Absent => (Somewhere(k, v)' <=> Somewhere(k, v))
  BY <1>1, <1>2 DEF Somewhere
<1>. QED BY <1>1, <1>3, Unseen

LEMMA NodeAddedUnseen ==
    ASSUME Inv, Inv', NEW n \in Nodes, OnNodeAdded(n)
    PROVE  UNCHANGED Map!vars
<1> USE DEF Inv
<1> DEFINE a == Change(n).id
           u == Update(n, a, Moved(n, members, a))
<1>1. /\ n \in Waiting /\ Change(n).type = "NODE_ADDED" /\ ~Settled
      /\ UNCHANGED <<members, failed, answered>>
  BY DEF OnNodeAdded, HasNotice, Waiting, Change, Settled
<1>2. /\ a \in members
      /\ nodes[n] = IF n = a THEN members ELSE members \ {a}
      /\ nodes[n] \cup {a} = members
  BY <1>1, NoticeIs
<1>3. /\ nodes' = [nodes EXCEPT ![n] = members]
      /\ IF n # a /\ n = Owner(nodes[n], a)
         THEN /\ data' = [data EXCEPT ![n] = Kept(n, members, a)]
              /\ net' = net \cup {u}
         ELSE UNCHANGED <<data, net>>
  BY <1>2 DEF OnNodeAdded, Change
<1>4. u.kind = "UPDATE" /\ u.dst = a /\ u.data = Moved(n, members, a)
  BY DEF Update
<1> HIDE DEF a, u
<1>5. Holders' = Holders
  BY <1>1, <1>2, <1>3 DEF Holders, TypeOK
<1>6. \A m : m.kind # "UPDATE" => (m \in net' <=> m \in net)
  BY <1>3, <1>4
<1>7. CASE n # a /\ n = Owner(nodes[n], a)
  <2>1. n \in members /\ a \notin failed
    <3>1. nodes[n] # {} /\ nodes[n] \subseteq Nodes /\ a \in Nat
      BY <1>1, <1>2, KvShardingAssumption DEF TypeOK, Views, Created
    <3>2. n \in nodes[n]
      BY <1>7, <3>1, OwnerIn
    <3>. QED BY <1>1, <1>2, <3>2 DEF AllUp
  <2>2. n \in Holders /\ n \in Nodes
    BY <1>1, <2>1, MemberHolds
  <2>3. Carried' = Carried \cup {u}
    BY <1>1, <1>3, <1>4, <1>7, <2>1 DEF Carried, Updates
  <2>4. ASSUME NEW k \in Keys, NEW v, v # Absent PROVE Somewhere(k, v)' <=> Somewhere(k, v)
    <3>1. \A o \in Nodes : o # n => data'[o][k] = data[o][k]
      BY <1>3, <1>7 DEF TypeOK
    <3>2. \/ data'[n][k] = data[n][k] /\ u.data[k] = Absent
          \/ data'[n][k] = Absent /\ u.data[k] = data[n][k]
      BY <1>3, <1>4, <1>7 DEF TypeOK, Kept, Moved
    <3>3. Holders \subseteq Nodes
      BY DEF Holders
    <3>. QED BY <1>5, <2>2, <2>3, <2>4, <3>1, <3>2, <3>3 DEF Somewhere
  <2>. QED BY <1>1, <1>6, <2>4, Unseen
<1>8. CASE ~(n # a /\ n = Owner(nodes[n], a))
  <2>1. data' = data /\ Carried' = Carried
    BY <1>1, <1>3, <1>8 DEF Carried, Updates
  <2>2. \A k \in Keys : \A v : v # Absent => (Somewhere(k, v)' <=> Somewhere(k, v))
    BY <1>5, <2>1 DEF Somewhere
  <2>. QED BY <1>1, <1>6, <2>2, Unseen
<1>. QED BY <1>7, <1>8

LEMMA NodeRemovedUnseen ==
    ASSUME Inv, Inv', NEW n \in Nodes, OnNodeRemoved(n)
    PROVE  UNCHANGED Map!vars
<1> USE DEF Inv
<1> DEFINE r == Change(n).id
           u == Update(n, Owner(members, r), data[n])
<1>1. /\ n \in Waiting /\ Change(n).type = "NODE_REMOVED" /\ ~Settled
      /\ UNCHANGED <<data, members, failed, answered>>
  BY DEF OnNodeRemoved, HasNotice, Waiting, Change, Settled
<1>2. r \notin members /\ nodes[n] = members \cup {r} /\ nodes[n] \ {r} = members
  BY <1>1, NoticeIs
<1>3. /\ nodes' = [nodes EXCEPT ![n] = members]
      /\ net' = IF n = r THEN net \cup {u} ELSE net
  BY <1>2 DEF OnNodeRemoved, Change, Heir
<1>4. u.kind = "UPDATE" /\ u.dst = Owner(members, r) /\ u.data = data[n]
  BY DEF Update
<1> HIDE DEF r, u
<1>5. Holders' = IF n = r THEN Holders \ {n} ELSE Holders
  BY <1>1, <1>2, <1>3 DEF Holders, TypeOK
<1>6. \A m : m.kind # "UPDATE" => (m \in net' <=> m \in net)
  BY <1>3, <1>4
<1>7. CASE n = r
  <2>1. u.dst \notin failed
    <3>1. PICK ring : ring = members
      OBVIOUS
    <3>2. ring \subseteq Nodes /\ ring # {} /\ r \in Nat
      BY <1>7, <3>1, KvShardingAssumption DEF TypeOK
    <3>3. Owner(ring, r) \in ring
      BY <3>2, OwnerIn
    <3>. QED BY <1>1, <1>4, <3>1, <3>3 DEF AllUp
  <2>2. n \in Holders
    BY <1>1, <1>2, <1>7 DEF Holders, Views
  <2>3. Carried' = Carried \cup {u}
    BY <1>1, <1>3, <1>4, <1>7, <2>1 DEF Carried, Updates
  <2>4. \A k \in Keys : \A v : v # Absent => (Somewhere(k, v)' <=> Somewhere(k, v))
    BY <1>1, <1>4, <1>5, <1>7, <2>2, <2>3 DEF Somewhere
  <2>. QED BY <1>1, <1>6, <2>4, Unseen
<1>8. CASE n # r
  <2>1. Carried' = Carried
    BY <1>1, <1>3, <1>8 DEF Carried, Updates
  <2>2. \A k \in Keys : \A v : v # Absent => (Somewhere(k, v)' <=> Somewhere(k, v))
    BY <1>1, <1>5, <1>8, <2>1 DEF Somewhere
  <2>. QED BY <1>1, <1>6, <2>2, Unseen
<1>. QED BY <1>7, <1>8

LEMMA MapStep ==
    ASSUME Inv, Inv', ~Overlapping, [Next]_vars
    PROVE  [Map!Next]_(Map!vars)
<1>1. CASE Next
  BY <1>1, AskImplements, ServeImplements, AnswerImplements, CrashImplements,
     UpdateUnseen, AddUnseen, RemoveUnseen, NodeAddedUnseen, NodeRemovedUnseen DEF Next
<1>2. CASE UNCHANGED vars
  <2>1. UNCHANGED <<nodes, data, failed, net, answered>>
    BY <1>2 DEF vars
  <2>2. Holders' = Holders /\ Carried' = Carried
    BY <2>1 DEF Holders, Carried, Updates
  <2>3. \A k \in Keys : \A v : v # Absent => (Somewhere(k, v)' <=> Somewhere(k, v))
    BY <2>1, <2>2 DEF Somewhere
  <2>. QED BY <2>1, <2>3, Unseen
<1>. QED BY <1>1, <1>2

\* To its users the store is one map: a rebalancing, whatever the order in which
\* the nodes learn of it, loses, revives and alters no record, every request takes
\* effect once, at its key's owner, and the answer goes to the node that asked.
THEOREM Refinement == ASSUME ~Overlapping PROVE Spec => ImplementsMap
<1>1. Init => Map!Init
  BY MapInit
<1>2. Inv /\ Inv' /\ [Next]_vars => [Map!Next]_(Map!vars)
  BY MapStep
<1>. QED BY <1>1, <1>2, Rebalancing, PTL DEF Spec, ImplementsMap, Map!Spec
==============================================================================

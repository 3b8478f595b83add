----------------------------- MODULE KvSharding -----------------------------
(***************************************************************************)
(* The sharded key-value store (homework 07, StorageNode).  Every node     *)
(* knows the whole ring.  A request goes from the node that was asked to   *)
(* the owner of its key and the answer comes back.  When the administrator *)
(* adds or removes a node every node is told, each at a time of its own,   *)
(* and the one whose records must move sends them in one UPDATE.           *)
(*                                                                         *)
(* A name is abstracted to its hash: nodes and keys are numbers.  KeyStore *)
(* models the search in the ring, and nodes whose hashes collide.          *)
(*                                                                         *)
(* The network is reliable and reorders.  While records move nobody asks   *)
(* (readme, "for simplicity").  A node may crash between two changes; the  *)
(* administrator then removes it before any other change.                  *)
(***************************************************************************)
EXTENDS Ring, Sequences

CONSTANTS Initial,      \* the nodes the system starts with
          Spare,        \* the nodes that may be added
          Keys,
          Values,
          Absent,       \* no record (None)
          MaxRequests,  \* bound of the model: requests of the users
          MaxChanges,   \* bound of the model: additions and removals
          MaxCrashes,   \* bound of the model: crashes
          Overlapping   \* may a change begin before the last one is complete

Nodes == Initial \cup Spare

ASSUME KvShardingAssumption ==
    /\ IsFiniteSet(Nodes) /\ Nodes \subseteq Nat /\ Initial # {}
    /\ Initial \cap Spare = {}
    /\ Keys \subseteq Nat
    /\ Absent \notin Values
    /\ MaxRequests \in Nat /\ MaxChanges \in Nat /\ MaxCrashes \in Nat
    /\ Overlapping \in BOOLEAN

VARIABLES nodes,     \* n -> the set of nodes in _nodes; {} before n is created
          data,      \* n -> _data, key -> value or Absent
          notices,   \* n -> the administrator's messages n has not handled yet
          net,       \* the messages in flight
          members,   \* the administrator's list of nodes
          failed,    \* the nodes that have crashed
          changes,   \* how many changes the administrator has made
          requests,  \* history: how many requests the users have made
          answered   \* history: what was given to send_local

vars == <<nodes, data, notices, net, members, failed, changes, requests, answered>>

Empty == [k \in Keys |-> Absent]

Init ==
    /\ nodes = [n \in Nodes |-> IF n \in Initial THEN Initial ELSE {}]
    /\ data = [n \in Nodes |-> Empty]
    /\ notices = [n \in Nodes |-> << >>]
    /\ net = {}
    /\ members = Initial
    /\ failed = {}
    /\ changes = 0
    /\ requests = 0
    /\ answered = {}

Created == {n \in Nodes : nodes[n] # {}}
Updates == {m \in net : m.kind = "UPDATE"}

\* Every node has handled every notice, and no records are moving.
Settled == (\A n \in Nodes : notices[n] = << >>) /\ Updates = {}

\* No request is on its way to a node that could serve it.
Idle == \A m \in net : m.kind = "REQUEST" => m.dst \in failed

-----------------------------------------------------------------------------
(* Users and nodes *)

\* GET, PUT and DELETE from the user of n: the request goes to the owner, which
\* may be n itself.
OnRequest(n, type, k, v) ==
    LET r == [id |-> requests, node |-> n, type |-> type, key |-> k, value |-> v]
    IN  /\ n \in members \ failed
        /\ Settled
        /\ requests < MaxRequests
        /\ v = Absent <=> type # "PUT"
        /\ requests' = requests + 1
        /\ net' = net \cup {[kind |-> "REQUEST", src |-> n,
                             dst |-> Owner(nodes[n], k), request |-> r]}
        /\ UNCHANGED <<nodes, data, notices, members, failed, changes, answered>>

\* What _data of the owner becomes, and the value in the answer.
Stored(n, r) ==
    CASE r.type = "GET"    -> data
      [] r.type = "PUT"    -> [data EXCEPT ![n][r.key] = r.value]
      [] r.type = "DELETE" -> [data EXCEPT ![n][r.key] = Absent]

Value(n, r) == IF r.type = "PUT" THEN r.value ELSE data[n][r.key]

\* A node serves whatever it is asked, whether or not it owns the key.
Serve(m) ==
    /\ m \in net /\ m.kind = "REQUEST" /\ m.dst \notin failed
    /\ data' = Stored(m.dst, m.request)
    /\ net' = (net \ {m}) \cup
                 {[kind |-> "RESPONSE", src |-> m.dst, dst |-> m.src,
                   request |-> m.request, value |-> Value(m.dst, m.request)]}
    /\ UNCHANGED <<nodes, notices, members, failed, changes, requests, answered>>

OnResponse(m) ==
    /\ m \in net /\ m.kind = "RESPONSE" /\ m.dst \notin failed
    /\ answered' = answered \cup
                      {[request |-> m.request, node |-> m.dst, value |-> m.value]}
    /\ net' = net \ {m}
    /\ UNCHANGED <<nodes, data, notices, members, failed, changes, requests>>

\* _data.update: the records that arrive prevail.
Merged_Replaced(mine, theirs) == theirs
Merged(mine, theirs) == [k \in Keys |-> IF theirs[k] = Absent THEN mine[k] ELSE theirs[k]]

OnUpdate(m) ==
    /\ m \in net /\ m.kind = "UPDATE" /\ m.dst \notin failed
    /\ data' = [data EXCEPT ![m.dst] = Merged(@, m.data)]
    /\ net' = net \ {m}
    /\ UNCHANGED <<nodes, notices, members, failed, changes, requests, answered>>

-----------------------------------------------------------------------------
(* The administrator *)

\* Every process that runs is told, one that was removed before included.
Told(type, a, running) ==
    [n \in Nodes |-> IF n \in running \ failed
                     THEN Append(notices[n], [type |-> type, id |-> a])
                     ELSE notices[n]]

\* The environment of the readme; a crashed node is the first to be removed.
MayChange(n) ==
    /\ changes < MaxChanges
    /\ Idle
    /\ Overlapping \/ Settled
    /\ members \cap failed \subseteq {n}

AddNode(a) ==
    /\ MayChange(a)
    /\ a \in Nodes \ Created
    /\ members' = members \cup {a}
    /\ nodes' = [nodes EXCEPT ![a] = members \cup {a}]
    /\ notices' = Told("NODE_ADDED", a, Created \cup {a})
    /\ changes' = changes + 1
    /\ UNCHANGED <<data, net, failed, requests, answered>>

RemoveNode(r) ==
    /\ MayChange(r)
    /\ r \in members /\ members # {r}
    /\ members' = members \ {r}
    /\ notices' = Told("NODE_REMOVED", r, Created)
    /\ changes' = changes + 1
    /\ UNCHANGED <<nodes, data, net, failed, requests, answered>>

-----------------------------------------------------------------------------
(* Rebalancing *)

Kept(n, ring, a) ==
    [k \in Keys |-> IF Keeps(ring, n, a, k) THEN data[n][k] ELSE Absent]
Moved_All(n, ring, a) == data[n]
Moved(n, ring, a) ==
    [k \in Keys |-> IF Keeps(ring, n, a, k) THEN Absent ELSE data[n][k]]

Update(n, to, records) == [kind |-> "UPDATE", src |-> n, dst |-> to, data |-> records]

HasNotice(n, type) ==
    n \notin failed /\ notices[n] # << >> /\ Head(notices[n]).type = type

\* The new node itself does nothing: it was created with the list that has it.
\* The node before it on the ring sends it what it no longer keeps.
OnNodeAdded(n) ==
    LET a == Head(notices[n]).id
        ring == nodes[n] \cup {a}
    IN  /\ HasNotice(n, "NODE_ADDED")
        /\ nodes' = [nodes EXCEPT ![n] = ring]
        /\ IF n # a /\ n = Owner(nodes[n], a)
           THEN /\ data' = [data EXCEPT ![n] = Kept(n, ring, a)]
                /\ net' = net \cup {Update(n, a, Moved(n, ring, a))}
           ELSE UNCHANGED <<data, net>>
        /\ notices' = [notices EXCEPT ![n] = Tail(@)]
        /\ UNCHANGED <<members, failed, changes, requests, answered>>

\* The node where the records of r go, looked up without r.
Heir_Next(r, ring) == Owner_After(ring, r)
Heir(r, ring) == Owner(ring, r)

\* A node that is removed sends its records to its heir, and keeps its copy.
OnNodeRemoved(n) ==
    LET r == Head(notices[n]).id
        ring == nodes[n] \ {r}
    IN  /\ HasNotice(n, "NODE_REMOVED")
        /\ nodes' = [nodes EXCEPT ![n] = ring]
        /\ net' = IF n = r THEN net \cup {Update(n, Heir(r, ring), data[n])} ELSE net
        /\ notices' = [notices EXCEPT ![n] = Tail(@)]
        /\ UNCHANGED <<data, members, failed, changes, requests, answered>>

\* Its records are lost, and perhaps what it has just sent; what is addressed to
\* it stays in net and is never received.
Crash(n) ==
    /\ Settled
    /\ Cardinality(failed) < MaxCrashes
    /\ n \in members \ failed /\ members # {n}
    /\ failed' = failed \cup {n}
    /\ \E lost \in SUBSET {m \in net : m.src = n} : net' = net \ lost
    /\ UNCHANGED <<nodes, data, notices, members, changes, requests, answered>>

-----------------------------------------------------------------------------
Next ==
    \/ \E n \in Nodes, k \in Keys, v \in Values \cup {Absent}, t \in {"GET", "PUT", "DELETE"} :
          OnRequest(n, t, k, v)
    \/ \E m \in net : Serve(m)
    \/ \E m \in net : OnResponse(m)
    \/ \E m \in net : OnUpdate(m)
    \/ \E n \in Nodes : AddNode(n)
    \/ \E n \in Nodes : RemoveNode(n)
    \/ \E n \in Nodes : OnNodeAdded(n)
    \/ \E n \in Nodes : OnNodeRemoved(n)
    \/ \E n \in Nodes : Crash(n)

Spec == Init /\ [][Next]_vars

-----------------------------------------------------------------------------

\* The places where records live: a node that has handled its own removal has
\* handed its copy over.
Holders == {n \in Nodes \ failed : n \in nodes[n]}
Carried == {m \in Updates : m.dst \notin failed}

Holding(k) == {n \in Holders : data[n][k] # Absent}
Carrying(k) == {m \in Carried : m.data[k] # Absent}

\* At every moment of a rebalancing a record is in one place only, at a node or
\* on its way to one, so that a later UPDATE never overwrites a newer value.
SingleCopy == \A k \in Keys : Cardinality(Holding(k)) + Cardinality(Carrying(k)) <= 1

\* Between two changes the nodes agree on the ring, and each record is at the
\* node where every one of them looks for it.
PlacedWhenSettled ==
    Settled =>
        /\ \A n \in members \ failed : nodes[n] = members
        /\ \A k \in Keys : Holding(k) \subseteq {Owner(members, k)}

recorded ==
    [k \in Keys |->
        IF Holding(k) # {} THEN LET n == CHOOSE n \in Holding(k) : TRUE IN data[n][k]
        ELSE IF Carrying(k) # {} THEN LET m == CHOOSE m \in Carrying(k) : TRUE IN m.data[k]
        ELSE Absent]

Map ==
    INSTANCE KeyValue WITH
        map <- recorded,
        asked <- {m.request : m \in {x \in net : x.kind = "REQUEST"}},
        served <- {[request |-> m.request, node |-> m.dst, value |-> m.value] :
                      m \in {x \in net : x.kind = "RESPONSE"}}

\* To its users the store is one map: no rebalancing loses, revives or alters a
\* record, every answer is the value at one moment since it was asked, and goes
\* to the node that asked.
ImplementsMap == Map!Spec

=============================================================================

---------------------------- MODULE KvReplication ----------------------------
(***************************************************************************)
(* The replicated key-value store (homework 08, StorageNode): one key.     *)
(* The node a user asks is the coordinator: it sends the operation to the  *)
(* replicas, repairs those that answer with something older than the best  *)
(* answer, and replies to its user after a quorum of equal answers.  Every *)
(* ROUND_TRIP it tries one more node, until N have answered.  A node that  *)
(* is no replica keeps what it receives as a hint and sends it to the      *)
(* replicas until each of them has acknowledged it.                        *)
(*                                                                         *)
(* Keys are independent of each other, except that hints for keys with the *)
(* same replicas travel together; one key is modelled, whose replicas are  *)
(* the nodes 0, 1 and 2.  A value is a number, in the order of the         *)
(* strings; 0 is the empty string, the mark of a deleted key.  What is     *)
(* stored is a pair (time, value) and later pairs win.                     *)
(*                                                                         *)
(* Nodes are cut off the network and connected again; what is sent from or *)
(* to a node that is cut off is lost, what is under way arrives.           *)
(***************************************************************************)
EXTENDS Integers, FiniteSetsExt, Functions

CONSTANTS NodeCount,
          Clients,      \* bound of the model: the nodes that users ask
          Values,       \* the values that users write
          Types,        \* the operations that users ask for
          Quorums,      \* the quorums that users ask for
          MaxRequests,  \* bound of the model: requests of the users
          MaxPending,   \* bound of the model: requests not answered yet
          MaxCuts,      \* bound of the model: how often a node is cut off
          MaxEarly      \* bound of the model: timers that fire although
                        \* messages are under way

ASSUME KvReplicationAssumption ==
    /\ NodeCount \in Nat /\ NodeCount >= 3
    /\ Clients \subseteq 0 .. NodeCount - 1
    /\ Values \subseteq Nat \ {0}
    /\ Types \subseteq {"GET", "PUT", "DELETE"}
    /\ Quorums \subseteq 1 .. 3
    /\ MaxRequests \in Nat /\ MaxPending \in Nat /\ MaxCuts \in Nat /\ MaxEarly \in Nat

N == 3
Nodes == 0 .. NodeCount - 1
Replicas == 0 .. N - 1
NextReplica_Same(n) == n
NextReplica(n) == (n + 1) % NodeCount

VARIABLES data,      \* n -> _data[key]
          events,    \* the coordinators' _events, request -> what is known of it
          hints,     \* n -> the UPDATE event of n
          net,       \* the messages under way
          cut,       \* the nodes that are cut off
          now,       \* the time of the last request
          cuts,      \* how often a node has been cut off
          early,     \* how often a timer has fired early
          answered,  \* history: request -> the pair sent to the user
          floor,     \* history: request -> the latest pair it must not miss
          raised     \* history: lines at which a handler raised KeyError

vars == <<data, events, hints, net, cut, now, cuts, early, answered, floor, raised>>
bounds == <<cut, now, cuts, early>>

-----------------------------------------------------------------------------
(* Pairs of time and value *)

None == <<-1, 0>>
NoValue == -1       \* a message without the field "value"
Less(a, b) == a[1] < b[1] \/ (a[1] = b[1] /\ a[2] < b[2])
Latest(S) == CHOOSE a \in S : \A b \in S : ~Less(a, b)
Newer_Arrived(old, new) == new
Newer(old, new) == IF Less(old, new) THEN new ELSE old

NoHint == [open |-> FALSE, item |-> None, update |-> {}]
FreshHint == [open |-> TRUE, item |-> None, update |-> Replicas]

Init ==
    /\ data = [n \in Nodes |-> None]
    /\ events = << >>
    /\ hints = [n \in Nodes |-> NoHint]
    /\ net = {}
    /\ cut = {} /\ now = 0 /\ cuts = 0 /\ early = 0
    /\ answered = << >>
    /\ floor = << >>
    /\ raised = {}

\* A node always reaches itself.
Reaches(m) == m.src = m.dst \/ {m.src, m.dst} \cap cut = {}
Sent(flight, msgs) == flight \cup {m \in msgs : Reaches(m)}

-----------------------------------------------------------------------------
(* The coordinator *)

\* The latest pair written by a PUT or DELETE that has been answered and whose
\* quorum meets every quorum of q replicas.  Requests are numbered from 1.
Written(i) == IF events[i].type = "DELETE" THEN <<events[i].time, 0>> ELSE answered[i]
FloorOf(q) ==
    Latest({None} \cup {Written(i) : i \in {j \in DOMAIN answered :
               events[j].type # "GET" /\ events[j].quorum + q > N}})

\* Clocks agree; two requests have the same time only if the first is not
\* answered yet.
TimeOf(t) ==
    \/ t = now + 1
    \/ t = now /\ \A i \in DOMAIN events : events[i].time = t => i \notin DOMAIN answered

OnLocalMessage(n, type, value, q) ==
    LET i == Cardinality(DOMAIN events) + 1
    IN  /\ i <= MaxRequests
        /\ Cardinality(DOMAIN events \ DOMAIN answered) < MaxPending
        /\ value = NoValue <=> type # "PUT"
        /\ \E t \in {now, now + 1} :
              /\ TimeOf(t)
              /\ now' = t
              /\ events' = [j \in 1 .. i |->
                    IF j < i THEN events[j]
                    ELSE [node |-> n, type |-> type, time |-> t, value |-> value,
                          quorum |-> q, sent |-> FALSE, resp |-> << >>,
                          handoff |-> NextReplica(N - 1), open |-> TRUE]]
              /\ net' = Sent(net, {[type |-> type, src |-> n, dst |-> r, id |-> i,
                                    time |-> t, value |-> value] : r \in Replicas})
        /\ floor' = [j \in 1 .. i |-> IF j < i THEN floor[j] ELSE FloorOf(q)]
        /\ UNCHANGED <<data, hints, cut, cuts, early, answered, raised>>

\* event["resp"] with the answer of one more node, unless a later one is there.
WithAnswer(resp, n, item) ==
    IF n \in DOMAIN resp /\ Less(item, resp[n]) THEN resp
    ELSE [x \in DOMAIN resp \cup {n} |-> IF x = n THEN item ELSE resp[x]]

\* A repair is a copy of the answer being handled, with the best pair in it if
\* it is a PUT.
Repair(m, to, item) ==
    IF m.type = "DELETE_RESP"
    THEN [type |-> "DELETE", src |-> m.dst, dst |-> to, id |-> m.id,
          time |-> m.time, value |-> m.value]
    ELSE [type |-> "PUT", src |-> m.dst, dst |-> to, id |-> m.id,
          time |-> item[1], value |-> item[2]]

\* What is left of resp when the nodes to be repaired are taken out.
Agreeing_All(resp, item) == resp
Agreeing(resp, item) == Restrict(resp, {n \in DOMAIN resp : ~Less(resp[n], item)})

QuorumReached(resp, q) == Cardinality(DOMAIN resp) >= q

Responses == {"GET_RESP", "PUT_RESP", "DELETE_RESP"}

\* KeyError: the handler ends there, and nothing but the message is gone.
Raise(line, m) ==
    /\ raised' = raised \cup {line}
    /\ net' = net \ {m}
    /\ UNCHANGED <<data, events, hints, bounds, answered, floor>>

CountResponse(m) ==
    LET e == events[m.id]
        all == WithAnswer(e.resp, m.src, <<m.time, m.value>>)
        actual == Latest(Range(all))
        resp == Agreeing(all, actual)
        stale == {n \in DOMAIN all : Less(all[n], actual)}
        reply == QuorumReached(resp, e.quorum) /\ ~e.sent
    IN  /\ events' = [events EXCEPT ![m.id].resp = resp, ![m.id].sent = @ \/ reply]
        /\ net' = Sent(net \ {m}, {Repair(m, n, actual) : n \in stale})
        /\ answered' = IF reply
                       THEN [i \in DOMAIN answered \cup {m.id} |->
                                IF i = m.id THEN actual ELSE answered[i]]
                       ELSE answered
        /\ UNCHANGED <<data, hints, bounds, floor, raised>>

\* The event may have been dropped, and an answer to a deletion may have no value.
OnResponse(m) ==
    /\ m \in net /\ m.type \in Responses
    /\ IF ~events[m.id].open THEN Raise(52, m)
       ELSE IF m.value = NoValue THEN Raise(53, m)
       ELSE CountResponse(m)

\* ROUND_TRIP is longer than the way of a message and back: a timer fires when
\* nothing is under way any more, or early.
Timeout ==
    \/ net = {} /\ UNCHANGED early
    \/ net # {} /\ early < MaxEarly /\ early' = early + 1

\* The request is dropped when N nodes have answered, otherwise one more node
\* is tried.
Complete(e) == Cardinality(DOMAIN e.resp) = N

OnEventTimer(i) ==
    LET e == events[i]
    IN  /\ e.open
        /\ Timeout
        /\ IF Complete(e)
           THEN events' = [events EXCEPT ![i].open = FALSE] /\ UNCHANGED net
           ELSE /\ events' = [events EXCEPT ![i].handoff = NextReplica(@)]
                /\ net' = Sent(net, {[type |-> e.type, src |-> e.node, dst |-> e.handoff,
                                      id |-> i, time |-> e.time, value |-> e.value]})
        /\ UNCHANGED <<data, hints, cut, now, cuts, answered, floor, raised>>

-----------------------------------------------------------------------------
(* Replicas and hints *)

\* What n knows of the key: a node that is no replica has it in a hint.
Stored(n) == IF n \in Replicas THEN data[n] ELSE hints[n].item

Store(n, item) ==
    IF n \in Replicas
    THEN data' = [data EXCEPT ![n] = item] /\ UNCHANGED hints
    ELSE /\ hints' = [hints EXCEPT ![n] =
                          [(IF @.open THEN @ ELSE FreshHint) EXCEPT !.item = item]]
         /\ UNCHANGED data

\* What the operation leaves stored, and the pair in the answer.  An answer to
\* a deletion carries the time of the request, and the value in it if the node
\* has nothing older.
Effect_NoMark(n, m) ==
    CASE m.type = "GET"    -> Stored(n)
      [] m.type = "PUT"    -> Newer(Stored(n), <<m.time, m.value>>)
      [] m.type = "DELETE" -> IF Stored(n)[1] < m.time THEN None ELSE Stored(n)
Effect(n, m) ==
    CASE m.type = "GET"    -> Stored(n)
      [] m.type = "PUT"    -> Newer(Stored(n), <<m.time, m.value>>)
      [] m.type = "DELETE" -> IF Stored(n)[1] < m.time THEN <<m.time, 0>> ELSE Stored(n)

Answer(n, m) ==
    CASE m.type = "GET"    -> Stored(n)
      [] m.type = "PUT"    -> Effect(n, m)
      [] m.type = "DELETE" ->
            <<m.time, IF Stored(n)[1] < m.time THEN Stored(n)[2] ELSE m.value>>

ResponseTo(type) ==
    CASE type = "GET" -> "GET_RESP" [] type = "PUT" -> "PUT_RESP" [] OTHER -> "DELETE_RESP"

OnOperation(m) ==
    LET a == Answer(m.dst, m)
    IN  /\ m \in net /\ m.type \in {"GET", "PUT", "DELETE"}
        /\ Store(m.dst, Effect(m.dst, m))
        /\ net' = Sent(net \ {m}, {[type |-> ResponseTo(m.type), src |-> m.dst, dst |-> m.src,
                                    id |-> m.id, time |-> a[1], value |-> a[2]]})
        /\ UNCHANGED <<events, bounds, answered, floor, raised>>

Informed_All(n) == Replicas
Informed(n) == hints[n].update

OnHintTimer(n) ==
    /\ hints[n].open
    /\ Timeout
    /\ IF hints[n].update = {}
       THEN hints' = [hints EXCEPT ![n] = NoHint] /\ UNCHANGED net
       ELSE /\ net' = Sent(net, {[type |-> "UPDATE", src |-> n, dst |-> r,
                                  item |-> hints[n].item] : r \in Informed(n)})
            /\ UNCHANGED hints
    /\ UNCHANGED <<data, events, cut, now, cuts, answered, floor, raised>>

OnUpdate(m) ==
    /\ m \in net /\ m.type = "UPDATE"
    /\ data' = [data EXCEPT ![m.dst] = Newer(@, m.item)]
    /\ net' = Sent(net \ {m}, {[type |-> "ACK", src |-> m.dst, dst |-> m.src]})
    /\ UNCHANGED <<events, hints, bounds, answered, floor, raised>>

Acknowledged_All(n, r) == {}
Acknowledged(n, r) == hints[n].update \ {r}

\* The replica may have acknowledged before, and the hint may have been dropped.
OnAck(m) ==
    /\ m \in net /\ m.type = "ACK"
    /\ IF m.src \in hints[m.dst].update
       THEN /\ hints' = [hints EXCEPT ![m.dst].update = Acknowledged(m.dst, m.src)]
            /\ net' = net \ {m}
            /\ UNCHANGED <<data, events, bounds, answered, floor, raised>>
       ELSE Raise(49, m)

-----------------------------------------------------------------------------
(* The network *)

Disconnect(n) ==
    /\ cuts < MaxCuts
    /\ n \notin cut
    /\ cut' = cut \cup {n}
    /\ cuts' = cuts + 1
    /\ UNCHANGED <<data, events, hints, net, now, early, answered, floor, raised>>

Connect(n) ==
    /\ n \in cut
    /\ cut' = cut \ {n}
    /\ UNCHANGED <<data, events, hints, net, now, cuts, early, answered, floor, raised>>

Next ==
    \/ \E n \in Clients, t \in Types, v \in Values \cup {NoValue}, q \in Quorums :
          OnLocalMessage(n, t, v, q)
    \/ \E m \in net : OnOperation(m)
    \/ \E m \in net : OnResponse(m)
    \/ \E m \in net : OnUpdate(m)
    \/ \E m \in net : OnAck(m)
    \/ \E i \in DOMAIN events : OnEventTimer(i)
    \/ \E n \in Nodes : OnHintTimer(n)
    \/ \E n \in Nodes : Disconnect(n)
    \/ \E n \in Nodes : Connect(n)

Spec == Init /\ [][Next]_vars

\* What is under way arrives, timers fire, and who was cut off is connected.
Receives(n) ==
    \E m \in net : m.dst = n /\
        (OnOperation(m) \/ OnResponse(m) \/ OnUpdate(m) \/ OnAck(m))

EventTimer(i) == i \in DOMAIN events /\ OnEventTimer(i)

FairSpec ==
    /\ Spec
    /\ \A n \in Nodes : WF_vars(Receives(n)) /\ SF_vars(OnHintTimer(n)) /\ WF_vars(Connect(n))
    /\ \A i \in 1 .. MaxRequests : SF_vars(EventTimer(i))

-----------------------------------------------------------------------------

\* As long as no timer fires while messages are under way, no handler raises an
\* exception: an answer finds its request, an acknowledgement its hint.
NoKeyError == early = 0 => raised = {}

\* A read or a write that is answered does not miss a write that was answered
\* before it began with a quorum that meets its own.
QuorumsMeet ==
    \A i \in DOMAIN answered : events[i].type # "DELETE" => ~Less(answered[i], floor[i])

\* What is answered to a PUT is held by as many nodes as its quorum asks for, at
\* the moment of the answer, repairs and hints included.
StoredByQuorum ==
    [][\A i \in DOMAIN answered' \ DOMAIN answered :
          events[i].type = "PUT" =>
              Cardinality({n \in Nodes : ~Less(Stored(n)', answered'[i])})
                  >= events[i].quorum]_vars


\* What a request to write asks to be stored.
Asked(i) == <<events[i].time, IF events[i].type = "DELETE" THEN 0 ELSE events[i].value>>

\* When every request and every hint has been dropped and nothing is under way,
\* the nodes have nothing left to send: each replica must have the latest of all
\* that was written, in whatever order and on whatever way it came.
LatestWinsAtRest ==
    (/\ net = {}
     /\ \A i \in DOMAIN events : ~events[i].open
     /\ \A n \in Nodes : ~hints[n].open)
    => \A r \in Replicas :
          data[r] = Latest({None} \cup {Asked(i) : i \in
                        {j \in DOMAIN events : events[j].type # "GET"}})

\* When the network is whole again the replicas end up with the same pair.
Converges == <>[](\A r, s \in Replicas : data[r] = data[s])

\* Every operation is answered in the end.
EventuallyAnswered ==
    \A i \in 1 .. MaxRequests : i \in DOMAIN events ~> i \in DOMAIN answered

\* A deletion that begins when everything before it is answered, with quorums
\* that meet its own, returns the value it deletes.  The code does not keep this:
\* see the README, section 4.
DeleteReturnsLatest ==
    \A i \in DOMAIN answered :
        (/\ events[i].type = "DELETE"
         /\ i = Cardinality(DOMAIN events)
         /\ \A j \in 1 .. i - 1 : /\ j \in DOMAIN answered
                                  /\ events[j].quorum + events[i].quorum > N
                                  /\ ~Less(floor[i], Written(j)))
        => answered[i][2] = floor[i][2]
=============================================================================

-------------------------------- MODULE KvProxy --------------------------------
(***************************************************************************)
(* The key-value proxy of seminar 08: four strategies over nodes that keep *)
(* their data in memory.  The proxy asks the nodes one after the other;    *)
(* its threads serve several users at once.  One key is modelled; values   *)
(* are sequences of bytes, a byte is the set of its bits.                  *)
(*                                                                         *)
(* A node out of reach raises ConnectionError, which ends the request with *)
(* status 500 except in a get of RAID3Proxy; a node that is restarted has  *)
(* lost its data.                                                          *)
(***************************************************************************)
EXTENDS Naturals, SequencesExt

CONSTANTS N,          \* the number of nodes
          Users,      \* each has one request at a time
          Puts,       \* bound of the model: the values put, each once, in this order
          NoValue,    \* 404, or no answer
          MaxFaults   \* bound of the model: nodes cut off or restarted

Modes == {"sharding", "replication", "replication-quorum", "replication-raid3"}
Nodes == 1 .. N

VARIABLES
    mode,      \* the strategy in the configuration
    home,      \* sharding: get_node(key)
    stored,    \* node -> its data, NoValue if there is none
    up,        \* the nodes within reach
    reqs,      \* user -> the request under way, if any
    begun,     \* how many puts have begun
    current,   \* history: the puts that no later acknowledged put has replaced
    mixed,     \* history: may the nodes hold parts of different puts
    serial,    \* history: have the puts not overlapped so far
    newest,    \* history: the latest put that a get has returned
    read,      \* history: the get answered with 200 in this step, if there is one
    faults

vars == <<mode, home, stored, up, reqs, begun, current, mixed, serial, newest, read, faults>>

-----------------------------------------------------------------------------
\* Bytes.  Blocks that are joined by ^ one after the other have the bits that an
\* odd number of them have; zip() stops with the shortest.
Xor(blocks, I) ==
    [j \in 1 .. Min({Len(blocks[i]) : i \in I}) |->
        {bit \in UNION {blocks[i][j] : i \in I} :
            Cardinality({i \in I : bit \in blocks[i][j]}) % 2 = 1}]

\* raid3_split: blocks of ceil(len / divisor) bytes, the last one padded.
Raid3Split(value) ==
    LET L == (Len(value) + N - 2) \div (N - 1)
        Byte(j) == IF j <= Len(value) THEN value[j] ELSE {}
    IN  [i \in 1 .. (Len(value) + L - 1) \div L |->
            [j \in 1 .. L |-> Byte((i - 1) * L + j)]]
Raid3Parity(blocks) == Xor(blocks, DOMAIN blocks)

\* raid3_join: all blocks but the last, without the zeros at the end.
Raid3Join(blocks) ==
    LET bytes == FlattenSeq(Front(blocks))
        ends == {i \in DOMAIN bytes : bytes[i] # {}} \cup {0}
    IN  SubSeq(bytes, 1, Max(ends))

\* raid3_recover: the missing block, unless it is the parity, is the sum of the others.
Raid3Recover(blocks, e) ==
    LET lost == Xor(blocks, {i \in DOMAIN blocks : blocks[i] # NoValue})
    IN  Raid3Join(IF e = Len(blocks) THEN blocks ELSE [blocks EXCEPT ![e] = lost])

-----------------------------------------------------------------------------
NoRead == [value |-> NoValue]
NotFound == read' = NoRead /\ UNCHANGED newest

Init ==
    /\ mode \in Modes /\ (mode = "replication-raid3" => N >= 3)
    /\ home \in IF mode = "sharding" THEN Nodes ELSE {1}
    /\ stored = [n \in Nodes |-> NoValue] /\ up = Nodes
    /\ reqs = [u \in Users |-> {}]
    /\ begun = 0 /\ current = {} /\ mixed = FALSE /\ serial = TRUE
    /\ newest = 0 /\ read = NoRead /\ faults = 0

\* What a put sends to the nodes it visits, in their order.
Parts(value) ==
    CASE mode = "sharding"          -> <<value>>
      [] mode = "replication-raid3" -> Append(Raid3Split(value), Raid3Parity(Raid3Split(value)))
      [] OTHER                      -> [n \in Nodes |-> value]
TooShort(value) == mode = "replication-raid3" /\ Len(value) < N - 1

Visited(i) == IF mode = "sharding" THEN home ELSE i
Visits == IF mode = "sharding" THEN 1 ELSE N

Running(op) == {u \in Users : \E r \in reqs[u] : r.op = op}

\* put_handler: a value that is too short for RAID 3 is refused at once.
BeginPut(u) ==
    /\ reqs[u] = {} /\ begun < Len(Puts)
    /\ begun' = begun + 1
    /\ serial' = (serial /\ Running("put") = {})
    /\ IF TooShort(Puts[begun']) THEN UNCHANGED <<reqs, current, mixed>>
       ELSE /\ reqs' = [reqs EXCEPT ![u] = {[
                   op |-> "put", id |-> begun', at |-> 1, acks |-> 0,
                   alone |-> Running("put") = {},
                   old |-> current \ {r.id : r \in UNION {reqs[v] : v \in Running("put")}}]}]
            /\ current' = current \cup {begun'}
            /\ mixed' = TRUE
    /\ NotFound /\ UNCHANGED <<mode, home, stored, up, faults>>

End(u) == reqs' = [reqs EXCEPT ![u] = {}]

\* The last answer is in: more than half of the nodes must have said 200.
PutAnswer(u, r, acks) ==
    /\ End(u)
    /\ IF acks >= 1 /\ (mode = "replication-quorum" => 2 * acks > N)
       THEN current' = current \ r.old /\ mixed' = (mixed /\ ~(r.alone /\ begun = r.id))
       ELSE UNCHANGED <<current, mixed>>

Ignore(u, r) == reqs' = [reqs EXCEPT ![u] = {[r EXCEPT !.at = @ + 1]}]

\* A node that is out of reach.
PutUnreachable_Skips(u, r) ==
    IF r.at < Len(Parts(Puts[r.id]))
    THEN Ignore(u, r) /\ UNCHANGED <<current, mixed>> ELSE PutAnswer(u, r, r.acks)
PutUnreachable(u, r) == End(u) /\ UNCHANGED <<current, mixed>>

\* One node of a put: requests.post, and put_handler of the storage.
PutNode(u) ==
    \E r \in reqs[u] :
        LET n == Visited(r.at)
            parts == Parts(Puts[r.id])
        IN  /\ r.op = "put"
            /\ IF n \notin up THEN PutUnreachable(u, r) /\ UNCHANGED stored
               ELSE /\ stored' = [stored EXCEPT ![n] = parts[r.at]]
                    /\ IF r.at = Len(parts) THEN PutAnswer(u, r, r.acks + 1)
                       ELSE /\ reqs' = [reqs EXCEPT ![u] =
                                   {[r EXCEPT !.at = @ + 1, !.acks = @ + 1]}]
                            /\ UNCHANGED <<current, mixed>>
            /\ NotFound /\ UNCHANGED <<mode, home, up, begun, serial, faults>>

BeginGet(u) ==
    /\ reqs[u] = {}
    /\ reqs' = [reqs EXCEPT ![u] = {[
           op |-> "get", at |-> 1, seen |-> << >>, first |-> begun, may |-> current,
           clean |-> ~mixed, floor |-> newest]}]
    /\ NotFound /\ UNCHANGED <<mode, home, stored, up, begun, current, mixed, serial, faults>>

PutOf(value) == {i \in DOMAIN Puts : Puts[i] = value}

\* The get of r answers with 200.
Found(r, value) ==
    /\ read' = [value  |-> value,
                may    |-> r.may \cup (r.first + 1 .. begun),
                clean  |-> r.clean /\ begun = r.first,
                serial |-> serial,
                floor  |-> r.floor]
    /\ newest' = Max(PutOf(value) \cup {newest})

IsQuorum_Any(count) == count > 0
IsQuorum(count) == 2 * count > N

Agreed(seen) ==
    {v \in ToSet(seen) \ {NoValue} : IsQuorum(Cardinality({i \in DOMAIN seen : seen[i] = v}))}

\* What get decides when it has visited so many nodes: to answer with a member of
\* values, to fail, or to go on.
Decide(u, r, seen) ==
    LET last == Len(seen) = Visits
        missing == {i \in DOMAIN seen : seen[i] = NoValue}
        values ==
            CASE mode = "replication-quorum" -> IF last THEN Agreed(seen) ELSE {}
              [] mode = "replication-raid3" ->
                    IF ~last \/ Cardinality(missing) > 1 THEN {}
                    ELSE IF missing = {} THEN {Raid3Join(seen)}
                    ELSE {Raid3Recover(seen, CHOOSE i \in missing : TRUE)}
              [] OTHER -> {Last(seen)} \ {NoValue}
        fails == last \/ (mode = "replication-raid3" /\ Cardinality(missing) > 1)
    IN  \/ \E v \in values : Found(r, v) /\ End(u)
        \/ values = {} /\ fails /\ End(u) /\ NotFound
        \/ /\ values = {} /\ ~fails
           /\ reqs' = [reqs EXCEPT ![u] = {[r EXCEPT !.at = @ + 1, !.seen = seen]}]
           /\ NotFound

\* One node of a get.
GetNode(u) ==
    \E r \in reqs[u] :
        LET n == Visited(r.at)
        IN  /\ r.op = "get"
            /\ IF n \in up THEN Decide(u, r, Append(r.seen, stored[n]))
               ELSE IF mode = "replication-raid3" THEN Decide(u, r, Append(r.seen, NoValue))
               ELSE End(u) /\ NotFound
            /\ UNCHANGED <<mode, home, stored, up, begun, current, mixed, serial, faults>>

Fault(n) ==
    /\ faults < MaxFaults /\ n \in up
    /\ faults' = faults + 1
    /\ \/ up' = up \ {n} /\ UNCHANGED stored
       \/ stored' = [stored EXCEPT ![n] = NoValue] /\ UNCHANGED up
    /\ NotFound /\ UNCHANGED <<mode, home, reqs, begun, current, mixed, serial>>

Reconnect(n) ==
    /\ n \notin up
    /\ up' = up \cup {n}
    /\ NotFound /\ UNCHANGED <<mode, home, stored, reqs, begun, current, mixed, serial, faults>>

Next ==
    \/ \E u \in Users : BeginPut(u) \/ PutNode(u) \/ BeginGet(u) \/ GetNode(u)
    \/ \E n \in Nodes : Fault(n) \/ Reconnect(n)

Spec == Init /\ [][Next]_vars

-----------------------------------------------------------------------------
\* A get that finds a value returns one that was put and that no put acknowledged
\* before the get began had replaced, whatever overlaps it and whichever nodes fail
\* or lose their data.  RAID 3 promises this only when the last put was complete and
\* overlapped nothing: otherwise the blocks of different values may be joined.
ReadsAreCurrent ==
    read # NoRead /\ (mode = "replication-raid3" => read.clean) =>
        \E i \in read.may : Puts[i] = read.value

\* What the quorum adds: while puts do not overlap, no get returns an older value
\* than a get that ended before it began, although a put may have failed half-way
\* and a node have lost the newer value.
QuorumReadsAdvance ==
    read # NoRead /\ mode = "replication-quorum" /\ read.serial =>
        \A i \in PutOf(read.value) : i >= read.floor
=============================================================================

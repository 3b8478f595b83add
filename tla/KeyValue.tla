------------------------------ MODULE KeyValue ------------------------------
(***************************************************************************)
(* What the sharded store promises its users: one map from keys to values. *)
(* A request takes effect at one moment between being asked and being      *)
(* answered, its answer is the one of that moment, and it is given at the  *)
(* node that asked.  Records and requests may be lost when a node fails,   *)
(* and at no other time.                                                   *)
(***************************************************************************)
CONSTANTS Keys, Values, Absent

VARIABLES map,       \* key -> its value or Absent
          failed,    \* the nodes that have failed
          asked,     \* the requests not served yet
          served,    \* the answers on their way
          answered   \* the answers given

vars == <<map, failed, asked, served, answered>>

Init ==
    /\ map = [k \in Keys |-> Absent]
    /\ failed = {}
    /\ asked = {}
    /\ served = {}
    /\ answered = {}

Ask(r) == asked' = asked \cup {r} /\ UNCHANGED <<map, failed, served, answered>>

\* A deletion answers with the value deleted.
Result(r) == IF r.type = "PUT" THEN r.value ELSE map[r.key]

Applied(r) ==
    CASE r.type = "GET"    -> map
      [] r.type = "PUT"    -> [map EXCEPT ![r.key] = r.value]
      [] r.type = "DELETE" -> [map EXCEPT ![r.key] = Absent]

Serve(r) ==
    /\ asked' = asked \ {r}
    /\ map' = Applied(r)
    /\ served' = served \cup {[request |-> r, node |-> r.node, value |-> Result(r)]}
    /\ UNCHANGED <<failed, answered>>

Answer(a) ==
    /\ served' = served \ {a}
    /\ answered' = answered \cup {a}
    /\ UNCHANGED <<map, failed, asked>>

Fail ==
    /\ failed # failed'
    /\ failed \subseteq failed'
    /\ \A k \in Keys : map'[k] \in {map[k], Absent}
    /\ asked' \subseteq asked
    /\ served' \subseteq served
    /\ UNCHANGED answered

Next ==
    \/ \E r \in asked' \ asked : Ask(r)
    \/ \E r \in asked : Serve(r)
    \/ \E a \in served : Answer(a)
    \/ Fail

Spec == Init /\ [][Next]_vars
=============================================================================

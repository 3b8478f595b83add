-------------------------------- MODULE RaftKv --------------------------------
(***************************************************************************)
(* The key-value state machine of seminar 11, replicated by the library    *)
(* hashicorp/raft.  The library is external and modelled by what the state *)
(* machine sees of it: one log of committed queries, applied in order on   *)
(* every server; a snapshot is taken between two entries and written while *)
(* the following ones are applied; a server that starts, or has fallen     *)
(* behind, restores a snapshot and goes on with the entry after it.        *)
(*                                                                         *)
(* One key is modelled.  A query that fails may have been committed all    *)
(* the same, and one that is retried is committed twice: the log is any    *)
(* sequence of queries.                                                    *)
(***************************************************************************)
EXTENDS Naturals, Sequences, FiniteSets

CONSTANTS Servers,
          Queries,     \* the queries made: get and json, set to val, cas from old to val
          Missing,     \* the empty string
          MaxLog,      \* bound of the model: queries committed
          MaxRestores  \* bound of the model: restarts and snapshots installed

VARIABLES
    log,       \* the committed queries
    leaves,    \* history: what the log leaves in the map, query by query
    m,         \* server -> the value of the key in kv.m
    applied,   \* server -> the number of entries applied
    pending,   \* server -> the snapshot taken and not yet persisted, if any
    stable,    \* server -> the last snapshot persisted
    restores

vars == <<log, leaves, m, applied, pending, stable, restores>>

Snap(value, index) == [value |-> value, index |-> index]

Init ==
    /\ log = << >> /\ leaves = <<Missing>>
    /\ m = [s \in Servers |-> Missing] /\ applied = [s \in Servers |-> 0]
    /\ pending = [s \in Servers |-> {}]
    /\ stable = [s \in Servers |-> Snap(Missing, 0)]
    /\ restores = 0

\* Apply: get and json change nothing, cas only what it expects to find.
After(cur, q) ==
    CASE q.op = "set"                  -> q.val
      [] q.op = "cas" /\ q.old = cur   -> q.val
      [] OTHER                         -> cur

\* rpcInterface.Query reaches the leader and is committed.
Query(q) ==
    /\ Len(log) < MaxLog
    /\ log' = Append(log, q)
    /\ leaves' = Append(leaves, After(leaves[Len(leaves)], q))
    /\ UNCHANGED <<m, applied, pending, stable, restores>>

Apply(s) ==
    /\ applied[s] < Len(log)
    /\ applied' = [applied EXCEPT ![s] = @ + 1]
    /\ m' = [m EXCEPT ![s] = After(@, log[applied'[s]])]
    /\ UNCHANGED <<log, leaves, pending, stable, restores>>

\* Snapshot serialises the map at once: the entries to come do not reach it.
Snapshot(s) ==
    /\ pending[s] = {} /\ applied[s] > stable[s].index
    /\ pending' = [pending EXCEPT ![s] = {Snap(m[s], applied[s])}]
    /\ UNCHANGED <<log, leaves, m, applied, stable, restores>>

Written_Live(s, p) == Snap(m[s], p.index)
Written(s, p) == p

Persist(s) ==
    /\ \E p \in pending[s] : stable' = [stable EXCEPT ![s] = Written(s, p)]
    /\ pending' = [pending EXCEPT ![s] = {}]
    /\ UNCHANGED <<log, leaves, m, applied, restores>>

Restore(s, snapshot) ==
    /\ restores < MaxRestores
    /\ restores' = restores + 1
    /\ m' = [m EXCEPT ![s] = snapshot.value]
    /\ applied' = [applied EXCEPT ![s] = snapshot.index]

\* A server crashes and starts again.
Restart(s) ==
    /\ Restore(s, stable[s])
    /\ pending' = [pending EXCEPT ![s] = {}]
    /\ UNCHANGED <<log, leaves, stable>>

\* Server s is so far behind that it is sent the snapshot of t.
Install(s, t) ==
    /\ stable[t].index > applied[s]
    /\ Restore(s, stable[t])
    /\ stable' = [stable EXCEPT ![s] = stable[t]]
    /\ pending' = [pending EXCEPT ![s] = {}]
    /\ UNCHANGED <<log, leaves>>

Next ==
    \/ \E q \in Queries : Query(q)
    \/ \E s \in Servers :
          \/ Apply(s) \/ Snapshot(s) \/ Persist(s) \/ Restart(s)
          \/ \E t \in Servers : Install(s, t)

Spec == Init /\ [][Next]_vars

-----------------------------------------------------------------------------
\* A server's map is what the queries it has applied leave, whatever snapshots it
\* was restored from and however often it has applied some of them again: so any
\* server may become the leader and answer for the log.
MapFollowsLog == \A s \in Servers : m[s] = leaves[applied[s] + 1]
=============================================================================

--------------------------- MODULE MCSmallPrograms ---------------------------
(***************************************************************************)
(* The programs of the repository that are small enough to be checked side *)
(* by side.  They do not interact: program says which of them a behaviour  *)
(* is of, and the others stay as they began.                               *)
(***************************************************************************)
EXTENDS KeyStore, TLC

CONSTANTS
    Texts, MaxSent, Limit, Lossy, Duplicating,                   \* AtMostOnce
    Clients, NoMessage, Workers, MaxMessages, MaxRestarts,       \* Messenger
    Procs, Origin, Fanouts, MaxLosses,                           \* Gossip
    N, Users, Puts, NoValue, MaxFaults,                          \* KvProxy
    MaxPings, MaxDropped,                                        \* PingPong
    Servers, Queries, Missing, MaxLog, MaxRestores,              \* RaftKv
    Paths, Directory, Empty, Bodies                              \* FileServer

ASSUME AtMostOnceAssumption == MaxSent \in Nat /\ Limit \in Nat \ {0}
ASSUME KvProxyAssumption ==
    /\ N \in Nat \ {0} /\ Puts \in Seq(Seq(SUBSET Nat))
    /\ \A i, j \in DOMAIN Puts : Puts[i] = Puts[j] => i = j
ASSUME FileServerAssumption ==
    /\ \A p \in Paths : p \in Seq(ToSet(p))
    /\ Directory \notin Bodies \cup {Empty}

VARIABLES
    program,
    sent, number, data, lowerBound, orderStore, delivered,
    order, streams, turn, reached, calls, clock, mine, box, copied, shown, restarts,
    impl, fanout, informed, stopped, timers, due, net, outbox, losses,
    mode, home, stored, up, reqs, begun, current, mixed, serial, newest, read, faults,
    retry, asked, answers, ping, timer, pings, pongs, dropped,
    log, leaves, m, applied, pending, stable, restores,
    tree, request, replies, waiting

Once    == INSTANCE AtMostOnce WITH order <- number, MaxMessages <- MaxSent
Chat    == INSTANCE Messenger
Rumour  == INSTANCE Gossip
Proxy   == INSTANCE KvProxy
Pings   == INSTANCE PingPong
Raft    == INSTANCE RaftKv
Files   == INSTANCE FileServer

Programs == {"ring", "once", "messenger", "gossip", "proxy", "ping-pong", "raft", "files"}

onceVars == <<sent, number, data, lowerBound, orderStore, delivered>>
chatVars == <<order, streams, turn, reached, calls, clock, mine, box, copied, shown, restarts>>
rumourVars == <<impl, fanout, informed, stopped, timers, due, net, outbox, losses>>
proxyVars == <<mode, home, stored, up, reqs, begun, current, mixed, serial, newest, read, faults>>
pingVars == <<retry, asked, answers, ping, timer, pings, pongs, dropped>>
raftVars == <<log, leaves, m, applied, pending, stable, restores>>
fileVars == <<tree, request, replies, waiting>>
allVars == <<program, vars, onceVars, chatVars, rumourVars, proxyVars, pingVars, raftVars, fileVars>>

\* What the others begin with makes no difference, so it is one thing; nor does it
\* which of the nodes, all alike, is the home of the proxy's key.
SmallInit ==
    /\ program \in Programs
    /\ program = "ring" \/ members = Names
    /\ program = "gossip" \/ (impl = "push" /\ fanout = 1)
    /\ home = 1 /\ (program = "proxy" \/ mode = "sharding")
    /\ program = "ping-pong" \/ retry = FALSE
    /\ Init /\ Once!Init /\ Chat!Init /\ Rumour!Init /\ Proxy!Init /\ Pings!Init /\ Raft!Init /\ Files!Init

RingRuns ==
    /\ program = "ring" /\ Next
    /\ UNCHANGED <<onceVars, chatVars, rumourVars, proxyVars, pingVars, raftVars, fileVars>>
OnceRuns ==
    /\ program = "once" /\ Once!Next
    /\ UNCHANGED <<vars, chatVars, rumourVars, proxyVars, pingVars, raftVars, fileVars>>
ChatRuns ==
    /\ program = "messenger" /\ Chat!Next
    /\ UNCHANGED <<vars, onceVars, rumourVars, proxyVars, pingVars, raftVars, fileVars>>
RumourRuns ==
    /\ program = "gossip" /\ Rumour!Next
    /\ UNCHANGED <<vars, onceVars, chatVars, proxyVars, pingVars, raftVars, fileVars>>
ProxyRuns ==
    /\ program = "proxy" /\ Proxy!Next
    /\ UNCHANGED <<vars, onceVars, chatVars, rumourVars, pingVars, raftVars, fileVars>>
PingsRun ==
    /\ program = "ping-pong" /\ Pings!Next
    /\ UNCHANGED <<vars, onceVars, chatVars, rumourVars, proxyVars, raftVars, fileVars>>
RaftRuns ==
    /\ program = "raft" /\ Raft!Next
    /\ UNCHANGED <<vars, onceVars, chatVars, rumourVars, proxyVars, pingVars, fileVars>>
FilesRun ==
    /\ program = "files" /\ Files!Next
    /\ UNCHANGED <<vars, onceVars, chatVars, rumourVars, proxyVars, pingVars, raftVars>>

SmallNext ==
    /\ RingRuns \/ OnceRuns \/ ChatRuns \/ RumourRuns \/ ProxyRuns \/ PingsRun \/ RaftRuns \/ FilesRun
    /\ UNCHANGED program

Gossips == program = "gossip"
PingPongs == program = "ping-pong"

\* The fairness of Gossip and PingPong, for their behaviours only.
SmallFairness ==
    /\ WF_rumourVars(Gossips /\ Rumour!Round)
    /\ WF_rumourVars(Gossips /\ Rumour!Timer)
    /\ WF_rumourVars(Gossips /\ Rumour!OnMessage(FALSE))
    /\ SF_rumourVars(Gossips /\ Rumour!Spread)
    /\ \A p \in Procs : SF_rumourVars(Gossips /\ Rumour!StopOf(p))
    /\ WF_pingVars(PingPongs /\ Pings!OnLocalMessage)
    /\ WF_pingVars(PingPongs /\ Pings!OnTimer)
    /\ \A v \in 1 .. MaxPings : /\ WF_pingVars(PingPongs /\ Pings!OnPing(v))
                               /\ WF_pingVars(PingPongs /\ Pings!OnPong(v))

SmallSpec == SmallInit /\ [][SmallNext]_allVars /\ SmallFairness

-----------------------------------------------------------------------------
DistinctHash == [n \in Names |-> (5 * n) % 17]
CollidingHash == [n \in Names |-> IF n = 2 THEN 5 ELSE (5 * n) % 17]
TwoPuts == << <<{1}, {2}>>, <<{2}, {1}, {3}>> >>
FourQueries ==
    {[op |-> "get"], [op |-> "set", val |-> 1], [op |-> "set", val |-> 2],
     [op |-> "cas", old |-> 2, val |-> 1]}
FewPaths == {<< >>, <<1>>, <<2>>, <<1, 1>>, <<1, 2>>}

-----------------------------------------------------------------------------
\* 01-guarantees/solution.py, AtMostOnceReceiver: no text reaches the user twice or
\* without having been sent, although the receiver forgets what it has delivered.
ImplementsOnce == Once!ImplementsOnce

\* AtMostOnceReceiver: a message is given up only after a run of later deliveries.
GivesUpOnlyAfterRun == Once!GivesUpOnlyAfterRun

\* messenger/server.py: all readers' streams hold the same messages in one order.
StreamsAgree == Chat!StreamsAgree

\* messenger/client.py: the PostBox loses nothing and shows nothing twice.
NothingLost == Chat!NothingLost

\* gossip/*.py: a process announces the information once, and its end at most once.
OutboxAsRead == Rumour!OutboxAsRead

\* gossip/*.py: the information reaches all, and pull and push_pull_stop end.
SpreadsAndEnds == program = "gossip" => Rumour!SpreadsAndEnds

\* proxy/strategies.py: a get returns no value that an acknowledged put replaced.
ReadsAreCurrent == Proxy!ReadsAreCurrent

\* proxy/strategies.py: with a quorum, gets never go back while puts do not overlap.
QuorumReadsAdvance == Proxy!QuorumReadsAdvance

\* ping-pong/impl_*.py: one PONG for each PING, with and without repetition.
OnePongForEachPing == program = "ping-pong" => Pings!OnePongForEachPing

\* seminars/11-consensus/kv/main.go: the map is what the applied log leaves in it.
MapFollowsLog == Raft!MapFollowsLog

\* 03-http/server/server.py: what a status says of the files is so.
RepliesAreTrue == Files!RepliesAreTrue
=============================================================================

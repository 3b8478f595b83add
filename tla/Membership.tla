----------------------------- MODULE Membership -----------------------------
(***************************************************************************)
(* The class GroupMember of homework 06, a variant of SWIM: every process  *)
(* keeps the versions of the members it takes for alive and of those it    *)
(* suspects or knows to have left, pings one of each per round, and merges *)
(* the views that pings and acknowledgements carry.                        *)
(*                                                                         *)
(* A dictionary is a function with 0 for "not in it"; a negative version   *)
(* in suspect is a process that left.  A round trip takes less than any    *)
(* timeout: a timer fires when nothing of the process's own round is under *)
(* way, or early, which counts as a disturbance like a crash, a cut, a     *)
(* lost message, a LEAVE or a user who does not wait ("hasty").  A process *)
(* that crashed and one that is cut off may stay so for ever.              *)
(***************************************************************************)
EXTENDS Integers, FiniteSets, SequencesExt

CONSTANTS Procs,
          Unsteady,        \* the processes that leave, crash and are cut off
          MaxRounds,       \* bound of the model: how many processes are in a round at once
          Disturbances,    \* what may go wrong
          MaxDisturbances  \* bound of the model: how often something goes wrong

VARIABLES joined,     \* the processes with _joined
          view,       \* process -> [active |-> _active, suspect |-> _suspect]
          timers,     \* process -> the pending timers <<type, id>>
          net,        \* the messages under way
          up, cut,    \* the processes that run, and those that are cut off
          disturbed   \* what went wrong, in order

vars == <<joined, view, timers, net, up, cut, disturbed>>
world == <<up, cut, disturbed>>

Nobody == [q \in Procs |-> 0]
View(active, suspect) == [active |-> active, suspect |-> suspect]
Empty == View(Nobody, Nobody)
Alone(p) == View([Nobody EXCEPT ![p] = 1], Nobody)
Active(v) == {q \in Procs : v.active[q] # 0}
Suspect(v) == {q \in Procs : v.suspect[q] # 0}
Abs(n) == IF n < 0 THEN -n ELSE n

\* asker: the sender of a PING or the reciever of an ACK, whose round it belongs to.
Message(type, src, dst, asker, target, v) ==
    [type |-> type, src |-> src, dst |-> dst, asker |-> asker, target |-> target, view |-> v]
Join(p, s) == Message("JOIN", p, s, p, s, Empty)
Leave(p, q) == Message("LEAVE", p, q, q, q, Empty)
Ping(p, relay, q, v) == Message("PING", p, relay, p, q, v)

Sent(ms) == {m \in ms : {m.src, m.dst} \cap cut = {} /\ m.dst \in up}
Send(ms) == net' = net \cup Sent(ms)
Reply(m, ms) == net' = (net \ {m}) \cup Sent(ms)

Init ==
    /\ joined = {} /\ up = Procs
    /\ view = [p \in Procs |-> Empty]
    /\ timers = [p \in Procs |-> {}]
    /\ net = {} /\ cut = {} /\ disturbed = << >>

-----------------------------------------------------------------------------
(* The user *)

Disturb(what) ==
    /\ what \in Disturbances /\ Len(disturbed) < MaxDisturbances
    /\ disturbed' = Append(disturbed, what)
DisturbIf(cond, what) == IF cond THEN Disturb(what) ELSE UNCHANGED disturbed

\* Who waits to be let in by p, and whether a LEAVE of p is still under way.
Waiting(p) == {q \in Procs : <<"join", p>> \in timers[q]}
Leaving(p) == \E m \in net : m.type = "LEAVE" /\ m.src = p

\* A process founds the group (s = p) or joins through any process that joined
\* before.  A hasty user joins through one that itself waits to be let in, as the
\* test RANDOM SEED does, or comes back before the LEAVE has arrived.
OnLocalJoin(p, s) ==
    /\ p \in up \ joined
    /\ IF p = s THEN joined = {} ELSE s \in joined
    /\ DisturbIf((p # s /\ view[s] = Empty) \/ Leaving(p), "hasty")
    /\ joined' = joined \cup {p}
    /\ view' = [view EXCEPT ![p] = IF p = s THEN Alone(p) ELSE Empty]
    /\ timers' = [timers EXCEPT ![p] = @ \cup {<<"ping", p>>}
                                         \cup (IF p = s THEN {} ELSE {<<"join", s>>})]
    /\ Send(IF p = s THEN {} ELSE {Join(p, s)})
    /\ UNCHANGED <<up, cut>>

\* _choose_random_active: another active process, or p itself when there is none.
RandomActive(p) ==
    IF Active(view[p]) \ {p} = {} THEN {p} ELSE Active(view[p]) \ {p}
RandomSuspect(p) == IF Suspect(view[p]) = {} THEN {p} ELSE Suspect(view[p])

\* Assumptions about the user: he leaves when the process has been let in, and when
\* nobody waits to be let in by it.  A JOINREQ that comes after the LEAVE fills the
\* view of a process that is out (OnJoinReq), and a JOIN makes it a member again, of
\* a group of its own (OnJoin).
OnLocalLeave(p, q) ==
    /\ p \in joined \cap Unsteady /\ view[p] # Empty /\ q \in RandomActive(p)
    /\ Waiting(p) = {} /\ Disturb("leave")
    /\ joined' = joined \ {p}
    /\ view' = [view EXCEPT ![p] = Empty]
    /\ Send({Leave(p, q)} \ {Leave(p, p)})
    /\ UNCHANGED <<timers, up, cut>>

-----------------------------------------------------------------------------
(* Messages *)

\* _unexpected_init
Started(p) ==
    IF view[p].active = Nobody THEN Alone(p) ELSE view[p]

\* A member that is known gets the version after the one it had.
Version(v, q) == v.active[q] + Abs(v.suspect[q])
Welcome(v, q) ==
    View([v.active EXCEPT ![q] = Version(v, q) + 1], [v.suspect EXCEPT ![q] = 0])

OnJoin(m) ==
    LET p == m.dst
        w == Welcome(Started(p), m.src)
    IN  /\ m.type = "JOIN"
        /\ joined' = IF view[p].active = Nobody THEN joined \cup {p} ELSE joined
        /\ view' = [view EXCEPT ![p] = w]
        /\ Reply(m, {Message("JOINREQ", p, m.src, m.src, p, w)})
        /\ UNCHANGED timers

Left(v, q) ==
    View([v.active EXCEPT ![q] = 0],
         [v.suspect EXCEPT ![q] = IF v.active[q] # 0 THEN -v.active[q] ELSE -Abs(@)])

OnLeave(m) ==
    /\ m.type = "LEAVE"
    /\ view' = [view EXCEPT ![m.dst] = Left(@, m.src)]
    /\ Reply(m, {})
    /\ UNCHANGED <<joined, timers>>

OnJoinReq(m) ==
    /\ m.type = "JOINREQ"
    /\ view' = [view EXCEPT ![m.dst] = m.view]
    /\ timers' = [timers EXCEPT ![m.dst] = @ \ {<<"join", m.src>>}]
    /\ Reply(m, {})
    /\ UNCHANGED joined

\* The two loops of _merge for one id: what is known is <<active, suspect>>.
MergeSuspect(own, k, n) ==
    IF n # 0 /\ k[1] # 0 /\ k[1] <= Abs(n) /\ ~own THEN <<0, n>>
    ELSE IF k[2] # 0 /\ Abs(k[2]) < Abs(n) THEN <<k[1], n>>
    ELSE IF k = <<0, 0>> /\ n > 0 THEN <<0, n>>
    ELSE k

MergeActive_Equal(k, n) ==
    IF n = 0 \/ (k # <<0, 0>> /\ k[1] + Abs(k[2]) > n) THEN k ELSE <<n, 0>>
MergeActive(k, n) ==
    IF n = 0 \/ (k # <<0, 0>> /\ k[1] + Abs(k[2]) >= n) THEN k ELSE <<n, 0>>

\* A process that is suspected gives itself a higher version.
Raise(p, v, q) == IF q = p /\ v.suspect[p] # 0 THEN 1 ELSE 0

Merge(p, v) ==
    LET mine == Started(p)
        known(q) == <<mine.active[q] + Raise(p, v, q), mine.suspect[q]>>
        merged == [q \in Procs |->
                      MergeActive(MergeSuspect(q = p, known(q), v.suspect[q]), v.active[q])]
    IN  View([q \in Procs |-> merged[q][1]], [q \in Procs |-> merged[q][2]])

\* Who has not joined, or does not know the sender, answers with a LEAVE.
Refuse(m) ==
    /\ Reply(m, {Leave(m.dst, m.src)})
    /\ UNCHANGED <<joined, view, timers>>

Forward(m, q) == Message(m.type, m.dst, q, m.asker, m.target, m.view)

OnPing(m) ==
    LET p == m.dst
        v == Merge(p, m.view)
    IN  /\ m.type = "PING"
        /\ IF p \notin joined THEN Refuse(m)
           ELSE /\ view' = [view EXCEPT ![p] = v]
                /\ Reply(m, {IF m.target = p THEN Message("ACK", p, m.src, m.asker, p, v)
                                             ELSE Forward(m, m.target)})
                /\ UNCHANGED <<joined, timers>>

\* The timers that an answer cancels are those of the process it came from, be
\* it the one that was asked or the one that passed the answer on.
Answered_First(m) == {<<"pingthroufailed", m.src>>}
Answered(m) == {<<"pingfailed", m.src>>, <<"pingthroufailed", m.src>>}

OnAck(m) ==
    LET p == m.dst
    IN  /\ m.type = "ACK"
        /\ IF p \notin joined \/ m.src \notin Active(view[p]) \cup Suspect(view[p])
           THEN Refuse(m)
           ELSE /\ view' = [view EXCEPT ![p] = Merge(p, m.view)]
                /\ IF m.asker = p
                   THEN timers' = [timers EXCEPT ![p] = @ \ Answered(m)] /\ Reply(m, {})
                   ELSE UNCHANGED timers /\ Reply(m, {Forward(m, m.asker)})
                /\ UNCHANGED joined

Receive(m) ==
    /\ m \in net
    /\ OnJoin(m) \/ OnLeave(m) \/ OnJoinReq(m) \/ OnPing(m) \/ OnAck(m)
    /\ UNCHANGED world

-----------------------------------------------------------------------------
(* Timers *)

InRound(p) == {m \in net : m.asker = p /\ m.type \in {"PING", "ACK"}}
Awaited(p) == {m \in net : m.asker = p \/ m.type \notin {"PING", "ACK"}}

Failing(p) == {t \in timers[p] : t[1] \in {"pingfailed", "pingthroufailed"}}
Busy == {p \in Procs : InRound(p) \cup Failing(p) # {}}

\* ping_ comes after the timers of the round before.
Due(p, t) ==
    /\ t \in timers[p]
    /\ t[1] = "ping" => Failing(p) = {} /\ Cardinality(Busy) < MaxRounds
    /\ DisturbIf(Awaited(p) # {}, "early")

OnJoinTimer(p, s) ==
    /\ Due(p, <<"join", s>>)
    /\ IF Cardinality(Active(view[p])) > 1
       THEN timers' = [timers EXCEPT ![p] = @ \ {<<"join", s>>}] /\ UNCHANGED net
       ELSE Send({Join(p, s)}) /\ UNCHANGED timers
    /\ UNCHANGED <<joined, view, up, cut>>

\* A round: ping the active process q and the suspected process s.
OnPingTimer(p, q, s) ==
    /\ Due(p, <<"ping", p>>)
    /\ q \in RandomActive(p) /\ s \in RandomSuspect(p)
    /\ Send({Ping(p, r, r, view[p]) : r \in
                ({q} \cup {r \in {s} : view[p].suspect[s] > 0}) \ {p}})
    /\ timers' = [timers EXCEPT ![p] = @ \cup ({<<"pingfailed", q>>} \ {<<"pingfailed", p>>})]
    /\ UNCHANGED <<joined, view, up, cut>>

OnPingFailed_Last(p, q, relays) ==
    /\ Due(p, <<"pingfailed", q>>)
    /\ relays \subseteq RandomActive(p) /\ relays # {}
    /\ Send({Ping(p, r, q, view[p]) : r \in relays \ {p}})
    /\ timers' = [timers EXCEPT ![p] = @ \ {<<"pingfailed", q>>}]
    /\ UNCHANGED <<joined, view, up, cut>>
\* The FANOUT draws may give the same process several times; it is sent one ping.
OnPingFailed(p, q, relays) ==
    /\ Due(p, <<"pingfailed", q>>)
    /\ relays \subseteq RandomActive(p) /\ relays # {}
    /\ Send({Ping(p, r, q, view[p]) : r \in relays \ {p}})
    /\ timers' = [timers EXCEPT ![p] = (@ \ {<<"pingfailed", q>>}) \cup {<<"pingthroufailed", q>>}]
    /\ UNCHANGED <<joined, view, up, cut>>

Suspected(v, q) ==
    IF v.active[q] = 0 THEN v
    ELSE View([v.active EXCEPT ![q] = 0], [v.suspect EXCEPT ![q] = v.active[q]])

OnPingThrouFailed(p, q) ==
    /\ Due(p, <<"pingthroufailed", q>>)
    /\ view' = [view EXCEPT ![p] = Suspected(@, q)]
    /\ timers' = [timers EXCEPT ![p] = @ \ {<<"pingthroufailed", q>>}]
    /\ UNCHANGED <<joined, net, up, cut>>

-----------------------------------------------------------------------------
(* The environment *)

Crash(p) ==
    /\ p \in up \cap Unsteady /\ Disturb("crash")
    /\ up' = up \ {p} /\ joined' = joined \ {p}
    /\ view' = [view EXCEPT ![p] = Empty]
    /\ timers' = [timers EXCEPT ![p] = {}]
    /\ net' = {m \in net : m.dst # p}
    /\ UNCHANGED cut

Recover(p) ==
    /\ p \notin up /\ up' = up \cup {p}
    /\ DisturbIf(Waiting(p) # {}, "hasty")
    /\ UNCHANGED <<joined, view, timers, net, cut>>

Disconnect(p) ==
    /\ p \in Unsteady \ cut /\ Disturb("cut")
    /\ cut' = cut \cup {p}
    /\ UNCHANGED <<joined, view, timers, net, up>>

Connect(p) == p \in cut /\ cut' = cut \ {p} /\ UNCHANGED <<joined, view, timers, net, up, disturbed>>

Lose(m) == m \in net /\ Disturb("loss") /\ net' = net \ {m} /\ UNCHANGED <<joined, view, timers, up, cut>>

Next ==
    \/ \E p, s \in Procs : OnLocalJoin(p, s)
    \/ \E p, q \in Procs : OnLocalLeave(p, q)
    \/ \E m \in net : Receive(m)
    \/ \E p, q \in Procs : OnJoinTimer(p, q)
    \/ \E p, q, s \in Procs : OnPingTimer(p, q, s)
    \/ \E p, q \in Procs, R \in SUBSET Procs : OnPingFailed(p, q, R)
    \/ \E p, q \in Procs : OnPingThrouFailed(p, q)
    \/ \E p \in Procs : Crash(p)
    \/ \E p \in Procs : Recover(p)
    \/ \E p \in Procs : Disconnect(p)
    \/ \E p \in Procs : Connect(p)
    \/ \E m \in net : Lose(m)

Spec == Init /\ [][Next]_vars

\* What is under way arrives, timers fire, and a random choice falls on everybody
\* time and again.  Nobody need recover, be connected again or do anything else.
FairSpec ==
    /\ Spec
    /\ WF_vars(\E m \in net : Receive(m))
    /\ \A p \in Procs :
          /\ WF_vars(\E q \in Procs : \/ OnJoinTimer(p, q) \/ OnPingThrouFailed(p, q)
                                      \/ \E R \in SUBSET Procs : OnPingFailed(p, q, R))
          /\ \A q \in Procs : SF_vars(\E s \in Procs : OnPingTimer(p, q, s))
-----------------------------------------------------------------------------

Replaced(p) == \E m \in net \ net' : m.type = "JOINREQ" /\ m.dst = p

\* Views, however old the ping that brings them, never put back what a member knows
\* of a process: its version does not fall while the one that knows it stays in the
\* group, and of one version alive gives way to suspected or left, not the
\* reverse.  Only a JOINREQ replaces the view.
VersionsGrow ==
    [][\A p, q \in Procs :
          (p \in joined /\ view[p] # Empty /\ view'[p] # Empty /\ ~Replaced(p)) =>
              /\ Version(view'[p], q) >= Version(view[p], q)
              /\ (q \in Suspect(view[p]) /\ q \in Active(view'[p])) =>
                    Version(view'[p], q) > Version(view[p], q)]_vars

\* As long as no message is lost and none is late, nobody suspects a process that
\* does not crash, while others join (through whomever), crash and come back.  (A
\* process that leaves and comes back within a round does: its timers outlive the
\* LEAVE.)
NoFalseSuspicion ==
    ToSet(disturbed) \subseteq {"crash", "hasty"} =>
        \A p \in Procs, q \in Procs \ Unsteady : view[p].suspect[q] <= 0

\* In the end the members that can reach each other see each other and nobody else,
\* though one process may stay crashed or cut off for ever: they find out by
\* pinging, and so does the one that is cut off.  Who asked such a process to let
\* him in waits as long as it is away.
Reachable == joined \ cut
Converges ==
    <>[](/\ \A p \in Reachable :
               IF view[p] = Empty
               THEN \E s \in Procs \ Reachable : <<"join", s>> \in timers[p]
               ELSE Active(view[p]) = {q \in Reachable : view[q] # Empty}
         /\ \A p \in joined \cap cut : Active(view[p]) \subseteq {p})
=============================================================================

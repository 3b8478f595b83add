-------------------------------- MODULE Gossip --------------------------------
(***************************************************************************)
(* The four gossip processes of seminar 04 (push, pull, push_pull and      *)
(* push_pull_stop) in their simulator.  The simulator starts all processes *)
(* at once with timers of period 1 and messages that take 0.1, so the      *)
(* timers of a round fire before its messages arrive, and these are over   *)
(* before the next round.  The information is one and the same: a message  *)
(* either carries it or does not.                                          *)
(***************************************************************************)
EXTENDS Naturals, Sequences, FiniteSetsExt

CONSTANTS Procs,
          Origin,    \* the process the simulator gives the information to
          Fanouts,   \* the numbers of peers to contact in a round
          MaxLosses  \* bound of the model: messages dropped

Impls == {"push", "pull", "push_pull", "push_pull_stop"}

VARIABLES impl,      \* the implementation that is simulated
          fanout,
          informed,  \* the processes whose _info is not None
          stopped,   \* push_pull_stop: those whose _stopped is set
          timers,    \* the processes whose timer "gossip" is set
          due,       \* the timers of this round that have not fired yet
          net,       \* the messages in flight
          outbox,    \* p -> what was given to send_local
          losses

vars == <<impl, fanout, informed, stopped, timers, due, net, outbox, losses>>

Pull == impl = "pull"

\* The timer goes on after DELIVER except in pull.
TimersLeft(p) == IF Pull THEN timers \ {p} ELSE timers
Announcement == IF Pull THEN <<"DELIVER", "STOPPED">> ELSE <<"DELIVER">>

\* START everywhere, then BROADCAST at the origin, before anything happens.
Init ==
    /\ impl \in Impls /\ fanout \in Fanouts
    /\ informed = {Origin} /\ stopped = {}
    /\ timers = IF Pull THEN Procs \ {Origin} ELSE Procs
    /\ due = timers /\ net = {} /\ losses = 0
    /\ outbox = [p \in Procs |-> IF p = Origin THEN Announcement ELSE << >>]

Message(type, carries, from, to) ==
    [type |-> type, carries |-> carries, from |-> from, to |-> to]

\* gossip(): to whom, if to anybody, is decided by impl.
Gossips(p) == CASE impl = "push" -> p \in informed
                [] Pull          -> p \notin informed
                [] OTHER         -> TRUE
Request(p, q) ==
    IF impl = "push" THEN Message("GOSSIP", TRUE, p, q)
    ELSE Message("GOSSIP_REQ", ~Pull /\ p \in informed, p, q)

OnTimer(p, peers) ==
    /\ p \in due
    /\ due' = due \ {p}
    /\ net' = net \cup (IF Gossips(p) THEN {Request(p, q) : q \in peers} ELSE {})
    /\ UNCHANGED <<impl, fanout, informed, stopped, timers, outbox, losses>>

\* got_info of a process that has no information yet.
Deliver(p) ==
    /\ informed' = informed \cup {p}
    /\ timers' = TimersLeft(p)
    /\ outbox' = [outbox EXCEPT ![p] = @ \o Announcement]
    /\ UNCHANGED stopped

MayStop_Again(p) == TRUE
MayStop(p) == p \notin stopped

\* try_stop of push_pull_stop, when the draw falls so.
Stop(p) ==
    /\ MayStop(p)
    /\ stopped' = stopped \cup {p} /\ timers' = timers \ {p}
    /\ outbox' = [outbox EXCEPT ![p] = Append(@, "STOPPED")]
    /\ UNCHANGED informed

Rest == UNCHANGED <<informed, stopped, timers, outbox>>
Heard(p, carries) == carries /\ p \notin informed

AnswersWhenStopped_Not(p) == p \notin stopped
AnswersWhenStopped(p) == TRUE

\* A request is answered with the information, or brings it.
OnRequest(m) ==
    /\ m.type \in {"GOSSIP", "GOSSIP_REQ"}
    /\ net' = (net \ {m}) \cup
           IF m.type = "GOSSIP_REQ" /\ m.to \in informed /\ AnswersWhenStopped(m.to)
           THEN {Message("GOSSIP_RESP", TRUE, m.to, m.from)} ELSE {}
    /\ IF Heard(m.to, m.carries) THEN Deliver(m.to) ELSE Rest

\* An answer to a process that is informed already is ignored, or makes it try to stop.
OnResponse(m, stops) ==
    /\ m.type = "GOSSIP_RESP"
    /\ net' = net \ {m}
    /\ CASE m.to \notin informed -> Deliver(m.to)
         [] m.to \in informed /\ stops -> impl = "push_pull_stop" /\ Stop(m.to)
         [] OTHER -> Rest

OnMessage(stops) ==
    \E m \in net :
        /\ due = {}
        /\ OnRequest(m) \/ OnResponse(m, stops)
        /\ UNCHANGED <<impl, fanout, due, losses>>

Lose ==
    /\ losses < MaxLosses
    /\ losses' = losses + 1
    /\ \E m \in net : net' = net \ {m}
    /\ UNCHANGED <<impl, fanout, informed, stopped, timers, due, outbox>>

\* The period is over.
Round ==
    /\ due = {} /\ net = {} /\ timers # {}
    /\ due' = timers
    /\ UNCHANGED <<impl, fanout, informed, stopped, timers, net, outbox, losses>>

Samples(p) == kSubset(fanout, Procs \ {p})

Timer == \E p \in Procs : \E peers \in Samples(p) : OnTimer(p, peers)

Next ==
    \/ Timer
    \/ \E stops \in BOOLEAN : OnMessage(stops)
    \/ Lose
    \/ Round

\* The samples are drawn anew in every round: one that joins a process that has
\* the information to one that has not comes up again and again, and so does a
\* draw that lets a process stop.
Spreads(p, peers) ==
    IF p \in informed THEN ~(peers \subseteq informed) ELSE peers \cap informed # {}
Spread ==
    \E p \in Procs : \E peers \in Samples(p) :
        Gossips(p) /\ Spreads(p, peers) /\ OnTimer(p, peers)
StopOf(p) == OnMessage(TRUE) /\ p \in stopped' \ stopped

Fairness ==
    /\ WF_vars(Round) /\ WF_vars(Timer) /\ WF_vars(OnMessage(FALSE))
    /\ SF_vars(Spread) /\ \A p \in Procs : SF_vars(StopOf(p))

Spec == Init /\ [][Next]_vars /\ Fairness

-----------------------------------------------------------------------------
\* get_stats of the simulator: nothing is handed over before DELIVER, and after it
\* at most STOPPED, once, however often the information and its answers come.
OutboxAsRead ==
    \A p \in Procs : outbox[p] \in {<< >>, <<"DELIVER">>, <<"DELIVER", "STOPPED">>}

\* Everyone gets the information, also when those who have it have stopped asking,
\* and the implementations that can stop come to an end.
SpreadsAndEnds ==
    /\ <>[](informed = Procs)
    /\ impl \in {"pull", "push_pull_stop"} ~> [](timers = {})
=============================================================================

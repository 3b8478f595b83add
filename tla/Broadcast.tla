------------------------------ MODULE Broadcast ------------------------------
(***************************************************************************)
(* Reliable causal broadcast (homework 04, BroadcastProcess).  A process   *)
(* relays to everybody each message it hears of, and delivers it once half *)
(* of the processes are known to have broadcast it and everything its      *)
(* sender had delivered has been delivered here; until then the message    *)
(* waits in a buffer.                                                      *)
(*                                                                         *)
(* The transport delivers each message sent exactly once, in any order,    *)
(* except that one whose sender has crashed may never arrive.  A message   *)
(* that never arrives stays in net for ever, so a loss needs no action: no *)
(* fairness is assumed for the envelopes of a crashed process.  Processes  *)
(* that crash stay down and remain a minority.                             *)
(*                                                                         *)
(* The text of a message is abstracted to its identity, the pair           *)
(* (sender, counter) that the code calls message_hash.                     *)
(***************************************************************************)
EXTENDS Naturals, FiniteSets, SequencesExt

CONSTANTS Procs,   \* the processes
          Quotas   \* bound of the model: process -> how many messages its user sends

ASSUME BroadcastAssumption == IsFiniteSet(Procs) /\ Quotas \subseteq [Procs -> Nat]

VARIABLES counter,       \* p -> _counter
          state,         \* p -> _state, the vector of next numbers to deliver
          buffer,        \* p -> _messages_buffer, in insertion order
          broadcasters,  \* p -> hash -> _messages_broadcasters[hash]
          log,           \* p -> hashes delivered, in order; _messages_deliver
                         \*      is the set of its members
          net,           \* bag of the envelopes in flight
          crashed,       \* the processes that have stopped
          quota,         \* the member of Quotas that holds for this run
          casts,         \* history: p -> bag of the hashes p has broadcast
          past           \* history: hash -> what its sender had broadcast or
                         \*          delivered before

procVars == <<counter, state, buffer, broadcasters, log>>
vars == <<procVars, net, crashed, quota, casts, past>>

Hashes == UNION {{p} \X (0 .. quota[p] - 1) : p \in Procs}
Hash(msg) == <<msg.sender, msg.counter>>

Init ==
    /\ quota \in Quotas
    /\ counter = [p \in Procs |-> 0]
    /\ state = [p \in Procs |-> [q \in Procs |-> 0]]
    /\ buffer = [p \in Procs |-> << >>]
    /\ broadcasters = [p \in Procs |-> [h \in Hashes |-> {}]]
    /\ log = [p \in Procs |-> << >>]
    /\ net = << >>
    /\ crashed = {}
    /\ casts = [p \in Procs |-> << >>]
    /\ past = << >>

\* best_effort_broadcast: one envelope to every process, the caller included.
\* What is addressed to a crashed process has no effect and is left out.
Envelopes(p, msg) == {[src |-> p, dst |-> q, msg |-> msg] : q \in Procs \ crashed}

BestEffortBroadcast(p, msg, inFlight) ==
    /\ net' = inFlight (+) SetToBag(Envelopes(p, msg))
    /\ casts' = [casts EXCEPT ![p] = @ (+) SetToBag({Hash(msg)})]

OnLocalMessage(p) ==
    LET msg == [sender |-> p, counter |-> counter[p], state |-> state[p]]
    IN  /\ p \notin crashed
        /\ counter[p] < quota[p]
        /\ BestEffortBroadcast(p, msg, net)
        /\ counter' = [counter EXCEPT ![p] = @ + 1]
        /\ past' = [h \in DOMAIN past \cup {Hash(msg)} |->
                       IF h = Hash(msg)
                       THEN ToSet(log[p]) \cup {<<p, c>> : c \in 0 .. counter[p] - 1}
                       ELSE past[h]]
        /\ UNCHANGED <<state, buffer, broadcasters, log, crashed, quota>>

\* Half of the processes are enough.
EnoughBroadcasters_All(S) == Cardinality(S) = Cardinality(Procs)
EnoughBroadcasters(S) == Cardinality(S) * 2 >= Cardinality(Procs)

\* msg is the next one of its sender, and all that its sender had delivered when
\* it broadcast msg has been delivered according to the vector st.
IsCausallyOrdered_Fifo(msg, st) == msg.counter = st[msg.sender]
IsCausallyOrdered(msg, st) ==
    /\ msg.counter = st[msg.sender]
    /\ \A q \in Procs : msg.state[q] <= st[q]

\* deliver_message on the part of the process state that it and update_deliver
\* change: d is the vector, the log and the buffer.
Delivered(d, msg) ==
    [state  |-> [d.state EXCEPT ![msg.sender] = msg.counter + 1],
     log    |-> Append(d.log, Hash(msg)),
     buffer |-> d.buffer]

DeliverIfOrdered(d, msg) ==
    IF IsCausallyOrdered(msg, d.state) THEN Delivered(d, msg) ELSE d

Undelivered(buf, delivered) ==
    FoldLeft(LAMBDA left, w : IF Contains(delivered, Hash(w)) THEN left ELSE Append(left, w),
             << >>, buf)

\* One pass of update_deliver over the buffer; what it delivered is removed at
\* the end of the pass.
Pass(d) ==
    LET e == FoldLeft(DeliverIfOrdered, d, d.buffer)
    IN  [e EXCEPT !.buffer = Undelivered(@, e.log)]

\* The passes go on until one delivers nothing.  Every pass but the last
\* shortens the buffer, so as many as it has entries are enough.
UpdateDeliver_OnePass(d) == Pass(d)
UpdateDeliver(d) == FoldLeftDomain(LAMBDA e, i : Pass(e), d, d.buffer)

\* msg is delivered and then all that was waiting for it.
DeliverAll(p, msg) ==
    LET before == [state |-> state[p], log |-> log[p], buffer |-> buffer[p]]
        after  == UpdateDeliver(Delivered(before, msg))
    IN  /\ state' = [state EXCEPT ![p] = after.state]
        /\ log' = [log EXCEPT ![p] = after.log]
        /\ buffer' = [buffer EXCEPT ![p] = after.buffer]
        /\ broadcasters' =
               [broadcasters EXCEPT ![p] =
                   [h \in Hashes |->
                       IF h \in ToSet(after.log) \ ToSet(log[p]) THEN {} ELSE @[h]]]

\* _messages_buffer[hash] = msg keeps the place of an entry that is there.
Buffered(buf, msg) == IF Contains(buf, msg) THEN buf ELSE Append(buf, msg)

\* The broadcast is repeated when the process is not among those known to have
\* broadcast the message.
Relays_Never(p, known) == FALSE
Relays_Always(p, known) == TRUE
Relays(p, known) == p \notin known

AlreadyDelivered(p, h) == Contains(log[p], h)

OnMessage(e) ==
    LET p == e.dst
        h == Hash(e.msg)
        known == broadcasters[p][h] \cup {e.src}
        heard == known \cup {p}
    IN  /\ e \in DOMAIN net
        /\ p \notin crashed
        /\ IF Relays(p, known)
           THEN BestEffortBroadcast(p, e.msg, net (-) SetToBag({e}))
           ELSE net' = net (-) SetToBag({e}) /\ UNCHANGED casts
        /\ IF /\ ~AlreadyDelivered(p, h)
              /\ EnoughBroadcasters(heard)
              /\ IsCausallyOrdered(e.msg, state[p])
           THEN DeliverAll(p, e.msg)
           ELSE /\ broadcasters' = [broadcasters EXCEPT ![p][h] = heard]
                /\ buffer' = IF ~AlreadyDelivered(p, h) /\ EnoughBroadcasters(heard)
                             THEN [buffer EXCEPT ![p] = Buffered(@, e.msg)]
                             ELSE buffer
                /\ UNCHANGED <<state, log>>
        /\ UNCHANGED <<counter, crashed, quota, past>>

\* A process stops between two handlers, or while its messages are under way;
\* the readme keeps the correct processes in the majority.
Crash(p) ==
    /\ p \notin crashed
    /\ 2 * (Cardinality(crashed) + 1) < Cardinality(Procs)
    /\ crashed' = crashed \cup {p}
    /\ net' = [e \in {f \in DOMAIN net : f.dst # p} |-> net[e]]
    /\ UNCHANGED <<procVars, quota, casts, past>>

Next ==
    \/ \E p \in Procs : OnLocalMessage(p)
    \/ \E e \in DOMAIN net : OnMessage(e)
    \/ \E p \in Procs : Crash(p)

Spec == Init /\ [][Next]_vars

\* The transport of a process that has not crashed delivers.
Arrives(p, q) ==
    p \notin crashed /\ \E e \in DOMAIN net : e.src = p /\ e.dst = q /\ OnMessage(e)

FairSpec == Spec /\ \A p, q \in Procs : WF_vars(Arrives(p, q))

-----------------------------------------------------------------------------
\* Whoever delivers a message has delivered before it all that the message's
\* sender had broadcast or delivered before sending it, and not the message
\* itself: late copies, which find no trace of it among the broadcasters, are not
\* delivered again.
CausalOrder ==
    \A p \in Procs : \A j \in DOMAIN log[p] :
        LET earlier == {log[p][i] : i \in 1 .. j - 1}
        IN  log[p][j] \notin earlier /\ past[log[p][j]] \subseteq earlier

\* Between two handlers the buffer holds only messages that still wait for an
\* earlier one, each with enough known broadcasters and not yet delivered, so
\* that delivering it finds the entry that deliver_message pops.
BufferWaits ==
    \A p \in Procs : \A i \in DOMAIN buffer[p] :
        LET w == buffer[p][i]
        IN  /\ ~IsCausallyOrdered(w, state[p])
            /\ EnoughBroadcasters(broadcasters[p][Hash(w)])
            /\ Hash(w) \notin ToSet(log[p])

\* The relaying ends by itself: a process broadcasts a message at most twice,
\* three times when it is the message's origin.
RelayingBounded ==
    \A p \in Procs : \A h \in DOMAIN casts[p] :
        casts[p][h] <= IF h[1] = p THEN 3 ELSE 2

\* solution.md, step 2: the broadcast is made "if it was not made earlier by the
\* current process".  The code does not keep this: see the README, section 4.
BroadcastOnce == \A p \in Procs : \A h \in DOMAIN casts[p] : casts[p][h] = 1

\* Whatever anyone has delivered ends up delivered by every process that stays
\* up: there are finitely many messages, so the logs settle.
UniformAgreement ==
    <>[](\A p \in Procs, q \in Procs \ crashed : ToSet(log[p]) \subseteq ToSet(log[q]))

\* A process that stays up delivers every message of its own user.
Validity ==
    <>[](\A p \in Procs \ crashed : \A c \in 0 .. counter[p] - 1 : <<p, c>> \in ToSet(log[p]))
=============================================================================

------------------------------ MODULE Messenger ------------------------------
(***************************************************************************)
(* The messenger (homework 02): a gRPC server that puts every message into *)
(* the stream of every reader, and clients with a thread that reads their  *)
(* stream into a PostBox and an HTTP server, one request at a time, which  *)
(* sends messages and hands the contents of the box to the user.           *)
(*                                                                         *)
(* A message is its author and the time SendMessage stamped on it.  gRPC   *)
(* keeps the order of a stream; a call that finds no free thread in the    *)
(* server's pool waits.  A client may be restarted: its stream stays with  *)
(* the server, and the thread that serves it until the next message.       *)
(***************************************************************************)
EXTENDS Naturals, Sequences, FiniteSets

CONSTANTS Clients,
          NoMessage,    \* not in Clients \X Nat
          Workers,      \* threads of the server's pool
          MaxMessages,  \* bound of the model: messages sent
          MaxRestarts   \* bound of the model: restarts of clients

VARIABLES
    order,     \* history: the messages in the order of their turns at _stream_lock
    streams,   \* _streams: what was put into each, how much of it was taken, from
               \* which place in order it counts, and is a thread still serving it
    turn,      \* the client whose SendMessage holds _stream_lock, if any
    reached,   \* how many streams that call has put its message into
    calls,     \* c -> the message in c's call of SendMessage, or NoMessage
    clock,     \* the last time stamped on a message
    mine,      \* c -> the index of the stream c reads, 0 for none yet
    box,       \* c -> PostBox._messages
    copied,    \* c -> the copy made by a collect_messages that holds PostBox._lock
    shown,     \* history: c -> what the user has got since c's last start
    restarts

vars == <<order, streams, turn, reached, calls, clock, mine, box, copied, shown, restarts>>

Init ==
    /\ order = << >> /\ streams = << >> /\ turn = {} /\ reached = 0
    /\ calls = [c \in Clients |-> NoMessage] /\ clock = 0
    /\ mine = [c \in Clients |-> 0]
    /\ box = [c \in Clients |-> << >>]
    /\ copied = box /\ shown = box
    /\ restarts = 0

Calling == {c \in Clients : calls[c] # NoMessage}
Served == {i \in DOMAIN streams : streams[i].served}
WorkerFree == Cardinality(Served) + Cardinality(Calling) < Workers
PostBoxFree(c) == copied[c] = << >>
Append1(f, i, x) == [f EXCEPT ![i] = Append(@, x)]

\* /sendMessage, and SendMessage up to the lock: the time is taken before it.
Send(c) ==
    /\ c \notin Calling /\ PostBoxFree(c) /\ WorkerFree /\ clock < MaxMessages
    /\ clock' = clock + 1
    /\ calls' = [calls EXCEPT ![c] = <<c, clock'>>]
    /\ UNCHANGED <<order, streams, turn, reached, mine, box, copied, shown, restarts>>

StreamLockFree == turn = {}

Lock(c) ==
    /\ c \in Calling /\ StreamLockFree
    /\ turn' = {c} /\ reached' = 0
    /\ order' = Append(order, calls[c])
    /\ UNCHANGED <<streams, calls, clock, mine, box, copied, shown, restarts>>

\* One round of the loop over _streams, which sees what is appended meanwhile.
Put(c) ==
    /\ c \in turn /\ reached < Len(streams)
    /\ reached' = reached + 1
    /\ streams' = [streams EXCEPT ![reached'].puts = Append(@, calls[c])]
    /\ UNCHANGED <<order, turn, calls, clock, mine, box, copied, shown, restarts>>

\* The end of the loop: the lock is released and the call answered.
Ack(c) ==
    /\ c \in turn /\ reached = Len(streams)
    /\ turn' = {} /\ calls' = [calls EXCEPT ![c] = NoMessage]
    /\ UNCHANGED <<order, streams, reached, clock, mine, box, copied, shown, restarts>>

SubscriptionWaits_Never == TRUE
SubscriptionWaits == StreamLockFree

\* consume_messages begins: ReadMessages appends a new stream.
ReadMessages(c) ==
    /\ mine[c] = 0 /\ WorkerFree /\ SubscriptionWaits
    /\ streams' = Append(streams,
           [puts |-> << >>, taken |-> 0, from |-> Len(order), served |-> TRUE])
    /\ mine' = [mine EXCEPT ![c] = Len(streams')]
    /\ UNCHANGED <<order, turn, reached, calls, clock, box, copied, shown, restarts>>

HasMore(i) == streams[i].taken < Len(streams[i].puts)
AfterNext(s, served) ==
    [puts |-> s.puts, taken |-> s.taken + 1, from |-> s.from, served |-> served]
TakeNext(i, served) == streams' = [streams EXCEPT ![i] = AfterNext(@, served)]

PutMayBegin_Anytime(c) == TRUE
PutMayBegin(c) == PostBoxFree(c)

\* The stream yields its next message and the consumer thread does put_message.
PutMessage(c) ==
    /\ mine[c] # 0 /\ HasMore(mine[c]) /\ PutMayBegin(c)
    /\ box' = Append1(box, c, streams[mine[c]].puts[streams[mine[c]].taken + 1])
    /\ TakeNext(mine[c], TRUE)
    /\ UNCHANGED <<order, turn, reached, calls, clock, mine, copied, shown, restarts>>

\* The thread that serves a client which is gone finds that out with a message.
ReaderGone(i) ==
    /\ i \in Served /\ HasMore(i) /\ \A c \in Clients : mine[c] # i
    /\ TakeNext(i, FALSE)
    /\ UNCHANGED <<order, turn, reached, calls, clock, mine, box, copied, shown, restarts>>

\* /getAndFlushMessages: collect_messages copies the list, then replaces it.
\* With an empty list nothing changes.
CollectCopy(c) ==
    /\ c \notin Calling /\ PostBoxFree(c) /\ box[c] # << >>
    /\ copied' = [copied EXCEPT ![c] = box[c]]
    /\ UNCHANGED <<order, streams, turn, reached, calls, clock, mine, box, shown, restarts>>
CollectClear(c) ==
    /\ copied[c] # << >>
    /\ box' = [box EXCEPT ![c] = << >>]
    /\ shown' = [shown EXCEPT ![c] = @ \o copied[c]]
    /\ copied' = [copied EXCEPT ![c] = << >>]
    /\ UNCHANGED <<order, streams, turn, reached, calls, clock, mine, restarts>>

\* The client's process is started anew.  While its call is under way it is not.
Restart(c) ==
    /\ restarts < MaxRestarts /\ mine[c] # 0 /\ c \notin Calling
    /\ restarts' = restarts + 1
    /\ mine' = [mine EXCEPT ![c] = 0]
    /\ box' = [box EXCEPT ![c] = << >>]
    /\ copied' = [copied EXCEPT ![c] = << >>]
    /\ shown' = [shown EXCEPT ![c] = << >>]
    /\ UNCHANGED <<order, streams, turn, reached, calls, clock>>

Next ==
    \/ \E c \in Clients :
          \/ Send(c) \/ Lock(c) \/ Put(c) \/ Ack(c)
          \/ ReadMessages(c) \/ PutMessage(c)
          \/ CollectCopy(c) \/ CollectClear(c) \/ Restart(c)
    \/ \E i \in DOMAIN streams : ReaderGone(i)

Spec == Init /\ [][Next]_vars

-----------------------------------------------------------------------------
\* How many turns at the lock have reached stream i.
Turns(i) == IF turn # {} /\ reached < i THEN Len(order) - 1 ELSE Len(order)

\* Every stream holds, in one order for all readers, the messages whose turn came
\* after it was opened, but for the one that is being put into the streams: no
\* interleaving of senders and new readers skips or repeats a message for anyone.
StreamsAgree ==
    \A i \in DOMAIN streams :
        streams[i].puts = SubSeq(order, streams[i].from + 1, Turns(i))

\* What the user has been given and what waits in the box is what the client took
\* from its stream: collecting the box while a message arrives loses nothing and
\* shows nothing twice.
NothingLost ==
    \A c \in Clients : mine[c] # 0 =>
        shown[c] \o box[c] = SubSeq(streams[mine[c]].puts, 1, streams[mine[c]].taken)
=============================================================================

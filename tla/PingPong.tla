------------------------------- MODULE PingPong -------------------------------
(***************************************************************************)
(* The client and the server of seminar 01, without repetition (basic) and *)
(* with it (retry).  The user sends a PING once the last one is answered,  *)
(* as the tests do.  The network reorders; for retry it also loses, and    *)
(* the timer may fire before an answer that is slow: equal copies are one. *)
(***************************************************************************)
EXTENDS Naturals

CONSTANTS MaxPings,  \* bound of the model: PINGs of the user, whose values are 1, 2, ..
          MaxDropped \* bound of the model: messages lost

VARIABLES retry,     \* is it impl_retry
          asked,     \* the value of the user's last PING
          answers,   \* history: how many PONGs the user got
          ping,      \* _ping, 0 for None
          timer,     \* is check_pong set
          pings, pongs,  \* the messages in flight, by their values
          dropped

vars == <<retry, asked, answers, ping, timer, pings, pongs, dropped>>

Init ==
    /\ retry \in BOOLEAN
    /\ asked = 0 /\ answers = 0 /\ ping = 0 /\ timer = FALSE
    /\ pings = {} /\ pongs = {}
    /\ dropped = 0

OnLocalMessage ==
    /\ answers = asked /\ asked < MaxPings
    /\ asked' = asked + 1
    /\ pings' = pings \cup {asked'}
    /\ ping' = (IF retry THEN asked' ELSE 0) /\ timer' = retry
    /\ UNCHANGED <<retry, answers, pongs, dropped>>

OnPing(v) ==
    /\ v \in pings
    /\ pings' = pings \ {v} /\ pongs' = pongs \cup {v}
    /\ UNCHANGED <<retry, asked, answers, ping, timer, dropped>>

Expected == ping # 0

\* retry drops a PONG it does not wait for, but does not look at its value.
OnPong(v) ==
    /\ v \in pongs
    /\ pongs' = pongs \ {v}
    /\ answers' = answers + IF retry => Expected THEN 1 ELSE 0
    /\ ping' = 0 /\ timer' = (timer /\ ~Expected)
    /\ UNCHANGED <<retry, asked, pings, dropped>>

SetAgain_Never == FALSE
SetAgain == TRUE

OnTimer ==
    /\ timer
    /\ IF ping # 0 THEN pings' = pings \cup {ping} /\ timer' = SetAgain
       ELSE timer' = FALSE /\ UNCHANGED pings
    /\ UNCHANGED <<retry, asked, answers, ping, pongs, dropped>>

Lose(v) ==
    /\ retry /\ dropped < MaxDropped /\ v \in pings \cup pongs
    /\ dropped' = dropped + 1
    /\ \/ pings' = pings \ {v} /\ UNCHANGED pongs
       \/ pongs' = pongs \ {v} /\ UNCHANGED pings
    /\ UNCHANGED <<retry, asked, answers, ping, timer>>

OnMessage(v) == OnPing(v) \/ OnPong(v)
Next == OnLocalMessage \/ OnTimer \/ \E v \in 1 .. MaxPings : OnMessage(v) \/ Lose(v)

\* The user goes on asking, timers fire, and what is in flight arrives if it is not lost.
Fairness ==
    /\ WF_vars(OnLocalMessage) /\ WF_vars(OnTimer)
    /\ \A v \in 1 .. MaxPings : WF_vars(OnPing(v)) /\ WF_vars(OnPong(v))

Spec == Init /\ [][Next]_vars /\ Fairness

-----------------------------------------------------------------------------
\* The user gets through its PINGs with one PONG for each, though messages are lost
\* and repeated and a late PONG may stand for a newer PING.
OnePongForEachPing == <>[](asked = MaxPings /\ answers = MaxPings)
=============================================================================

--------------------------- MODULE OrderedChannel ---------------------------
(***************************************************************************)
(* What a reliable FIFO channel promises: what has been handed over is     *)
(* always a prefix of what has been submitted.  One step may hand over a   *)
(* run of several texts, as a receiver does when a late message fills the  *)
(* gap in front of messages it already holds.                              *)
(***************************************************************************)
EXTENDS Naturals, Sequences

CONSTANT Texts

VARIABLES sent, delivered

vars == <<sent, delivered>>

Init == sent = << >> /\ delivered = << >>

Submit(t) == sent' = Append(sent, t) /\ UNCHANGED delivered

HandOver ==
    /\ Len(delivered) < Len(sent)
    /\ \E n \in Len(delivered) + 1 .. Len(sent) : delivered' = SubSeq(sent, 1, n)
    /\ UNCHANGED sent

Next == (\E t \in Texts : Submit(t)) \/ HandOver

Spec == Init /\ [][Next]_vars

\* The channel never stops while it has something to hand over.
FairSpec == Spec /\ WF_vars(HandOver)
=============================================================================

----------------------------- MODULE OnceChannel -----------------------------
(***************************************************************************)
(* What a channel without duplication promises its two users: texts are    *)
(* submitted one after another, each is numbered by its position, and each *)
(* is handed over at most once and unaltered.  Nothing is said of order.   *)
(***************************************************************************)
EXTENDS Naturals, Sequences, BagsExt

CONSTANT Texts

VARIABLES sent,       \* the sequence of the texts submitted
          delivered   \* bag of the messages handed over

vars == <<sent, delivered>>

\* The message that carries number k (numbers start at 0).
Numbered(k) == [order |-> k, text |-> sent[k + 1]]

Init == sent = << >> /\ delivered = << >>

Submit(t) == sent' = Append(sent, t) /\ UNCHANGED delivered

HandOver(k) ==
    /\ Numbered(k) \notin DOMAIN delivered
    /\ delivered' = BagAdd(delivered, Numbered(k))
    /\ UNCHANGED sent

Next == (\E t \in Texts : Submit(t)) \/ (\E k \in 0 .. Len(sent) - 1 : HandOver(k))

Spec == Init /\ [][Next]_vars
=============================================================================

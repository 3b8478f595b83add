----------------------------- MODULE MCBroadcast -----------------------------
EXTENDS Broadcast, TLC

Symmetry == Permutations(Procs)

\* One user sends one message; one sends three, or each sends one.
OneMessage == {[p \in Procs |-> IF p = CHOOSE q \in Procs : TRUE THEN 1 ELSE 0]}
RunOrReply == {[p \in Procs |-> 1]} \cup {[p \in Procs |-> IF p = q THEN 3 ELSE 0] : q \in Procs}
==============================================================================

-------------------------------- MODULE Ring --------------------------------
(***************************************************************************)
(* Consistent hashing (homework 07, KeyStore) on sets of hashes: which     *)
(* node of a ring answers for a key, and which keys it keeps when a new    *)
(* node takes over a part of its arc.  KeyStore models the sorted deque    *)
(* and the binary search behind these operators, and is checked against    *)
(* them.                                                                   *)
(***************************************************************************)
EXTENDS Naturals, FiniteSetsExt

\* get_closest_key: the last node at or before h, going round from the first.
Owner_After(S, h) ==
    LET above == {n \in S : n >= h} IN IF above = {} THEN Min(S) ELSE Min(above)
Owner(S, h) ==
    LET below == {n \in S : n <= h} IN IF below = {} THEN Max(S) ELSE Max(below)

\* split_by_key: does node from, in a ring S that already has split, keep h.
Keeps(S, from, split, h) ==
    \/ from <= h /\ h < split
    \/ from = Max(S) /\ (h >= from \/ h < split)
=============================================================================

------------------------------ MODULE KeyStore ------------------------------
(***************************************************************************)
(* The class KeyStore of homework 07: a deque of node names sorted by      *)
(* their hashes, searched by halving.  Indices start at 1 here and at 0 in *)
(* the code.  The strings are abstracted to numbers in their               *)
(* lexicographic order; Hash says where each of them lies on the ring.     *)
(***************************************************************************)
EXTENDS Naturals, SequencesExt, Ring

CONSTANTS Names,   \* the names of nodes
          Hash,    \* name -> _get_hash(name)
          Hashes   \* the hashes of the keys to be looked up

ASSUME KeyStoreAssumption ==
    /\ Names \subseteq Nat /\ IsFiniteSet(Names)
    /\ Hash \in [Names -> Nat] /\ Hashes \subseteq Nat

VARIABLES deque,    \* _d
          members   \* history: the names added and not removed since

vars == <<deque, members>>

\* The order of the tuples (hash, name).
Before(a, b) == Hash[a] < Hash[b] \/ (Hash[a] = Hash[b] /\ a < b)

\* sorted(..) of the constructor: each name has as many before it as its place says.
Sorted(S) ==
    [i \in 1 .. Cardinality(S) |->
        CHOOSE n \in S : Cardinality({m \in S : Before(m, n)}) = i - 1]

Init == members \in (SUBSET Names) \ {{}} /\ deque = Sorted(members)

\* _bin_search: the last entry whose hash is at most h, by halving l .. r.
BinSearch_LowMiddle(d, h) ==
    LET search[lr \in (DOMAIN d) \X (DOMAIN d)] ==
            LET l == lr[1]
                r == lr[2]
                m == (l + r) \div 2
            IN  IF l >= r THEN r
                ELSE IF Hash[d[m]] > h THEN search[<<l, m>>] ELSE search[<<m + 1, r>>]
    IN  search[<<1, Len(d)>>]
BinSearch(d, h) ==
    LET search[lr \in (DOMAIN d) \X (DOMAIN d)] ==
            LET l == lr[1]
                r == lr[2]
                m == (l + r) \div 2 + 1
            IN  IF l = r THEN r
                ELSE IF Hash[d[m]] > h THEN search[<<l, m - 1>>] ELSE search[<<m, r>>]
    IN  search[<<1, Len(d)>>]

\* get_index_by_key: a hash before the first entry belongs to the last one, or,
\* with key_add, is to be inserted after none.
GetIndex_First(d, h, keyAdd) ==
    IF h < Hash[d[1]] THEN (IF keyAdd THEN 0 ELSE 1) ELSE BinSearch(d, h)
GetIndex(d, h, keyAdd) ==
    IF h < Hash[d[1]] THEN (IF keyAdd THEN 0 ELSE Len(d)) ELSE BinSearch(d, h)

ClosestKey(d, h) == d[GetIndex(d, h, FALSE)]

InsertionIndex(d, h) == GetIndex(d, h, TRUE) + 1

\* A node is announced once, when it is new.
AddKey(n) ==
    /\ n \notin members
    /\ deque' = InsertAt(deque, InsertionIndex(deque, Hash[n]), n)
    /\ members' = members \cup {n}

\* The system keeps at least one node.
RemoveKey(n) ==
    LET i == GetIndex(deque, Hash[n], FALSE)
    IN  /\ n \in members
        /\ Cardinality(members) > 1
        /\ deque' = IF deque[i] = n THEN RemoveAt(deque, i) ELSE deque
        /\ members' = members \ {n}

Next == \E n \in Names : AddKey(n) \/ RemoveKey(n)

Spec == Init /\ [][Next]_vars

\* split_by_key on one key: is it left with from.
SplitKeeps_SplitIncluded(d, from, split, h) == Hash[from] <= h /\ h <= Hash[split]
SplitKeeps(d, from, split, h) ==
    \/ Hash[from] <= h /\ h < Hash[split]
    \/ from = Last(d) /\ (h >= Hash[from] \/ h < Hash[split])

-----------------------------------------------------------------------------
MemberHashes == {Hash[n] : n \in members}

\* The search by halving finds the node that consistent hashing names, also for
\* keys below the first node, which belong to the last.
SearchFindsOwner ==
    \A h \in Hashes : Hash[ClosestKey(deque, h)] = Owner(MemberHashes, h)

\* When a node is added, its predecessor keeps exactly those of its keys that
\* still belong to it, and the new node becomes the owner of the others: on both
\* sides of the ring's end, and in a ring of one.
OwnerAfterSplit(n, h) ==
    LET from == ClosestKey(deque, Hash[n])
    IN  IF Owner(MemberHashes, h) = Hash[from] /\ ~SplitKeeps(deque', from, n, h)
        THEN Hash[n] ELSE Owner(MemberHashes, h)
Splits == \A n \in members' \ members : \A h \in Hashes :
              Owner(MemberHashes', h) = OwnerAfterSplit(n, h)
SplitFollowsOwner == [][Splits]_vars

\* When a node is removed, the node found at its place is the new owner of every
\* key it answered for, so that all its records may go there in one message.
Inherits == \A n \in members \ members' : \A h \in Hashes :
                Owner(MemberHashes, h) = Hash[n] =>
                    Owner(MemberHashes', h) = Hash[ClosestKey(deque', Hash[n])]
HeirOwnsAll == [][Inherits]_vars
=============================================================================

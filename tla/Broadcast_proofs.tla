-------------------------- MODULE Broadcast_proofs --------------------------
(***************************************************************************)
(* Proofs about Broadcast, for any number of processes and messages and    *)
(* any crashes: the order of the log, what is in the buffer, the number of *)
(* broadcasts, and that at rest the processes that are up agree.           *)
(***************************************************************************)
EXTENDS Broadcast, FiniteSetTheorems, WellFoundedInduction, TLAPS

-----------------------------------------------------------------------------
(* Folds *)

\* A finite set of numbers that is not empty has a greatest element.
LEMMA MaxIs ==
    ASSUME NEW S, S \subseteq Nat, IsFiniteSet(S), S # {}
    PROVE  Max(S) \in S /\ \A y \in S : Max(S) >= y
<1> DEFINE Without == {T \in SUBSET S : T # {} /\ ~ \E x \in T : \A y \in T : x >= y}
           Order == StrictSubsetOrdering(S)
<1>1. ASSUME Without # {} PROVE FALSE
  <2>1. Without \subseteq FiniteSubsetsOf(S)
    BY FS_Subset DEF FiniteSubsetsOf
  <2>2. IsWellFoundedOn(Order, FiniteSubsetsOf(S))
    BY FS_StrictSubsetOrderingWellFounded
  <2>3. PICK T \in Without : \A U \in Without : <<U, T>> \notin Order
    <3> HIDE DEF Without, Order
    <3> QED
      BY <1>1, <2>1, <2>2, WFMin
  <2>4. PICK x \in T : TRUE
    OBVIOUS
  <2>5. T \ {x} \notin Without
    BY <2>3, <2>4 DEF StrictSubsetOrdering
  <2>6. CASE T = {x}
    BY <2>4, <2>6
  <2>7. CASE T # {x}
    <3>1. PICK z \in T \ {x} : \A y \in T \ {x} : z >= y
      BY <2>4, <2>5, <2>7
    <3>2. x \in Nat /\ z \in Nat /\ \A y \in T : y \in Nat
      BY <2>4, <3>1
    <3>3. z >= x \/ x > z
      BY <3>2
    <3> QED
      BY <2>4, <3>1, <3>2, <3>3
  <2> QED
    BY <2>6, <2>7
<1>2. \E x \in S : \A y \in S : x >= y
  BY <1>1
<1> QED
  BY <1>2 DEF Max

\* Induction over the subsets of a finite set of numbers, the greatest number last.
LEMMA SubsetInduction ==
    ASSUME NEW S, S \subseteq Nat, IsFiniteSet(S), NEW T, {} \in T,
           \A s \in SUBSET S : s # {} /\ s \ {Max(s)} \in T => s \in T
    PROVE  SUBSET S \subseteq T
<1> DEFINE Bad == {s \in SUBSET S : s \notin T}
           Order == StrictSubsetOrdering(S)
<1>1. ASSUME Bad # {} PROVE FALSE
  <2>1. Bad \subseteq FiniteSubsetsOf(S)
    BY FS_Subset DEF FiniteSubsetsOf
  <2>2. IsWellFoundedOn(Order, FiniteSubsetsOf(S))
    BY FS_StrictSubsetOrderingWellFounded
  <2>3. PICK s \in Bad : \A u \in Bad : <<u, s>> \notin Order
    <3> HIDE DEF Bad, Order
    <3> QED
      BY <1>1, <2>1, <2>2, WFMin
  <2>4. s # {} /\ s \in SUBSET S /\ s \notin T
    BY <2>3
  <2>5. Max(s) \in s
    BY <2>4, MaxIs, FS_Subset
  <2>6. s \ {Max(s)} \in T
    <3>1. s \ {Max(s)} \in SUBSET S /\ s \in SUBSET S /\ s \ {Max(s)} # s
      <4>1. PICK m : m = Max(s)
        OBVIOUS
      <4>2. m \in s /\ m \notin s \ {m}
        BY <2>5, <4>1
      <4> QED
        BY <2>4, <4>1, <4>2
    <3>2. <<s \ {Max(s)}, s>> \in Order
      BY <3>1 DEF StrictSubsetOrdering
    <3> QED
      BY <2>3, <3>1, <3>2
  <2> QED
    BY <2>4, <2>6
<1> QED
  BY <1>1

\* The function a fold is defined by exists, for any step.
FoldOverSubsets(h, S, V, base, G) ==
    /\ h \in [SUBSET S -> V]
    /\ \A s \in SUBSET S : h[s] = IF s = {} THEN base ELSE G[<<Max(s), h[s \ {Max(s)}]>>]

LEMMA FoldExists ==
    ASSUME NEW S, S \subseteq Nat, IsFiniteSet(S), NEW V, NEW base \in V, NEW G \in [S \X V -> V]
    PROVE  \E h : FoldOverSubsets(h, S, V, base, G)
<1> DEFINE Right(h, s) == h[s] = IF s = {} THEN base ELSE G[<<Max(s), h[s \ {Max(s)}]>>]
           T == {t \in SUBSET S : \E h \in [SUBSET S -> V] : \A s \in SUBSET t : Right(h, s)}
<1>1. {} \in T
  <2>1. [s \in SUBSET S |-> base] \in [SUBSET S -> V]
    OBVIOUS
  <2> QED
    BY <2>1
<1>2. ASSUME NEW t \in SUBSET S, t # {}, t \ {Max(t)} \in T PROVE t \in T
  <2>1. PICK h \in [SUBSET S -> V] : \A s \in SUBSET (t \ {Max(t)}) : Right(h, s)
    BY <1>2
  <2>2. Max(t) \in t /\ \A y \in t : Max(t) >= y
    BY <1>2, MaxIs, FS_Subset
  <2> DEFINE new == {s \in SUBSET t : Max(t) \in s}
             k == [s \in SUBSET S |-> IF s \in new THEN G[<<Max(s), h[s \ {Max(s)}]>>] ELSE h[s]]
  <2>3. \A s \in new : Max(s) = Max(t)
    <3> SUFFICES ASSUME NEW s \in new PROVE Max(s) = Max(t)
      OBVIOUS
    <3>1. s \subseteq S /\ s # {} /\ IsFiniteSet(s) /\ Max(t) \in s
      BY FS_Subset
    <3>2. Max(s) \in s /\ Max(s) >= Max(t)
      BY <3>1, MaxIs
    <3>3. Max(s) \in Nat /\ Max(t) \in Nat /\ Max(t) >= Max(s)
      BY <2>2, <3>1, <3>2
    <3> QED
      BY <3>2, <3>3
  <2>4. \A s \in new : /\ <<Max(s), h[s \ {Max(s)}]>> \in S \X V
                       /\ s \ {Max(s)} \notin new /\ s \ {Max(s)} \in SUBSET S /\ s # {}
    BY <2>1, <2>2, <2>3
  <2>5. k \in [SUBSET S -> V]
    BY <2>1, <2>4
  <2>6. ASSUME NEW s \in SUBSET t PROVE Right(k, s)
    <3>1. CASE s \in new
      BY <2>4, <3>1
    <3>2. CASE s \notin new
      <4>1. s \in SUBSET (t \ {Max(t)}) /\ s \ {Max(s)} \in SUBSET S /\ s \ {Max(s)} \notin new
        BY <3>2
      <4>2. k[s] = h[s] /\ k[s \ {Max(s)}] = h[s \ {Max(s)}]
        BY <3>2, <4>1
      <4> QED
        BY <2>1, <4>1, <4>2
    <3> QED
      BY <3>1, <3>2
  <2> HIDE DEF Right, k
  <2> QED
    BY <2>5, <2>6
<1>3. S \in T
  <2> HIDE DEF T
  <2>1. \A s \in SUBSET S : s # {} /\ s \ {Max(s)} \in T => s \in T
    BY <1>2
  <2> QED
    BY <1>1, <2>1, SubsetInduction
<1> QED
  BY <1>3 DEF FoldOverSubsets

\* The same function, seen on the prefixes 1 .. k only.
FoldOverPrefixes(F, n, V, base, G) ==
    /\ F \in [0 .. n -> V]
    /\ F[0] = base
    /\ \A k \in 1 .. n : F[k] = G[<<k, F[k - 1]>>]

Folds(h, F, n, V, base, G) ==
    /\ FoldOverSubsets(h, 1 .. n, V, base, G)
    /\ FoldOverPrefixes(F, n, V, base, G)
    /\ F[n] = h[1 .. n]

LEMMA PrefixFold ==
    ASSUME NEW n \in Nat, NEW V, NEW base \in V, NEW G \in [(1 .. n) \X V -> V],
           NEW h, FoldOverSubsets(h, 1 .. n, V, base, G)
    PROVE  \E F : Folds(h, F, n, V, base, G)
<1>0. /\ h \in [SUBSET (1 .. n) -> V]
      /\ \A s \in SUBSET (1 .. n) :
            h[s] = IF s = {} THEN base ELSE G[<<Max(s), h[s \ {Max(s)}]>>]
  BY DEF FoldOverSubsets
<1> DEFINE F == [k \in 0 .. n |-> h[1 .. k]]
<1>1. F \in [0 .. n -> V]
  <2>1. ASSUME NEW k \in 0 .. n PROVE h[1 .. k] \in V
    <3>1. 1 .. k \in SUBSET (1 .. n)
      OBVIOUS
    <3> QED
      BY <1>0, <3>1
  <2> QED
    BY <2>1
<1>2. F[0] = base /\ F[n] = h[1 .. n]
  <2>1. 1 .. 0 = {} /\ 1 .. 0 \in SUBSET (1 .. n)
    OBVIOUS
  <2>2. 0 \in 0 .. n /\ n \in 0 .. n
    OBVIOUS
  <2>3. h[{}] = base
    BY <1>0, <2>1
  <2> QED
    BY <2>1, <2>2, <2>3
<1>3. ASSUME NEW k \in 1 .. n PROVE F[k] = G[<<k, F[k - 1]>>]
  <2>1. 1 .. k \in SUBSET (1 .. n) /\ 1 .. k # {} /\ k \in 1 .. k /\ 1 .. k \subseteq Nat
    OBVIOUS
  <2>2. IsFiniteSet(1 .. k)
    BY FS_Interval
  <2>3. Max(1 .. k) \in 1 .. k /\ Max(1 .. k) >= k
    BY <2>1, <2>2, MaxIs
  <2>4. Max(1 .. k) = k
    BY <2>3
  <2>5. (1 .. k) \ {k} = 1 .. (k - 1)
    OBVIOUS
  <2>6. k \in 0 .. n /\ k - 1 \in 0 .. n
    OBVIOUS
  <2> QED
    BY <1>0, <2>1, <2>4, <2>5, <2>6
<1> HIDE DEF F
<1> QED
  BY <1>1, <1>2, <1>3 DEF Folds, FoldOverPrefixes

\* Induction over 0 .. n.
LEMMA PrefixInduction ==
    ASSUME NEW n \in Nat, NEW T, 0 \in T, \A k \in 1 .. n : k - 1 \in T => k \in T
    PROVE  0 .. n \subseteq T
<1> DEFINE Good == {k \in 0 .. n : 0 .. k \subseteq T}
<1>1. 0 \in Good
  OBVIOUS
<1>2. Good \subseteq Nat /\ IsFiniteSet(Good)
  <2>1. IsFiniteSet(0 .. n) /\ Good \subseteq 0 .. n
    BY FS_Interval
  <2> QED
    BY <2>1, FS_Subset
<1>3. PICK m \in Good : \A k \in Good : m >= k
  <2> HIDE DEF Good
  <2>1. Max(Good) \in Good /\ \A y \in Good : Max(Good) >= y
    BY <1>1, <1>2, MaxIs
  <2> QED
    BY <2>1
<1>4. CASE m = n
  BY <1>4
<1>5. CASE m # n
  <2>1. m + 1 \in 1 .. n /\ (m + 1) - 1 = m /\ m \in T
    BY <1>5
  <2>2. m + 1 \in T
    BY <2>1
  <2>3. 0 .. m + 1 = (0 .. m) \cup {m + 1}
    BY <2>1
  <2>4. m + 1 \in Good
    BY <2>1, <2>2, <2>3
  <2> QED
    BY <1>3, <2>4
<1> QED
  BY <1>4, <1>5

\* What the proof of a fold over 1 .. n starts from: the function on subsets that
\* the fold is defined by, and its values on the prefixes.
LEMMA FoldFunctions ==
    ASSUME NEW n \in Nat, NEW V, NEW base \in V, NEW G \in [(1 .. n) \X V -> V]
    PROVE  \E h, F : Folds(h, F, n, V, base, G)
<1>1. PICK S : S = 1 .. n
  OBVIOUS
<1>2. IsFiniteSet(S) /\ S \subseteq Nat /\ G \in [S \X V -> V]
  BY <1>1, FS_Interval
<1>3. PICK h : FoldOverSubsets(h, S, V, base, G)
  BY <1>2, FoldExists
<1>4. FoldOverSubsets(h, 1 .. n, V, base, G)
  BY <1>1, <1>3
<1> QED
  BY <1>4, PrefixFold

\* What the step of such a function is made of is in range.
StepAt(h, n, V, G, t) ==
    Max(t) \in 1 .. n /\ h[t \ {Max(t)}] \in V /\ h[t] = G[<<Max(t), h[t \ {Max(t)}]>>]

LEMMA FoldStepType ==
    ASSUME NEW n \in Nat, NEW V, NEW base, NEW G, NEW h, FoldOverSubsets(h, 1 .. n, V, base, G)
    PROVE  \A t \in SUBSET (1 .. n) : t # {} => StepAt(h, n, V, G, t)
<1> SUFFICES ASSUME NEW t \in SUBSET (1 .. n), t # {}
             PROVE  StepAt(h, n, V, G, t)
  OBVIOUS
<1>1. IsFiniteSet(1 .. n) /\ 1 .. n \subseteq Nat
  BY FS_Interval
<1>2. IsFiniteSet(t) /\ t \subseteq Nat
  BY <1>1, FS_Subset
<1>3. Max(t) \in t
  BY <1>2, MaxIs
<1>4. PICK m : m = Max(t)
  OBVIOUS
<1>5. t \ {m} \in SUBSET (1 .. n)
  OBVIOUS
<1> QED
  BY <1>3, <1>4, <1>5 DEF FoldOverSubsets, StepAt

\* Two functions defined by the same recursion agree.
LEMMA FoldUnique ==
    ASSUME NEW n \in Nat, NEW g, NEW h,
           g[{}] = h[{}],
           \A t \in SUBSET (1 .. n) :
              t # {} /\ g[t \ {Max(t)}] = h[t \ {Max(t)}] => g[t] = h[t]
    PROVE  g[1 .. n] = h[1 .. n]
<1> DEFINE T == {t \in SUBSET (1 .. n) : g[t] = h[t]}
<1>1. IsFiniteSet(1 .. n) /\ 1 .. n \subseteq Nat
  BY FS_Interval
<1>2. {} \in T
  OBVIOUS
<1>3. \A t \in SUBSET (1 .. n) : t # {} /\ t \ {Max(t)} \in T => t \in T
  OBVIOUS
<1>4. SUBSET (1 .. n) \subseteq T
  <2> HIDE DEF T
  <2> QED
    BY <1>1, <1>2, <1>3, SubsetInduction
<1> QED
  BY <1>4

-----------------------------------------------------------------------------
(* The folds of update_deliver *)

Msgs == [sender : Procs, counter : Nat, state : [Procs -> Nat]]
Ids == Procs \X Nat
Parts == [state : [Procs -> Nat], log : Seq(Ids), buffer : Seq(Msgs)]

LEMMA HashType == \A w \in Msgs : Hash(w) \in Ids
  BY DEF Msgs, Ids, Hash

\* One delivery on the types.
LEMMA DeliverType ==
    ASSUME NEW d \in Parts, NEW w \in Msgs
    PROVE  DeliverIfOrdered(d, w) \in Parts /\ Delivered(d, w) \in Parts
<1>1. w.counter + 1 \in Nat /\ Hash(w) \in Ids /\ w.sender \in Procs
  BY HashType DEF Msgs
<1>2. d.state \in [Procs -> Nat] /\ d.log \in Seq(Ids) /\ d.buffer \in Seq(Msgs)
  BY DEF Parts
<1>3. Append(d.log, Hash(w)) \in Seq(Ids) /\ [d.state EXCEPT ![w.sender] = w.counter + 1] \in [Procs -> Nat]
  BY <1>1, <1>2
<1>4. Delivered(d, w) \in Parts
  BY <1>2, <1>3 DEF Parts, Delivered
<1> QED
  BY <1>4 DEF DeliverIfOrdered

\* The loop of a pass goes through the buffer from left to right.
LEMMA DeliverSteps ==
    ASSUME NEW d \in Parts, NEW s \in Seq(Msgs)
    PROVE  \E F \in [0 .. Len(s) -> Parts] :
              /\ F[0] = d
              /\ \A k \in 1 .. Len(s) : F[k] = DeliverIfOrdered(F[k - 1], s[k])
              /\ FoldLeft(DeliverIfOrdered, d, s) = F[Len(s)]
<1>2. PICK n \in Nat : n = Len(s) /\ DOMAIN s = 1 .. n
  OBVIOUS
<1> DEFINE G == [x \in (1 .. n) \X Parts |-> DeliverIfOrdered(x[2], s[x[1]])]
           iter == CHOOSE g : g = [t \in SUBSET (DOMAIN s) |->
                       IF t = {} THEN d ELSE DeliverIfOrdered(g[t \ {Max(t)}], s[Max(t)])]
<1>3. G \in [(1 .. n) \X Parts -> Parts]
  <2>1. ASSUME NEW k \in 1 .. n, NEW e \in Parts PROVE DeliverIfOrdered(e, s[k]) \in Parts
    <3>1. s[k] \in Msgs
      BY <1>2
    <3> QED
      BY <3>1, DeliverType
  <2> QED
    BY <2>1
<1>4. \A k \in 1 .. n : \A e \in Parts : G[<<k, e>>] = DeliverIfOrdered(e, s[k])
  OBVIOUS
<1> HIDE DEF G
<1>5. PICK h, F : Folds(h, F, n, Parts, d, G)
  BY <1>3, FoldFunctions
<1>6. /\ h[{}] = d
      /\ \A t \in SUBSET (1 .. n) :
            t # {} => h[t] = DeliverIfOrdered(h[t \ {Max(t)}], s[Max(t)])
  <2>1. h[{}] = d
    BY <1>5 DEF Folds, FoldOverSubsets
  <2>2. ASSUME NEW t \in SUBSET (1 .. n), t # {}
        PROVE  h[t] = DeliverIfOrdered(h[t \ {Max(t)}], s[Max(t)])
    <3>1. FoldOverSubsets(h, 1 .. n, Parts, d, G)
      BY <1>5 DEF Folds
    <3>2. StepAt(h, n, Parts, G, t)
      BY <2>2, <3>1, FoldStepType
    <3> QED
      BY <1>4, <3>2 DEF StepAt
  <2> QED
    BY <2>1, <2>2
<1>7. iter = [t \in SUBSET (DOMAIN s) |->
              IF t = {} THEN d ELSE DeliverIfOrdered(iter[t \ {Max(t)}], s[Max(t)])]
  <2>1. h = [t \in SUBSET (DOMAIN s) |->
                IF t = {} THEN d ELSE DeliverIfOrdered(h[t \ {Max(t)}], s[Max(t)])]
    BY <1>2, <1>5, <1>6 DEF Folds, FoldOverSubsets
  <2> QED
    BY <2>1, Zenon
<1>8. FoldLeft(DeliverIfOrdered, d, s) = iter[1 .. n]
  BY <1>2 DEF FoldLeft, MapThenFoldSet
<1> HIDE DEF iter
<1>9. iter[1 .. n] = h[1 .. n]
  <2>1. iter[{}] = h[{}]
    BY <1>6, <1>7
  <2>2. ASSUME NEW t \in SUBSET (1 .. n), t # {}, iter[t \ {Max(t)}] = h[t \ {Max(t)}]
        PROVE  iter[t] = h[t]
    <3>1. iter[t] = DeliverIfOrdered(iter[t \ {Max(t)}], s[Max(t)])
      BY <1>2, <1>7, <2>2
    <3> QED
      BY <1>6, <2>2, <3>1
  <2> QED
    BY <2>1, <2>2, FoldUnique
<1>10. F \in [0 .. n -> Parts] /\ F[0] = d /\ F[n] = h[1 .. n]
  BY <1>5 DEF Folds, FoldOverPrefixes
<1>11. ASSUME NEW k \in 1 .. n PROVE F[k] = DeliverIfOrdered(F[k - 1], s[k])
  <2>1. k - 1 \in 0 .. n
    OBVIOUS
  <2> QED
    BY <1>4, <1>5, <1>10, <2>1 DEF Folds, FoldOverPrefixes
<1> QED
  BY <1>2, <1>8, <1>9, <1>10, <1>11


\* What a pass removes, seen from left to right.
LEMMA UndeliveredSteps ==
    ASSUME NEW s \in Seq(Msgs), NEW done
    PROVE  \E F \in [0 .. Len(s) -> Seq(Msgs)] :
              /\ F[0] = << >>
              /\ \A k \in 1 .. Len(s) :
                    F[k] = IF Contains(done, Hash(s[k])) THEN F[k - 1] ELSE Append(F[k - 1], s[k])
              /\ Undelivered(s, done) = F[Len(s)]
<1>1. PICK V, none : V = Seq(Msgs) /\ none \in V /\ none = << >>
  <2>1. << >> \in Seq(Msgs)
    OBVIOUS
  <2> QED
    BY <2>1
<1>2. PICK n \in Nat : n = Len(s) /\ DOMAIN s = 1 .. n
  OBVIOUS
<1> DEFINE Left(w, left) == IF Contains(done, Hash(w)) THEN left ELSE Append(left, w)
           G == [x \in (1 .. n) \X V |-> Left(s[x[1]], x[2])]
           iter == CHOOSE g : g = [t \in SUBSET (DOMAIN s) |->
                       IF t = {} THEN none ELSE Left(s[Max(t)], g[t \ {Max(t)}])]
<1>3. G \in [(1 .. n) \X V -> V]
  <2>1. ASSUME NEW k \in 1 .. n, NEW e \in V PROVE Left(s[k], e) \in V
    <3>1. s[k] \in Msgs /\ e \in Seq(Msgs)
      BY <1>1, <1>2
    <3>2. Append(e, s[k]) \in V
      BY <1>1, <3>1
    <3> QED
      BY <3>2
  <2> HIDE DEF Left
  <2> QED
    BY <2>1
<1>4. \A k \in 1 .. n : \A e \in V : G[<<k, e>>] = Left(s[k], e)
  <2> HIDE DEF Left
  <2> QED
    OBVIOUS
<1>5. PICK h, F : Folds(h, F, n, V, none, G)
  <2> HIDE DEF G
  <2> QED
    BY <1>1, <1>3, FoldFunctions
<1>6. Undelivered(s, done) = iter[1 .. n]
  BY <1>1, <1>2, Zenon DEF Undelivered, FoldLeft, MapThenFoldSet
<1> HIDE DEF G, Left
<1>7. /\ h[{}] = none
      /\ \A t \in SUBSET (1 .. n) : t # {} => h[t] = Left(s[Max(t)], h[t \ {Max(t)}])
  <2>1. h[{}] = none
    BY <1>5 DEF Folds, FoldOverSubsets
  <2>2. ASSUME NEW t \in SUBSET (1 .. n), t # {}
        PROVE  h[t] = Left(s[Max(t)], h[t \ {Max(t)}])
    <3>1. FoldOverSubsets(h, 1 .. n, V, none, G)
      BY <1>5 DEF Folds
    <3>2. StepAt(h, n, V, G, t)
      BY <2>2, <3>1, FoldStepType
    <3> QED
      BY <1>4, <3>2 DEF StepAt
  <2> QED
    BY <2>1, <2>2
<1>8. iter = [t \in SUBSET (DOMAIN s) |->
                 IF t = {} THEN none ELSE Left(s[Max(t)], iter[t \ {Max(t)}])]
  <2>1. h = [t \in SUBSET (DOMAIN s) |->
                IF t = {} THEN none ELSE Left(s[Max(t)], h[t \ {Max(t)}])]
    BY <1>2, <1>5, <1>7 DEF Folds, FoldOverSubsets
  <2> QED
    BY <2>1, Zenon
<1> HIDE DEF iter
<1>9. iter[1 .. n] = h[1 .. n]
  <2>1. iter[{}] = h[{}]
    BY <1>7, <1>8
  <2>2. ASSUME NEW t \in SUBSET (1 .. n), t # {}, iter[t \ {Max(t)}] = h[t \ {Max(t)}]
        PROVE  iter[t] = h[t]
    <3>1. iter[t] = Left(s[Max(t)], iter[t \ {Max(t)}])
      BY <1>2, <1>8, <2>2
    <3> QED
      BY <1>7, <2>2, <3>1
  <2> QED
    BY <2>1, <2>2, FoldUnique
<1>10. F \in [0 .. n -> V] /\ F[0] = none /\ F[n] = h[1 .. n]
  BY <1>5 DEF Folds, FoldOverPrefixes
<1>11. ASSUME NEW k \in 1 .. n PROVE F[k] = Left(s[k], F[k - 1])
  <2>1. k - 1 \in 0 .. n
    OBVIOUS
  <2> QED
    BY <1>4, <1>5, <1>10, <2>1 DEF Folds, FoldOverPrefixes
<1>12. \A k \in 1 .. n :
          F[k] = IF Contains(done, Hash(s[k])) THEN F[k - 1] ELSE Append(F[k - 1], s[k])
  BY <1>11 DEF Left
<1> QED
  BY <1>1, <1>2, <1>6, <1>9, <1>10, <1>12

\* What is left is what was not delivered, and shorter when something was removed.
Remains(u, s, done) ==
    /\ u \in Seq(Msgs)
    /\ Len(u) <= Len(s)
    /\ (\E j \in 1 .. Len(s) : Contains(done, Hash(s[j]))) => Len(u) < Len(s)
    /\ \A i \in 1 .. Len(u) : /\ \E j \in 1 .. Len(s) : u[i] = s[j]
                              /\ ~Contains(done, Hash(u[i]))
    /\ \A j \in 1 .. Len(s) : Contains(done, Hash(s[j])) \/ \E i \in 1 .. Len(u) : u[i] = s[j]

LEMMA UndeliveredIs ==
    ASSUME NEW s \in Seq(Msgs), NEW done
    PROVE  Remains(Undelivered(s, done), s, done)
<1> DEFINE Gone(w) == Contains(done, Hash(w))
<1>1. PICK F \in [0 .. Len(s) -> Seq(Msgs)] :
              /\ F[0] = << >>
              /\ \A k \in 1 .. Len(s) : F[k] = IF Gone(s[k]) THEN F[k - 1] ELSE Append(F[k - 1], s[k])
              /\ Undelivered(s, done) = F[Len(s)]
  BY UndeliveredSteps
<1> HIDE DEF Gone
<1>2. PICK n \in Nat : n = Len(s)
  OBVIOUS
<1>6. \A k \in 1 .. n : /\ F[k] \in Seq(Msgs) /\ F[k - 1] \in Seq(Msgs) /\ s[k] \in Msgs
                        /\ Gone(s[k]) => F[k] = F[k - 1]
                        /\ ~Gone(s[k]) => F[k] = Append(F[k - 1], s[k])
  <2> SUFFICES ASSUME NEW k \in 1 .. n
               PROVE  /\ F[k] \in Seq(Msgs) /\ F[k - 1] \in Seq(Msgs) /\ s[k] \in Msgs
                      /\ Gone(s[k]) => F[k] = F[k - 1]
                      /\ ~Gone(s[k]) => F[k] = Append(F[k - 1], s[k])
    OBVIOUS
  <2>1. k \in 0 .. n /\ k - 1 \in 0 .. n
    OBVIOUS
  <2>2. F \in [0 .. n -> Seq(Msgs)] /\ k \in 1 .. Len(s)
    BY <1>2
  <2>3. F[k] \in Seq(Msgs) /\ F[k - 1] \in Seq(Msgs)
    BY <2>1, <2>2
  <2>4. F[k] = IF Gone(s[k]) THEN F[k - 1] ELSE Append(F[k - 1], s[k])
    BY <1>1, <2>2
  <2>5. s[k] \in Msgs
    BY <2>2
  <2> QED
    BY <2>3, <2>4, <2>5
<1> DEFINE Right(k) == /\ Len(F[k]) <= k
                       /\ (\E j \in 1 .. k : Gone(s[j])) => Len(F[k]) < k
                       /\ \A i \in 1 .. Len(F[k]) : /\ \E j \in 1 .. n : F[k][i] = s[j]
                                                    /\ ~Gone(F[k][i])
                       /\ \A j \in 1 .. k : Gone(s[j]) \/ \E i \in 1 .. Len(F[k]) : F[k][i] = s[j]
           T == {k \in 0 .. n : Right(k)}
<1>3. 0 \in T
  <2>1. Len(F[0]) = 0
    BY <1>1
  <2>2. 0 \in 0 .. n /\ 1 .. 0 = {} /\ 1 .. Len(F[0]) = {}
    BY <2>1
  <2> QED
    BY <2>1, <2>2
<1>4. ASSUME NEW k \in 1 .. n, k - 1 \in T PROVE k \in T
  <2>1. PICK f : f = F[k - 1] /\ f \in Seq(Msgs)
    BY <1>6
  <2>2. /\ Len(f) <= k - 1 /\ Len(f) \in Nat
        /\ (\E j \in 1 .. (k - 1) : Gone(s[j])) => Len(f) < k - 1
        /\ \A i \in 1 .. Len(f) : (\E j \in 1 .. n : f[i] = s[j]) /\ ~Gone(f[i])
    BY <1>4, <2>1
  <2>5. \A j \in 1 .. (k - 1) : Gone(s[j]) \/ \E i \in 1 .. Len(f) : f[i] = s[j]
    <3>1. Right(k - 1)
      BY <1>4
    <3> QED
      BY <2>1, <3>1
  <2>3. CASE Gone(s[k])
    <3>1. F[k] = f
      BY <1>6, <2>1, <2>3
    <3>2. ASSUME NEW j \in 1 .. k PROVE Gone(s[j]) \/ \E i \in 1 .. Len(F[k]) : F[k][i] = s[j]
      <4>1. j = k \/ j \in 1 .. (k - 1)
        OBVIOUS
      <4> QED
        BY <2>3, <2>5, <3>1, <4>1
    <3>3. Len(F[k]) <= k /\ k \in 0 .. n /\ ((\E j \in 1 .. k : Gone(s[j])) => Len(F[k]) < k)
      BY <2>2, <3>1
    <3>4. \A i \in 1 .. Len(F[k]) : (\E j \in 1 .. n : F[k][i] = s[j]) /\ ~Gone(F[k][i])
      BY <2>2, <3>1
    <3>5. Right(k)
      BY <3>2, <3>3, <3>4
    <3> QED
      BY <3>3, <3>5
  <2>4. CASE ~Gone(s[k])
    <3>1. F[k] = Append(f, s[k]) /\ s[k] \in Msgs
      BY <1>6, <2>1, <2>4
    <3> DEFINE g == Append(f, s[k])
    <3>2. g = F[k] /\ g \in Seq(Msgs) /\ Len(g) = Len(f) + 1 /\ g[Len(f) + 1] = s[k]
                                 /\ \A i \in 1 .. Len(f) : g[i] = f[i]
      BY <2>1, <3>1
    <3> HIDE DEF g
    <3>3. (\E j \in 1 .. k : Gone(s[j])) => Len(g) < k
      <4>1. \A j \in 1 .. k : j = k \/ j \in 1 .. (k - 1)
        OBVIOUS
      <4> QED
        BY <2>2, <2>4, <3>2, <4>1
    <3>4. ASSUME NEW i \in 1 .. Len(g) PROVE (\E j \in 1 .. n : g[i] = s[j]) /\ ~Gone(g[i])
      <4>1. i \in 1 .. Len(f) \/ i = Len(f) + 1
        BY <2>2, <3>2
      <4> QED
        BY <2>2, <2>4, <3>2, <4>1
    <3>5. ASSUME NEW j \in 1 .. k PROVE Gone(s[j]) \/ \E i \in 1 .. Len(g) : g[i] = s[j]
      <4>1. CASE j = k
        <5>1. Len(f) + 1 \in 1 .. Len(g)
          BY <2>2, <3>2
        <5> QED
          BY <3>2, <4>1, <5>1
      <4>2. CASE j # k
        <5>1. j \in 1 .. (k - 1) /\ \A i \in 1 .. Len(f) : i \in 1 .. Len(g)
          BY <2>2, <3>2, <4>2
        <5> QED
          BY <2>5, <3>2, <5>1
      <4> QED
        BY <4>1, <4>2
    <3> QED
      BY <2>2, <3>2, <3>3, <3>4, <3>5
  <2> QED
    BY <2>3, <2>4
<1>5. n \in T
  <2> HIDE DEF T
  <2>1. \A k \in 1 .. n : k - 1 \in T => k \in T
    BY <1>4
  <2>2. 0 .. n \subseteq T
    BY <1>3, <2>1, PrefixInduction
  <2> QED
    BY <2>2
<1> QED
  BY <1>1, <1>2, <1>5 DEF Gone, Remains

-----------------------------------------------------------------------------
(* What a delivery and a pass keep *)

\* The log respects the causal order; the vector says what is in it.
Causal(lg) ==
    \A j \in 1 .. Len(lg) :
        LET earlier == {lg[i] : i \in 1 .. j - 1}
        IN  lg[j] \notin earlier /\ past[lg[j]] \subseteq earlier

Below(st) == {h \in Ids : h[2] < st[h[1]]}

Sound(d) == /\ Causal(d.log)
            /\ ToSet(d.log) = Below(d.state)
            /\ \A q \in Procs : d.state[q] <= counter[q]

\* A message as its sender made it: its vector tells what the sender had done.
Genuine(w) == /\ w \in Msgs
              /\ w.counter < counter[w.sender]
              /\ past[Hash(w)] = Below(w.state) \cup {<<w.sender, c>> : c \in 0 .. w.counter - 1}

\* Nothing in the buffer can be delivered.
Waiting(d) == \A i \in 1 .. Len(d.buffer) : /\ ~IsCausallyOrdered(d.buffer[i], d.state)
                                            /\ ~Contains(d.log, Hash(d.buffer[i]))

LEMMA AppendFacts ==
    ASSUME NEW S, NEW lg \in Seq(S), NEW h \in S, NEW new, new = Append(lg, h)
    PROVE  /\ ToSet(new) = ToSet(lg) \cup {h}
           /\ \A j \in 1 .. (Len(lg) + 1) : {new[i] : i \in 1 .. j - 1} = {lg[i] : i \in 1 .. j - 1}
<1>1. PICK n \in Nat : n = Len(lg) /\ DOMAIN lg = 1 .. n /\ DOMAIN new = 1 .. (n + 1)
                       /\ new[n + 1] = h /\ \A i \in 1 .. n : new[i] = lg[i]
  OBVIOUS
<1>2. ToSet(new) \subseteq ToSet(lg) \cup {h}
  <2> SUFFICES ASSUME NEW i \in 1 .. (n + 1) PROVE new[i] \in ToSet(lg) \cup {h}
    BY <1>1 DEF ToSet
  <2>1. i = n + 1 \/ i \in 1 .. n
    OBVIOUS
  <2> QED
    BY <1>1, <2>1 DEF ToSet
<1>3. ToSet(lg) \cup {h} \subseteq ToSet(new)
  <2>1. ASSUME NEW i \in 1 .. n PROVE lg[i] \in ToSet(new)
    <3>1. i \in 1 .. (n + 1) /\ new[i] = lg[i]
      BY <1>1
    <3> QED
      BY <1>1, <3>1 DEF ToSet
  <2>2. h \in ToSet(new)
    <3>1. n + 1 \in 1 .. (n + 1)
      OBVIOUS
    <3> QED
      BY <1>1, <3>1 DEF ToSet
  <2>3. ToSet(lg) \subseteq ToSet(new)
    BY <1>1, <2>1 DEF ToSet
  <2> QED
    BY <2>2, <2>3
<1>4. ASSUME NEW j \in 1 .. (n + 1)
      PROVE  {new[i] : i \in 1 .. j - 1} = {lg[i] : i \in 1 .. j - 1}
  <2>1. \A i \in 1 .. j - 1 : new[i] = lg[i]
    BY <1>1
  <2> QED
    BY <2>1
<1> QED
  BY <1>1, <1>2, <1>3, <1>4

LEMMA ContainsIs ==
    ASSUME NEW S, NEW s \in Seq(S), NEW e
    PROVE  Contains(s, e) <=> e \in ToSet(s)
<1>1. DOMAIN s = 1 .. Len(s)
  OBVIOUS
<1> QED
  BY <1>1 DEF Contains, ToSet

LEMMA DeliverSound ==
    ASSUME counter \in [Procs -> Nat], NEW d \in Parts, Sound(d), NEW w, Genuine(w),
           IsCausallyOrdered(w, d.state)
    PROVE  /\ Sound(Delivered(d, w))
           /\ ToSet(Delivered(d, w).log) = ToSet(d.log) \cup {Hash(w)}
           /\ Contains(Delivered(d, w).log, Hash(w))
           /\ ~Contains(d.log, Hash(w))
<1>1. PICK lg \in Seq(Ids), st \in [Procs -> Nat] : lg = d.log /\ st = d.state
  BY DEF Parts
<1>2. PICK h : h = Hash(w) /\ h \in Ids
  BY HashType DEF Genuine
<1>3. PICK p \in Procs, c \in Nat : p = w.sender /\ c = w.counter /\ h = <<p, c>> /\ c = st[p] /\ c < counter[p]
  BY <1>1, <1>2 DEF Genuine, Msgs, IsCausallyOrdered, Hash
<1> DEFINE new == Append(lg, h)
           st2 == [st EXCEPT ![p] = c + 1]
<1>4. Delivered(d, w).log = new /\ Delivered(d, w).state = st2
  BY <1>1, <1>2, <1>3 DEF Delivered
<1>5. PICK n \in Nat : /\ n = Len(lg) /\ DOMAIN lg = 1 .. n /\ new \in Seq(Ids) /\ Len(new) = n + 1
                       /\ DOMAIN new = 1 .. (n + 1)
                       /\ new[n + 1] = h /\ \A i \in 1 .. n : new[i] = lg[i]
  BY <1>2
<1>6. ToSet(lg) = Below(st) /\ Causal(lg)
  BY <1>1 DEF Sound
<1>7. ToSet(new) = ToSet(lg) \cup {h}
  <2>1. PICK S : S = Ids /\ lg \in Seq(S) /\ h \in S
    BY <1>2
  <2>2. PICK long : long = new
    OBVIOUS
  <2>3. ToSet(long) = ToSet(lg) \cup {h}
    BY <2>1, <2>2, AppendFacts DEF new
  <2> QED
    BY <2>2, <2>3
<1>8. h \notin ToSet(lg)
  BY <1>3, <1>6 DEF Below
<1>9. past[h] \subseteq ToSet(lg)
  <2>1. past[h] = Below(w.state) \cup {<<p, b>> : b \in 0 .. c - 1}
    BY <1>2, <1>3 DEF Genuine
  <2>2. w.state \in [Procs -> Nat] /\ \A q \in Procs : w.state[q] <= st[q]
    BY <1>1 DEF IsCausallyOrdered, Genuine, Msgs
  <2>3. ASSUME NEW x \in Below(w.state) PROVE x \in Below(st)
    <3>1. x \in Ids /\ x[1] \in Procs /\ x[2] \in Nat /\ x[2] < w.state[x[1]]
      BY DEF Below, Ids
    <3>2. w.state[x[1]] \in Nat /\ st[x[1]] \in Nat /\ w.state[x[1]] <= st[x[1]]
      BY <2>2, <3>1
    <3>3. x[2] < st[x[1]]
      BY <3>1, <3>2
    <3> QED
      BY <3>1, <3>3 DEF Below
  <2>4. ASSUME NEW b \in 0 .. c - 1 PROVE <<p, b>> \in Below(st)
    BY <1>3 DEF Below, Ids
  <2> QED
    BY <1>6, <2>1, <2>3, <2>4
<1>10. ToSet(lg) = {lg[i] : i \in 1 .. n}
  BY <1>5 DEF ToSet
<1>11. Causal(new)
  <2> SUFFICES ASSUME NEW j \in 1 .. (n + 1)
               PROVE  /\ new[j] \notin {new[i] : i \in 1 .. j - 1}
                      /\ past[new[j]] \subseteq {new[i] : i \in 1 .. j - 1}
    BY <1>5 DEF Causal
  <2> HIDE DEF new
  <2>1. {new[i] : i \in 1 .. j - 1} = {lg[i] : i \in 1 .. j - 1}
    BY <1>2, <1>5, AppendFacts DEF new
  <2>2. CASE j \in 1 .. n
    BY <1>5, <1>6, <2>1, <2>2 DEF Causal
  <2>3. CASE j = n + 1
    <3>1. {new[i] : i \in 1 .. j - 1} = ToSet(lg) /\ new[j] = h
      BY <1>5, <1>10, <2>1, <2>3
    <3> QED
      BY <1>8, <1>9, <3>1
  <2> QED
    BY <2>2, <2>3
<1>12. ToSet(new) = Below(st2)
  <2>1. Below(st2) = Below(st) \cup {h}
    <3>1. ASSUME NEW x \in Ids PROVE x[2] < st2[x[1]] <=> x[2] < st[x[1]] \/ x = h
      <4>1. x[1] \in Procs /\ x[2] \in Nat /\ x = <<x[1], x[2]>>
        BY DEF Ids
      <4>2. CASE x[1] = p
        <5>1. st2[x[1]] = c + 1 /\ st[x[1]] = c /\ (x = h <=> x[2] = c)
          BY <1>3, <4>1, <4>2
        <5> QED
          BY <1>3, <4>1, <5>1
      <4>3. CASE x[1] # p
        BY <1>3, <4>1, <4>3
      <4> QED
        BY <4>2, <4>3
    <3> HIDE DEF st2
    <3> QED
      BY <1>2, <3>1 DEF Below
  <2> QED
    BY <1>6, <1>7, <2>1
<1>13. \A q \in Procs : st2[q] <= counter[q]
  <2>1. \A q \in Procs : st[q] <= counter[q]
    BY <1>1 DEF Sound
  <2> QED
    BY <1>3, <2>1
<1>14. Sound(Delivered(d, w))
  BY <1>4, <1>11, <1>12, <1>13 DEF Sound
<1>15. Contains(new, h) /\ ~Contains(lg, h)
  BY <1>2, <1>5, <1>7, <1>8, ContainsIs
<1> QED
  BY <1>1, <1>2, <1>4, <1>7, <1>14, <1>15

\* One pass: sound, what was in the buffer is delivered or still there, and nothing
\* else is; and either nothing is left to do or something was delivered and the buffer
\* is shorter.
PassKeeps(d, e) ==
    /\ e \in Parts
    /\ Sound(e)
    /\ ToSet(d.log) \subseteq ToSet(e.log)
    /\ \A i \in 1 .. Len(e.buffer) : \E j \in 1 .. Len(d.buffer) : e.buffer[i] = d.buffer[j]
    /\ \A g \in ToSet(e.log) : g \in ToSet(d.log) \/ \E j \in 1 .. Len(d.buffer) : g = Hash(d.buffer[j])
    /\ \A j \in 1 .. Len(d.buffer) :
          Hash(d.buffer[j]) \in ToSet(e.log) \/ \E i \in 1 .. Len(e.buffer) : e.buffer[i] = d.buffer[j]

LEMMA PassType == \A d \in Parts : Pass(d) \in Parts
<1> SUFFICES ASSUME NEW d \in Parts PROVE Pass(d) \in Parts
  OBVIOUS
<1> DEFINE e == FoldLeft(DeliverIfOrdered, d, d.buffer)
           u == Undelivered(e.buffer, e.log)
<1>1. PICK s \in Seq(Msgs) : s = d.buffer /\ Len(s) \in Nat
  BY DEF Parts
<1>2. e \in Parts
  <2>1. PICK F \in [0 .. Len(s) -> Parts] :
              /\ F[0] = d
              /\ \A k \in 1 .. Len(s) : F[k] = DeliverIfOrdered(F[k - 1], s[k])
              /\ FoldLeft(DeliverIfOrdered, d, s) = F[Len(s)]
    BY <1>1, DeliverSteps
  <2>2. Len(s) \in 0 .. Len(s)
    BY <1>1
  <2>3. F[Len(s)] \in Parts
    BY <2>2
  <2> QED
    BY <1>1, <2>1, <2>3
<1> HIDE DEF e
<1>3. e.buffer \in Seq(Msgs)
  BY <1>2 DEF Parts
<1>4. u \in Seq(Msgs)
  BY <1>3, UndeliveredIs DEF Remains
<1>5. Pass(d) = [e EXCEPT !.buffer = u]
  BY DEF Pass, e
<1> HIDE DEF u
<1> QED
  BY <1>2, <1>4, <1>5 DEF Parts

LEMMA PassIs ==
    ASSUME counter \in [Procs -> Nat], NEW d \in Parts, Sound(d),
           \A i \in 1 .. Len(d.buffer) : Genuine(d.buffer[i])
    PROVE  /\ PassKeeps(d, Pass(d))
           /\ \/ Waiting(Pass(d))
              \/ /\ Len(Pass(d).buffer) < Len(d.buffer)
                 /\ \E i \in 1 .. Len(d.buffer) : IsCausallyOrdered(d.buffer[i], d.state)
<1>1. PICK s \in Seq(Msgs), n \in Nat : s = d.buffer /\ n = Len(s)
  BY DEF Parts
<1>2. PICK F \in [0 .. n -> Parts] :
              /\ F[0] = d
              /\ \A k \in 1 .. n : F[k] = DeliverIfOrdered(F[k - 1], s[k])
              /\ FoldLeft(DeliverIfOrdered, d, s) = F[n]
  <2>1. PICK F \in [0 .. Len(s) -> Parts] :
              /\ F[0] = d
              /\ \A k \in 1 .. Len(s) : F[k] = DeliverIfOrdered(F[k - 1], s[k])
              /\ FoldLeft(DeliverIfOrdered, d, s) = F[Len(s)]
    BY DeliverSteps
  <2> QED
    BY <1>1, <2>1
<1> DEFINE Idle(k) == F[k] = d /\ \A i \in 1 .. k : ~IsCausallyOrdered(s[i], d.state)
           Busy(k) == /\ \E i \in 1 .. k : Contains(F[k].log, Hash(s[i]))
                      /\ \E i \in 1 .. k : IsCausallyOrdered(s[i], d.state)
           Came(k) == \A g \in ToSet(F[k].log) : g \in ToSet(d.log) \/ \E j \in 1 .. n : g = Hash(s[j])
           T == {k \in 0 .. n : /\ F[k].buffer = s /\ Sound(F[k]) /\ ToSet(d.log) \subseteq ToSet(F[k].log)
                                /\ Idle(k) \/ Busy(k)
                                /\ Came(k)}
<1>3. 0 \in T
  <2>1. 1 .. 0 = {} /\ 0 \in 0 .. n
    OBVIOUS
  <2> QED
    BY <1>1, <1>2, <2>1
<1>4. ASSUME NEW k \in 1 .. n, k - 1 \in T PROVE k \in T
  <2>1. PICK f \in Parts, w \in Msgs, g \in Parts : f = F[k - 1] /\ w = s[k] /\ g = F[k]
    <3>1. k \in 0 .. n /\ k - 1 \in 0 .. n /\ k \in 1 .. Len(s)
      BY <1>1
    <3> QED
      BY <1>2, <3>1
  <2>2. Genuine(w)
    BY <1>1, <2>1
  <2>3. g = DeliverIfOrdered(f, w)
    BY <1>2, <2>1
  <2>4. /\ f.buffer = s /\ Sound(f) /\ ToSet(d.log) \subseteq ToSet(f.log)
        /\ Idle(k - 1) \/ Busy(k - 1)
        /\ \A g1 \in ToSet(f.log) : g1 \in ToSet(d.log) \/ \E j \in 1 .. n : g1 = Hash(s[j])
    BY <1>4, <2>1
  <2>5. CASE ~IsCausallyOrdered(w, f.state)
    <3>1. g = f
      BY <2>3, <2>5 DEF DeliverIfOrdered
    <3>2. CASE Idle(k - 1)
      <4>1. \A i \in 1 .. k : i = k \/ i \in 1 .. (k - 1)
        OBVIOUS
      <4>2. Idle(k)
        BY <2>1, <2>5, <3>1, <3>2, <4>1
      <4> QED
        BY <2>1, <2>4, <3>1, <4>2
    <3>3. CASE Busy(k - 1)
      <4>1. 1 .. (k - 1) \subseteq 1 .. k
        OBVIOUS
      <4>2. Busy(k)
        BY <2>1, <3>1, <3>3, <4>1
      <4>3. F[k].buffer = s /\ Sound(F[k]) /\ ToSet(d.log) \subseteq ToSet(F[k].log) /\ k \in 0 .. n
            /\ Came(k)
        BY <2>1, <2>4, <3>1
      <4> HIDE DEF Idle, Busy
      <4> QED
        BY <4>2, <4>3
    <3> QED
      BY <2>4, <3>2, <3>3
  <2>6. CASE IsCausallyOrdered(w, f.state)
    <3>1. g = Delivered(f, w)
      BY <2>3, <2>6 DEF DeliverIfOrdered
    <3>2. Sound(g) /\ ToSet(g.log) = ToSet(f.log) \cup {Hash(w)} /\ Contains(g.log, Hash(w))
      BY <2>2, <2>4, <2>6, <3>1, DeliverSound
    <3>6. Came(k)
      BY <2>1, <2>4, <3>2
    <3>3. g.buffer = s
      BY <2>4, <3>1 DEF Delivered
    <3>4. \E i \in 1 .. k : IsCausallyOrdered(s[i], d.state)
      <4>1. CASE Idle(k - 1)
        <5>1. f = d /\ k \in 1 .. k
          BY <2>1, <4>1
        <5> QED
          BY <2>1, <2>6, <5>1
      <4>2. CASE Busy(k - 1)
        <5>1. 1 .. (k - 1) \subseteq 1 .. k
          OBVIOUS
        <5> QED
          BY <4>2, <5>1
      <4> QED
        BY <2>4, <4>1, <4>2
    <3>5. Busy(k)
      <4>1. k \in 1 .. k
        OBVIOUS
      <4> QED
        BY <2>1, <3>2, <3>4, <4>1
    <3> QED
      BY <2>1, <2>4, <3>2, <3>3, <3>5, <3>6
  <2> QED
    BY <2>5, <2>6
<1>5. n \in T
  <2> HIDE DEF T
  <2>1. \A k \in 1 .. n : k - 1 \in T => k \in T
    BY <1>4
  <2>2. 0 .. n \subseteq T
    BY <1>3, <2>1, PrefixInduction
  <2> QED
    BY <2>2
<1>6. PICK e \in Parts : e = F[n] /\ e.buffer = s /\ Sound(e) /\ ToSet(d.log) \subseteq ToSet(e.log)
                         /\ \A g \in ToSet(e.log) : g \in ToSet(d.log) \/ \E j \in 1 .. n : g = Hash(s[j])
  <2>1. F[n] \in Parts
    BY <1>2
  <2> QED
    BY <1>5, <2>1
<1>7. PICK u : u = Undelivered(s, e.log)
  OBVIOUS
<1>8. Pass(d) = [e EXCEPT !.buffer = u]
  BY <1>1, <1>2, <1>6, <1>7 DEF Pass
<1>9. /\ u \in Seq(Msgs)
      /\ Len(u) <= n
      /\ (\E j \in 1 .. n : Contains(e.log, Hash(s[j]))) => Len(u) < n
      /\ \A i \in 1 .. Len(u) : (\E j \in 1 .. n : u[i] = s[j]) /\ ~Contains(e.log, Hash(u[i]))
      /\ \A j \in 1 .. n : Hash(s[j]) \in ToSet(e.log) \/ \E i \in 1 .. Len(u) : u[i] = s[j]
  <2>1. Remains(u, s, e.log)
    BY <1>1, <1>7, UndeliveredIs
  <2>2. e.log \in Seq(Ids)
    BY DEF Parts
  <2>3. \A j \in 1 .. n : Contains(e.log, Hash(s[j])) => Hash(s[j]) \in ToSet(e.log)
    BY <2>2, ContainsIs
  <2> QED
    BY <1>1, <2>1, <2>3 DEF Remains
<1>10. PICK g : /\ g = Pass(d) /\ g \in Parts /\ g.state = e.state /\ g.log = e.log /\ g.buffer = u
  <2>1. Pass(d) \in Parts
    BY PassType
  <2> QED
    BY <1>6, <1>8, <2>1 DEF Parts
<1>11. PassKeeps(d, Pass(d))
  BY <1>1, <1>6, <1>9, <1>10 DEF PassKeeps, Sound
<1>12. CASE Idle(n)
  <2>1. \A i \in 1 .. Len(u) : ~IsCausallyOrdered(u[i], d.state)
    BY <1>9, <1>12
  <2>2. Waiting(g)
    BY <1>6, <1>9, <1>10, <1>12, <2>1 DEF Waiting
  <2> QED
    BY <1>10, <1>11, <2>2
<1>13. CASE Busy(n)
  <2>1. Len(u) < n /\ \E i \in 1 .. n : IsCausallyOrdered(s[i], d.state)
    BY <1>6, <1>9, <1>13
  <2> QED
    BY <1>1, <1>10, <1>11, <2>1
<1> QED
  BY <1>5, <1>12, <1>13

\* The passes of update_deliver, one after the other.
LEMMA UpdateSteps ==
    ASSUME NEW d \in Parts
    PROVE  \E F \in [0 .. Len(d.buffer) -> Parts] :
              /\ F[0] = d
              /\ \A k \in 1 .. Len(d.buffer) : F[k] = Pass(F[k - 1])
              /\ UpdateDeliver(d) = F[Len(d.buffer)]
<1>1. PICK n \in Nat : n = Len(d.buffer) /\ DOMAIN d.buffer = 1 .. n
  BY DEF Parts
<1> DEFINE s == [i \in DOMAIN d.buffer |-> i]
           G == [x \in (1 .. n) \X Parts |-> Pass(x[2])]
           iter == CHOOSE g : g = [t \in SUBSET (DOMAIN s) |->
                       IF t = {} THEN d ELSE Pass(g[t \ {Max(t)}])]
<1>2. DOMAIN s = 1 .. n
  BY <1>1
<1>3. G \in [(1 .. n) \X Parts -> Parts]
  BY PassType
<1>4. \A k \in 1 .. n : \A e \in Parts : G[<<k, e>>] = Pass(e)
  OBVIOUS
<1>5. UpdateDeliver(d) = iter[1 .. n]
  BY <1>2 DEF UpdateDeliver, FoldLeftDomain, FoldLeft, MapThenFoldSet
<1> HIDE DEF G, s
<1>6. PICK h, F : Folds(h, F, n, Parts, d, G)
  BY <1>3, FoldFunctions
<1>7. /\ h[{}] = d
      /\ \A t \in SUBSET (1 .. n) : t # {} => h[t] = Pass(h[t \ {Max(t)}])
  <2>1. h[{}] = d
    BY <1>6 DEF Folds, FoldOverSubsets
  <2>2. ASSUME NEW t \in SUBSET (1 .. n), t # {}
        PROVE  h[t] = Pass(h[t \ {Max(t)}])
    <3>1. FoldOverSubsets(h, 1 .. n, Parts, d, G)
      BY <1>6 DEF Folds
    <3>2. StepAt(h, n, Parts, G, t)
      BY <2>2, <3>1, FoldStepType
    <3> QED
      BY <1>4, <3>2 DEF StepAt
  <2> QED
    BY <2>1, <2>2
<1>8. iter = [t \in SUBSET (DOMAIN s) |-> IF t = {} THEN d ELSE Pass(iter[t \ {Max(t)}])]
  <2>1. h = [t \in SUBSET (DOMAIN s) |-> IF t = {} THEN d ELSE Pass(h[t \ {Max(t)}])]
    BY <1>2, <1>6, <1>7 DEF Folds, FoldOverSubsets
  <2> QED
    BY <2>1, Zenon
<1> HIDE DEF iter
<1>9. iter[1 .. n] = h[1 .. n]
  <2>1. iter[{}] = h[{}]
    BY <1>7, <1>8
  <2>2. ASSUME NEW t \in SUBSET (1 .. n), t # {}, iter[t \ {Max(t)}] = h[t \ {Max(t)}]
        PROVE  iter[t] = h[t]
    <3>1. iter[t] = Pass(iter[t \ {Max(t)}])
      BY <1>2, <1>8, <2>2
    <3> QED
      BY <1>7, <2>2, <3>1
  <2> QED
    BY <2>1, <2>2, FoldUnique
<1>10. F \in [0 .. n -> Parts] /\ F[0] = d /\ F[n] = h[1 .. n]
  BY <1>6 DEF Folds, FoldOverPrefixes
<1>11. ASSUME NEW k \in 1 .. n PROVE F[k] = Pass(F[k - 1])
  <2>1. k - 1 \in 0 .. n
    OBVIOUS
  <2> QED
    BY <1>4, <1>6, <1>10, <2>1 DEF Folds, FoldOverPrefixes
<1> QED
  BY <1>1, <1>5, <1>9, <1>10, <1>11

\* As many passes as the buffer has entries leave nothing that can be delivered.
LEMMA UpdateIs ==
    ASSUME counter \in [Procs -> Nat], NEW d \in Parts, Sound(d),
           \A i \in 1 .. Len(d.buffer) : Genuine(d.buffer[i])
    PROVE  PassKeeps(d, UpdateDeliver(d)) /\ Waiting(UpdateDeliver(d))
<1>1. PICK n \in Nat : n = Len(d.buffer)
  BY DEF Parts
<1>2. PICK F \in [0 .. n -> Parts] : /\ F[0] = d
                                     /\ \A k \in 1 .. n : F[k] = Pass(F[k - 1])
                                     /\ UpdateDeliver(d) = F[n]
  BY <1>1, UpdateSteps
<1> DEFINE Right(f, k) == PassKeeps(d, f) /\ (Waiting(f) \/ Len(f.buffer) + k <= n)
           T == {k \in 0 .. n : Right(F[k], k)}
<1>3. 0 \in T
  <2>1. PassKeeps(d, d)
    BY DEF PassKeeps
  <2>2. 0 \in 0 .. n /\ Len(d.buffer) + 0 <= n
    BY <1>1
  <2> QED
    BY <1>2, <2>1, <2>2
<1>4. ASSUME NEW k \in 1 .. n, k - 1 \in T PROVE k \in T
  <2>1. PICK f \in Parts : f = F[k - 1] /\ F[k] = Pass(f)
    <3>1. k - 1 \in 0 .. n
      OBVIOUS
    <3> QED
      BY <1>2, <3>1
  <2>2. PICK g : g = Pass(f)
    OBVIOUS
  <2>3. Right(f, k - 1)
    BY <1>4, <2>1
  <2>4. Sound(f) /\ \A i \in 1 .. Len(f.buffer) : Genuine(f.buffer[i])
    BY <2>3 DEF PassKeeps
  <2>5. /\ PassKeeps(f, g)
        /\ \/ Waiting(g)
           \/ /\ Len(g.buffer) < Len(f.buffer)
              /\ \E i \in 1 .. Len(f.buffer) : IsCausallyOrdered(f.buffer[i], f.state)
    BY <2>2, <2>4, PassIs
  <2>6. PassKeeps(d, g)
    <3>1. ToSet(d.log) \subseteq ToSet(f.log) /\ ToSet(f.log) \subseteq ToSet(g.log) /\ g \in Parts /\ Sound(g)
      BY <2>3, <2>5 DEF PassKeeps
    <3>2. ASSUME NEW i \in 1 .. Len(g.buffer)
          PROVE  \E j \in 1 .. Len(d.buffer) : g.buffer[i] = d.buffer[j]
      <4>1. PICK m \in 1 .. Len(f.buffer) : g.buffer[i] = f.buffer[m]
        BY <2>5 DEF PassKeeps
      <4> QED
        BY <2>3, <4>1 DEF PassKeeps
    <3>3. ASSUME NEW x \in ToSet(g.log)
          PROVE  x \in ToSet(d.log) \/ \E j \in 1 .. Len(d.buffer) : x = Hash(d.buffer[j])
      <4>1. CASE x \in ToSet(f.log)
        BY <2>3, <4>1 DEF PassKeeps
      <4>2. CASE x \notin ToSet(f.log)
        <5>1. PICK m \in 1 .. Len(f.buffer) : x = Hash(f.buffer[m])
          BY <2>5, <3>3, <4>2 DEF PassKeeps
        <5> QED
          BY <2>3, <5>1 DEF PassKeeps
      <4> QED
        BY <4>1, <4>2
    <3>4. ASSUME NEW j \in 1 .. Len(d.buffer)
          PROVE  Hash(d.buffer[j]) \in ToSet(g.log) \/ \E i \in 1 .. Len(g.buffer) : g.buffer[i] = d.buffer[j]
      <4>1. CASE Hash(d.buffer[j]) \in ToSet(f.log)
        BY <3>1, <4>1
      <4>2. CASE Hash(d.buffer[j]) \notin ToSet(f.log)
        <5>1. PICK m \in 1 .. Len(f.buffer) : f.buffer[m] = d.buffer[j]
          BY <2>3, <4>2 DEF PassKeeps
        <5>2. Hash(f.buffer[m]) \in ToSet(g.log) \/ \E i \in 1 .. Len(g.buffer) : g.buffer[i] = f.buffer[m]
          BY <2>5, <5>1 DEF PassKeeps
        <5> QED
          BY <5>1, <5>2
      <4> QED
        BY <4>1, <4>2
    <3> QED
      BY <3>1, <3>2, <3>3, <3>4 DEF PassKeeps
  <2>7. Waiting(g) \/ Len(g.buffer) + k <= n
    <3>1. Len(f.buffer) \in Nat /\ Len(g.buffer) \in Nat
      BY <2>6 DEF PassKeeps, Parts
    <3>2. CASE Waiting(f)
      BY <2>5, <3>2 DEF Waiting
    <3>3. CASE Len(f.buffer) + (k - 1) <= n
      BY <2>5, <3>1, <3>3
    <3> QED
      BY <2>3, <3>2, <3>3
  <2>8. Right(g, k) /\ k \in 0 .. n /\ g = F[k]
    BY <2>1, <2>2, <2>6, <2>7
  <2> HIDE DEF Right
  <2> QED
    BY <2>8
<1>5. n \in T
  <2> HIDE DEF T
  <2>1. \A k \in 1 .. n : k - 1 \in T => k \in T
    BY <1>4
  <2>2. 0 .. n \subseteq T
    BY <1>3, <2>1, PrefixInduction
  <2> QED
    BY <2>2
<1>6. PICK f : f = F[n] /\ f = UpdateDeliver(d)
  BY <1>2
<1>7. Right(f, n)
  BY <1>5, <1>6
<1>8. Waiting(f)
  <2>1. f.buffer \in Seq(Msgs)
    BY <1>7 DEF PassKeeps, Parts
  <2>2. Len(f.buffer) + n <= n => 1 .. Len(f.buffer) = {}
    BY <2>1
  <2> QED
    BY <1>7, <2>2 DEF Waiting
<1> QED
  BY <1>6, <1>7, <1>8

-----------------------------------------------------------------------------
(* The inductive invariant *)

Part(p) == [state |-> state[p], log |-> log[p], buffer |-> buffer[p]]

\* The messages broadcast so far.
Known == {h \in Ids : h[2] < counter[h[1]]}

Types ==
    /\ counter \in [Procs -> Nat] /\ quota \in [Procs -> Nat]
    /\ \A p \in Procs : counter[p] <= quota[p]
    /\ state \in [Procs -> [Procs -> Nat]]
    /\ buffer \in [Procs -> Seq(Msgs)]
    /\ log \in [Procs -> Seq(Ids)]
    /\ broadcasters \in [Procs -> [Hashes -> SUBSET Procs]]
    /\ DOMAIN past = Known

\* No message is made up or changed under way, and the buffers hold such messages.
InFlight == \A e \in DOMAIN net : e.src \in Procs /\ e.dst \in Procs /\ Genuine(e.msg)
Buffers == \A p \in Procs : \A i \in 1 .. Len(buffer[p]) : Genuine(buffer[p][i])

Logs == \A p \in Procs : Sound(Part(p))

\* What still waits, waits with its broadcasters known.
Waits ==
    \A p \in Procs : /\ Waiting(Part(p))
                     /\ \A i \in 1 .. Len(buffer[p]) :
                           EnoughBroadcasters(broadcasters[p][Hash(buffer[p][i])])

\* A process broadcasts a message when it is its origin; when it does not find
\* itself among the broadcasters, of which it is one afterwards; and once more after
\* it has delivered the message and forgotten the broadcasters.
Own(p, h) == IF h[1] = p THEN 1 ELSE 0
Heard(p, h) == IF p \in broadcasters[p][h] THEN 1 ELSE 0
Done(p, h) == IF Contains(log[p], h) THEN 1 ELSE 0

Counted ==
    /\ DOMAIN casts = Procs
    /\ \A p \in Procs : /\ DOMAIN casts[p] \subseteq Known
                        /\ \A h \in DOMAIN casts[p] :
                              /\ casts[p][h] \in Nat
                              /\ casts[p][h] <= Own(p, h) + Heard(p, h) + Done(p, h)

Inv == Types /\ InFlight /\ Buffers /\ Logs /\ Waits /\ Counted

LEMMA PartType == Types => \A p \in Procs : Part(p) \in Parts
  BY DEF Types, Part, Parts

LEMMA KnownIsHash == Types => Known \subseteq Hashes
<1> SUFFICES ASSUME Types, NEW h \in Known PROVE h \in Hashes
  OBVIOUS
<1>1. h \in Ids /\ h[2] < counter[h[1]]
  BY DEF Known
<1>2. h[1] \in Procs /\ h[2] \in Nat /\ h = <<h[1], h[2]>>
  BY <1>1 DEF Ids
<1>3. counter[h[1]] \in Nat /\ quota[h[1]] \in Nat /\ counter[h[1]] <= quota[h[1]]
  BY <1>2 DEF Types
<1>4. h[2] \in 0 .. quota[h[1]] - 1
  BY <1>1, <1>2, <1>3
<1> QED
  BY <1>2, <1>4 DEF Hashes

LEMMA GenuineIsKnown ==
    ASSUME Types, NEW w, Genuine(w)
    PROVE  Hash(w) \in Known /\ Hash(w) \in Hashes /\ w \in Msgs
<1>1. w \in Msgs /\ w.counter < counter[w.sender]
  BY DEF Genuine
<1>2. Hash(w) \in Known
  BY <1>1 DEF Msgs, Hash, Known, Ids
<1> QED
  BY <1>1, <1>2, KnownIsHash

\* What was said of the past stays said.
Grows == /\ counter \in [Procs -> Nat] /\ counter' \in [Procs -> Nat]
         /\ \A q \in Procs : counter[q] <= counter'[q]
         /\ \A h \in Known : past'[h] = past[h]

LEMMA GenuineKept ==
    ASSUME Types, Grows, NEW w, Genuine(w)
    PROVE  Genuine(w)'
<1>1. w \in Msgs /\ w.counter < counter[w.sender] /\ w.sender \in Procs /\ w.counter \in Nat
  BY DEF Genuine, Msgs
<1>2. w.counter < counter'[w.sender]
  BY <1>1 DEF Grows
<1>3. past'[Hash(w)] = past[Hash(w)]
  BY GenuineIsKnown DEF Grows
<1> QED
  BY <1>1, <1>2, <1>3 DEF Genuine, Below, Hash

LEMMA SoundKept ==
    ASSUME Types, Grows, NEW d \in Parts, Sound(d)
    PROVE  Sound(d)'
<1>1. PICK lg \in Seq(Ids), st \in [Procs -> Nat] : lg = d.log /\ st = d.state
  BY DEF Parts
<1>2. Causal(lg) /\ ToSet(lg) = Below(st) /\ \A q \in Procs : st[q] <= counter[q]
  BY <1>1 DEF Sound
<1>3. ASSUME NEW j \in 1 .. Len(lg) PROVE past'[lg[j]] = past[lg[j]]
  <2>1. lg[j] \in ToSet(lg)
    <3>1. j \in DOMAIN lg
      BY <1>1
    <3> QED
      BY <3>1 DEF ToSet
  <2>2. lg[j] \in Ids /\ lg[j][2] < st[lg[j][1]]
    BY <1>2, <2>1 DEF Below
  <2>3. lg[j][1] \in Procs /\ lg[j][2] \in Nat
    BY <2>2 DEF Ids
  <2>4. lg[j][2] < counter[lg[j][1]]
    BY <1>1, <1>2, <2>2, <2>3 DEF Grows
  <2> QED
    BY <2>2, <2>4 DEF Grows, Known
<1>4. Causal(lg)'
  BY <1>2, <1>3 DEF Causal
<1>5. \A q \in Procs : st[q] <= counter'[q]
  BY <1>1, <1>2 DEF Grows
<1> QED
  BY <1>1, <1>2, <1>4, <1>5 DEF Sound, Below

\* What a broadcast changes.
OneMore(p, id) ==
    /\ DOMAIN casts' = Procs
    /\ \A q \in Procs \ {p} : casts'[q] = casts[q]
    /\ DOMAIN casts'[p] = DOMAIN casts[p] \cup {id}
    /\ \A h \in DOMAIN casts'[p] :
          /\ h \in DOMAIN casts[p] => casts'[p][h] = casts[p][h] + (IF h = id THEN 1 ELSE 0)
          /\ h \notin DOMAIN casts[p] => h = id /\ casts'[p][h] = 0 + 1

LEMMA BroadcastIs ==
    ASSUME NEW p \in Procs, NEW m, NEW inFlight, BestEffortBroadcast(p, m, inFlight),
           DOMAIN casts = Procs
    PROVE  DOMAIN net' = DOMAIN inFlight \cup Envelopes(p, m) /\ OneMore(p, Hash(m))
<1>1. net' = inFlight (+) SetToBag(Envelopes(p, m))
  BY DEF BestEffortBroadcast
<1>2. DOMAIN net' = DOMAIN inFlight \cup Envelopes(p, m)
  BY <1>1 DEF (+), SetToBag
<1>3. casts' = [casts EXCEPT ![p] = @ (+) SetToBag({Hash(m)})]
  BY DEF BestEffortBroadcast
<1>4. casts'[p] = casts[p] (+) SetToBag({Hash(m)}) /\ DOMAIN casts' = Procs
      /\ \A q \in Procs \ {p} : casts'[q] = casts[q]
  BY <1>3
<1>5. PICK B : B = casts[p]
  OBVIOUS
<1>6. casts'[p] = [h \in DOMAIN B \cup {Hash(m)} |->
          (IF h \in DOMAIN B THEN B[h] ELSE 0) + (IF h \in {Hash(m)} THEN 1 ELSE 0)]
  BY <1>4, <1>5 DEF (+), SetToBag
<1> QED
  BY <1>2, <1>4, <1>5, <1>6 DEF OneMore

LEMMA InitInv == Init => Inv
<1> SUFFICES ASSUME Init PROVE Inv
  OBVIOUS
<1>1. quota \in [Procs -> Nat]
  BY BroadcastAssumption DEF Init
<1>2. Known = {}
  BY DEF Init, Known, Ids
<1>3. Types
  <2>1. \A p \in Procs : counter[p] <= quota[p]
    BY <1>1 DEF Init
  <2>2. << >> \in Seq(Msgs) /\ << >> \in Seq(Ids)
    OBVIOUS
  <2>3. buffer \in [Procs -> Seq(Msgs)] /\ log \in [Procs -> Seq(Ids)]
    BY <2>2 DEF Init
  <2>4. DOMAIN past = {}
    BY DEF Init
  <2> QED
    BY <1>1, <1>2, <2>1, <2>3, <2>4 DEF Init, Types
<1>4. InFlight
  <2>1. DOMAIN net = {}
    BY DEF Init
  <2> QED
    BY <2>1 DEF InFlight
<1>5. ASSUME NEW p \in Procs
      PROVE  /\ Sound(Part(p)) /\ Len(buffer[p]) = 0 /\ Len(Part(p).buffer) = 0
             /\ DOMAIN casts[p] = {}
  <2>1. log[p] = << >> /\ state[p] = [q \in Procs |-> 0] /\ buffer[p] = << >> /\ casts[p] = << >>
    BY DEF Init
  <2>2. ToSet(log[p]) = {} /\ Causal(log[p])
    BY <2>1 DEF ToSet, Causal
  <2>3. Below(state[p]) = {}
    BY <2>1 DEF Below, Ids
  <2>4. \A q \in Procs : state[p][q] <= counter[q]
    BY <2>1 DEF Init
  <2> QED
    BY <2>1, <2>2, <2>3, <2>4 DEF Sound, Part
<1>6. Logs
  BY <1>5 DEF Logs
<1>7. Buffers /\ Waits
  <2>1. 1 .. 0 = {}
    OBVIOUS
  <2> QED
    BY <1>5, <2>1 DEF Buffers, Waits, Waiting
<1>8. Counted
  BY <1>5 DEF Counted, Init
<1> QED
  BY <1>3, <1>4, <1>6, <1>7, <1>8 DEF Inv

\* A new message is genuine, and no log holds it yet.
LEMMA LocalStep ==
    ASSUME Inv, NEW p \in Procs, OnLocalMessage(p)
    PROVE  Inv'
<1>1. PICK m : m = [sender |-> p, counter |-> counter[p], state |-> state[p]]
  OBVIOUS
<1>2. PICK c \in Nat, st \in [Procs -> Nat] : c = counter[p] /\ st = state[p]
  BY DEF Inv, Types
<1>3. m \in Msgs /\ Hash(m) = <<p, c>> /\ <<p, c>> \in Ids /\ m.sender = p /\ m.counter = c /\ m.state = st
  BY <1>1, <1>2 DEF Msgs, Hash, Ids
<1>4. /\ p \notin crashed /\ c < quota[p]
      /\ BestEffortBroadcast(p, m, net)
      /\ counter' = [counter EXCEPT ![p] = c + 1]
      /\ past' = [h \in DOMAIN past \cup {Hash(m)} |->
                     IF h = Hash(m)
                     THEN ToSet(log[p]) \cup {<<p, b>> : b \in 0 .. c - 1}
                     ELSE past[h]]
      /\ UNCHANGED <<state, buffer, broadcasters, log, crashed, quota>>
  BY <1>1, <1>2 DEF OnLocalMessage
<1>5. Types /\ counter \in [Procs -> Nat] /\ counter' \in [Procs -> Nat] /\ DOMAIN past = Known
  BY <1>2, <1>4 DEF Inv, Types
<1>6. \A q \in Procs : counter'[q] = IF q = p THEN c + 1 ELSE counter[q]
  BY <1>4, <1>5
<1>7. <<p, c>> \notin Known
  BY <1>2, <1>3, <1>5 DEF Known
<1>8. Grows
  <2>1. \A q \in Procs : counter[q] <= counter'[q]
    BY <1>2, <1>5, <1>6
  <2>2. \A h \in Known : past'[h] = past[h]
    BY <1>3, <1>4, <1>5, <1>7
  <2> QED
    BY <1>5, <2>1, <2>2 DEF Grows
<1>9. Known' = Known \cup {<<p, c>>}
  <2>1. ASSUME NEW h \in Ids PROVE h[2] < counter'[h[1]] <=> h[2] < counter[h[1]] \/ h = <<p, c>>
    <3>1. h[1] \in Procs /\ h[2] \in Nat /\ h = <<h[1], h[2]>>
      BY DEF Ids
    <3>2. CASE h[1] = p
      BY <1>2, <1>6, <3>1, <3>2
    <3>3. CASE h[1] # p
      BY <1>6, <3>1, <3>3
    <3> QED
      BY <3>2, <3>3
  <2> QED
    BY <1>3, <2>1 DEF Known
<1>10. Types'
  <2>1. DOMAIN past' = Known'
    BY <1>3, <1>4, <1>5, <1>9
  <2>2. \A q \in Procs : counter'[q] <= quota[q]
    BY <1>2, <1>4, <1>5, <1>6 DEF Types
  <2>3. Hashes' = Hashes
    BY <1>4 DEF Hashes
  <2> QED
    BY <1>4, <1>5, <2>1, <2>2, <2>3 DEF Types
<1>11. Genuine(m)'
  <2>1. ToSet(log[p]) = Below(st)
    BY <1>2 DEF Inv, Logs, Sound, Part
  <2>2. past'[Hash(m)] = Below(st) \cup {<<p, b>> : b \in 0 .. c - 1}
    BY <1>4, <2>1
  <2>3. m.counter < counter'[m.sender]
    BY <1>2, <1>3, <1>6
  <2> QED
    BY <1>3, <2>2, <2>3 DEF Genuine, Below, Hash
<1>12. /\ DOMAIN net' = DOMAIN net \cup Envelopes(p, m)
       /\ DOMAIN casts' = Procs
       /\ \A q \in Procs \ {p} : casts'[q] = casts[q]
       /\ DOMAIN casts'[p] = DOMAIN casts[p] \cup {<<p, c>>}
       /\ \A h \in DOMAIN casts'[p] :
             /\ h \in DOMAIN casts[p] => casts'[p][h] = casts[p][h] + (IF h = <<p, c>> THEN 1 ELSE 0)
             /\ h \notin DOMAIN casts[p] => h = <<p, c>> /\ casts'[p][h] = 0 + 1
  <2>1. DOMAIN casts = Procs
    BY DEF Inv, Counted
  <2>2. DOMAIN net' = DOMAIN net \cup Envelopes(p, m) /\ OneMore(p, Hash(m))
    BY <1>4, <2>1, BroadcastIs
  <2>3. OneMore(p, <<p, c>>)
    BY <1>3, <2>2
  <2> QED
    BY <2>2, <2>3 DEF OneMore
<1>13. InFlight'
  <2> SUFFICES ASSUME NEW e \in DOMAIN net' PROVE e.src \in Procs /\ e.dst \in Procs /\ Genuine(e.msg)'
    BY DEF InFlight
  <2>1. CASE e \in DOMAIN net
    <3>1. e.src \in Procs /\ e.dst \in Procs /\ Genuine(e.msg)
      BY <2>1 DEF Inv, InFlight
    <3> QED
      BY <1>5, <1>8, <3>1, GenuineKept
  <2>2. CASE e \in Envelopes(p, m)
    <3>1. e.src = p /\ e.dst \in Procs /\ e.msg = m
      BY <2>2 DEF Envelopes
    <3> QED
      BY <1>11, <3>1
  <2> QED
    BY <1>12, <2>1, <2>2
<1>14. Buffers'
  <2> SUFFICES ASSUME NEW q \in Procs, NEW i \in 1 .. Len(buffer[q]) PROVE Genuine(buffer[q][i])'
    BY <1>4 DEF Buffers
  <2>1. PICK w : w = buffer[q][i]
    OBVIOUS
  <2>2. Genuine(w)
    BY <2>1 DEF Inv, Buffers
  <2>3. Genuine(w)'
    BY <1>5, <1>8, <2>2, GenuineKept
  <2>4. buffer'[q][i] = w
    BY <1>4, <2>1
  <2> QED
    BY <2>3, <2>4
<1>15. \A q \in Procs : Part(q)' = Part(q)
  BY <1>4 DEF Part
<1>16. Logs'
  <2> SUFFICES ASSUME NEW q \in Procs PROVE Sound(Part(q))'
    BY DEF Logs
  <2>1. PICK d \in Parts : d = Part(q) /\ Sound(d)
    BY <1>5, PartType DEF Inv, Logs
  <2>2. Sound(d)'
    BY <1>5, <1>8, <2>1, SoundKept
  <2>3. Part(q)' = d
    BY <1>15, <2>1
  <2> QED
    BY <2>2, <2>3
<1>17. Waits'
  <2>1. Waits
    BY DEF Inv
  <2> QED
    BY <1>4, <1>15, <2>1 DEF Waits, Waiting, EnoughBroadcasters, Hash, IsCausallyOrdered
<1>18. Counted'
  <2>1. ASSUME NEW q \in Procs, NEW h \in DOMAIN casts'[q]
        PROVE  /\ h \in Known' /\ casts'[q][h] \in Nat
               /\ casts'[q][h] <= Own(q, h)' + Heard(q, h)' + Done(q, h)'
    <3>1. Own(q, h)' = Own(q, h) /\ Heard(q, h)' = Heard(q, h) /\ Done(q, h)' = Done(q, h)
      BY <1>4 DEF Own, Heard, Done
    <3>2. Own(q, h) \in {0, 1} /\ Heard(q, h) \in {0, 1} /\ Done(q, h) \in {0, 1}
      BY DEF Own, Heard, Done
    <3>3. CASE h \in DOMAIN casts[q]
      <4>1. h \in Known /\ casts[q][h] \in Nat /\ casts[q][h] <= Own(q, h) + Heard(q, h) + Done(q, h)
        BY <3>3 DEF Inv, Counted
      <4>2. casts'[q][h] = casts[q][h]
        BY <1>7, <1>12, <4>1
      <4> QED
        BY <1>9, <3>1, <4>1, <4>2
    <3>4. CASE h \notin DOMAIN casts[q]
      <4>1. q = p /\ h = <<p, c>> /\ casts'[q][h] = 1
        BY <1>12, <3>4
      <4>2. Own(q, h) = 1
        BY <4>1 DEF Own
      <4> QED
        BY <1>9, <3>1, <3>2, <4>1, <4>2
    <3> QED
      BY <3>3, <3>4
  <2> QED
    BY <1>12, <2>1 DEF Counted
<1> QED
  BY <1>10, <1>13, <1>14, <1>16, <1>17, <1>18 DEF Inv

\* Losing envelopes is all a crash does, and less than that changes nothing.
LEMMA LossStep ==
    ASSUME Inv, DOMAIN net' \subseteq DOMAIN net,
           UNCHANGED <<counter, state, buffer, broadcasters, log, quota, casts, past>>
    PROVE  Inv'
<1>1. /\ DOMAIN net' \subseteq DOMAIN net
      /\ UNCHANGED <<counter, state, buffer, broadcasters, log, quota, casts, past>>
  OBVIOUS
<1>2. Known' = Known /\ Hashes' = Hashes
  BY <1>1 DEF Known, Hashes
<1>3. Types'
  BY <1>1, <1>2 DEF Inv, Types
<1>4. InFlight' /\ Buffers'
  <2>1. \A w : Genuine(w) => Genuine(w)'
    BY <1>1 DEF Genuine, Below, Hash
  <2>2. \A f \in DOMAIN net' : f.src \in Procs /\ f.dst \in Procs /\ Genuine(f.msg)
    BY <1>1 DEF Inv, InFlight
  <2>3. InFlight'
    BY <2>1, <2>2 DEF InFlight
  <2>4. ASSUME NEW q \in Procs, NEW i \in 1 .. Len(buffer'[q]) PROVE Genuine(buffer[q][i])'
    <3>1. PICK w : w = buffer[q][i] /\ w = buffer'[q][i]
      BY <1>1
    <3>2. Genuine(w)
      BY <1>1, <2>4, <3>1 DEF Inv, Buffers
    <3>3. Genuine(w)'
      BY <2>1, <3>2
    <3> QED
      BY <3>1, <3>3
  <2> QED
    BY <2>3, <2>4 DEF Buffers
<1>5. Logs'
  BY <1>1 DEF Inv, Logs, Sound, Causal, Below, Part
<1>6. Waits'
  BY <1>1 DEF Inv, Waits, Waiting, Part, EnoughBroadcasters, Hash, IsCausallyOrdered
<1>7. Counted'
  BY <1>1, <1>2 DEF Inv, Counted, Own, Heard, Done
<1> QED
  BY <1>3, <1>4, <1>5, <1>6, <1>7 DEF Inv

\* A step that leaves the history alone: what the three notions that look at it say
\* of a value is the same before and after.
Still == UNCHANGED <<counter, quota, past>>

LEMMA StillMeans ==
    ASSUME Still
    PROVE  /\ Known' = Known /\ Hashes' = Hashes
           /\ \A w : Genuine(w) => Genuine(w)'
           /\ \A d : Sound(d) => Sound(d)'
<1>1. Known' = Known /\ Hashes' = Hashes
  BY DEF Still, Known, Hashes
<1>2. ASSUME NEW w, Genuine(w) PROVE Genuine(w)'
  BY <1>2 DEF Still, Genuine, Below, Hash
<1>3. ASSUME NEW d, Sound(d) PROVE Sound(d)'
  BY <1>3 DEF Still, Sound, Causal, Below
<1> QED
  BY <1>1, <1>2, <1>3

\* The counting of the broadcasts, for a step at p that may have relayed h.
LEMMA CountedKept ==
    ASSUME Inv, Still, NEW p \in Procs, NEW h \in Known,
           UNCHANGED casts \/ (OneMore(p, h) /\ Heard(p, h) = 0),
           \A q \in Procs \ {p} : UNCHANGED <<log[q], broadcasters[q]>>,
           \A g \in Known : Heard(p, g)' + Done(p, g)' >= Heard(p, g) + Done(p, g),
           OneMore(p, h) => Heard(p, h)' + Done(p, h)' >= Done(p, h) + 1
    PROVE  Counted'
<1>1. Known' = Known
  BY StillMeans
<1>2. DOMAIN casts' = Procs
  BY DEF Inv, Counted, OneMore
<1>3. ASSUME NEW q \in Procs, NEW g \in DOMAIN casts'[q]
      PROVE  /\ g \in Known /\ casts'[q][g] \in Nat
             /\ casts'[q][g] <= Own(q, g)' + Heard(q, g)' + Done(q, g)'
  <2>1. /\ Own(q, g)' = Own(q, g)
        /\ Own(q, g) \in {0, 1}
        /\ Heard(q, g) \in {0, 1} /\ Done(q, g) \in {0, 1}
        /\ Heard(q, g)' \in {0, 1} /\ Done(q, g)' \in {0, 1}
    BY DEF Own, Heard, Done
  <2>2. g \in Known => Heard(q, g)' + Done(q, g)' >= Heard(q, g) + Done(q, g)
    <3>1. CASE q = p
      BY <3>1
    <3>2. CASE q # p
      <4>1. Heard(q, g)' = Heard(q, g) /\ Done(q, g)' = Done(q, g)
        BY <3>2 DEF Heard, Done
      <4> QED
        BY <2>1, <4>1
    <3> QED
      BY <3>1, <3>2
  <2>3. g \in DOMAIN casts[q] => /\ g \in Known /\ casts[q][g] \in Nat
                                 /\ casts[q][g] <= Own(q, g) + Heard(q, g) + Done(q, g)
    BY DEF Inv, Counted
  <2>4. CASE g \in DOMAIN casts[q] /\ casts'[q][g] = casts[q][g]
    BY <2>1, <2>2, <2>3, <2>4
  <2>5. CASE ~(g \in DOMAIN casts[q] /\ casts'[q][g] = casts[q][g])
    <3>1. OneMore(p, h) /\ Heard(p, h) = 0
      BY <2>5
    <3>2. q = p
      BY <2>5, <3>1 DEF OneMore
    <3>3. g = h
      <4>1. g \in DOMAIN casts[p] /\ g # h => casts'[p][g] = casts[p][g] + 0
        BY <3>1, <3>2 DEF OneMore
      <4> QED
        BY <2>3, <2>5, <3>1, <3>2, <4>1 DEF OneMore
    <3>4. Heard(q, g)' + Done(q, g)' >= Done(q, g) + 1
      BY <3>1, <3>2, <3>3
    <3>5. CASE g \in DOMAIN casts[q]
      <4>1. casts'[q][g] = casts[q][g] + 1
        BY <3>1, <3>2, <3>3, <3>5 DEF OneMore
      <4> QED
        BY <2>1, <2>3, <3>1, <3>2, <3>3, <3>4, <3>5, <4>1
    <3>6. CASE g \notin DOMAIN casts[q]
      <4>1. casts'[q][g] = 1
        BY <3>1, <3>2, <3>6 DEF OneMore
      <4> QED
        BY <2>1, <3>3, <3>4, <4>1
    <3> QED
      BY <3>5, <3>6
  <2> QED
    BY <2>4, <2>5
<1> QED
  BY <1>1, <1>2, <1>3 DEF Counted

\* What the handler of an envelope starts from.
LEMMA EnvelopeFacts ==
    ASSUME Inv, NEW e \in DOMAIN net, NEW p, NEW h, p = e.dst, h = Hash(e.msg)
    PROVE  /\ p \in Procs /\ e.src \in Procs /\ Genuine(e.msg) /\ h \in Known /\ h \in Hashes
           /\ broadcasters[p] \in [Hashes -> SUBSET Procs] /\ broadcasters[p][h] \subseteq Procs
           /\ Part(p) \in Parts /\ Sound(Part(p)) /\ Types
<1>1. p \in Procs /\ e.src \in Procs /\ Genuine(e.msg) /\ Types
  BY DEF Inv, InFlight
<1>2. h \in Known /\ h \in Hashes
  BY <1>1, GenuineIsKnown
<1>3. broadcasters[p] \in [Hashes -> SUBSET Procs]
  BY <1>1 DEF Types
<1>4. Part(p) \in Parts /\ Sound(Part(p))
  BY <1>1, PartType DEF Inv, Logs
<1> QED
  BY <1>1, <1>2, <1>3, <1>4

\* The relaying, in both branches.
LEMMA RelayIs ==
    ASSUME Inv, NEW e \in DOMAIN net, OnMessage(e), NEW p, NEW h, p = e.dst, h = Hash(e.msg)
    PROVE  /\ InFlight'
           /\ UNCHANGED casts \/ (OneMore(p, h) /\ Heard(p, h) = 0)
           /\ Still
<1>1. p \in Procs /\ e.src \in Procs /\ Genuine(e.msg)
  BY EnvelopeFacts
<1>2. DOMAIN (net (-) SetToBag({e})) \subseteq DOMAIN net
  BY DEF (-), SetToBag
<1>3. Still
  BY DEF OnMessage, Still
<1>4. CASE Relays(p, broadcasters[p][h] \cup {e.src})
  <2>1. BestEffortBroadcast(p, e.msg, net (-) SetToBag({e}))
    BY <1>4 DEF OnMessage
  <2>2. PICK inFlight : inFlight = net (-) SetToBag({e})
    OBVIOUS
  <2>3. DOMAIN casts = Procs
    BY DEF Inv, Counted
  <2>4. DOMAIN net' = DOMAIN inFlight \cup Envelopes(p, e.msg) /\ OneMore(p, h)
    BY <1>1, <2>1, <2>2, <2>3, BroadcastIs
  <2>5. Heard(p, h) = 0
    BY <1>4 DEF Relays, Heard
  <2>6. ASSUME NEW f \in DOMAIN net' PROVE f.src \in Procs /\ f.dst \in Procs /\ Genuine(f.msg)'
    <3>1. CASE f \in DOMAIN net
      BY <1>3, <3>1, StillMeans DEF Inv, InFlight
    <3>2. CASE f \in Envelopes(p, e.msg)
      <4>1. f.src = p /\ f.dst \in Procs /\ f.msg = e.msg
        BY <3>2 DEF Envelopes
      <4>2. Genuine(f.msg)
        BY <1>1, <4>1
      <4> QED
        BY <1>1, <1>3, <4>1, <4>2, StillMeans
    <3> QED
      BY <1>2, <2>2, <2>4, <3>1, <3>2
  <2>7. InFlight'
    BY <2>6 DEF InFlight
  <2> QED
    BY <1>3, <2>4, <2>5, <2>7
<1>5. CASE ~Relays(p, broadcasters[p][h] \cup {e.src})
  <2>1. net' = net (-) SetToBag({e}) /\ UNCHANGED casts
    BY <1>5 DEF OnMessage
  <2>2. InFlight'
    BY <1>2, <1>3, <2>1, StillMeans DEF Inv, InFlight
  <2> QED
    BY <1>3, <2>1, <2>2
<1> QED
  BY <1>4, <1>5

\* More known broadcasters are enough if fewer were.
LEMMA EnoughMonotone ==
    ASSUME NEW S, NEW R, S \subseteq R, R \subseteq Procs, EnoughBroadcasters(S)
    PROVE  EnoughBroadcasters(R)
<1>1. IsFiniteSet(Procs) /\ IsFiniteSet(R) /\ IsFiniteSet(S)
  BY BroadcastAssumption, FS_Subset
<1>2. Cardinality(S) <= Cardinality(R) /\ Cardinality(S) \in Nat /\ Cardinality(R) \in Nat
      /\ Cardinality(Procs) \in Nat
  BY <1>1, FS_Subset, FS_CardinalityType
<1> QED
  BY <1>2 DEF EnoughBroadcasters

\* A message that cannot be delivered yet, or has been.
LEMMA KeepStep ==
    ASSUME Inv, NEW e \in DOMAIN net, OnMessage(e), NEW p, NEW h, p = e.dst, h = Hash(e.msg),
           NEW heard, heard = broadcasters[p][h] \cup {e.src} \cup {p},
           ~ (/\ ~AlreadyDelivered(p, h)
              /\ EnoughBroadcasters(heard)
              /\ IsCausallyOrdered(e.msg, state[p]))
    PROVE  Inv'
<1>1. /\ p \in Procs /\ e.src \in Procs /\ Genuine(e.msg) /\ h \in Known /\ h \in Hashes
      /\ broadcasters[p] \in [Hashes -> SUBSET Procs] /\ broadcasters[p][h] \subseteq Procs
      /\ Part(p) \in Parts /\ Sound(Part(p)) /\ Types
  BY EnvelopeFacts
<1>2. InFlight' /\ (UNCHANGED casts \/ (OneMore(p, h) /\ Heard(p, h) = 0)) /\ Still
  BY RelayIs
<1>3. /\ broadcasters' = [broadcasters EXCEPT ![p][h] = heard]
      /\ buffer' = IF ~AlreadyDelivered(p, h) /\ EnoughBroadcasters(heard)
                   THEN [buffer EXCEPT ![p] = Buffered(@, e.msg)]
                   ELSE buffer
      /\ UNCHANGED <<state, log>>
  BY DEF OnMessage
<1>4. heard \subseteq Procs
  BY <1>1
<1>5. /\ broadcasters' \in [Procs -> [Hashes -> SUBSET Procs]]
      /\ broadcasters'[p][h] = heard
      /\ \A q \in Procs : \A g \in Hashes : broadcasters[q][g] \subseteq broadcasters'[q][g]
                                            /\ broadcasters'[q][g] \subseteq Procs
      /\ \A q \in Procs \ {p} : broadcasters'[q] = broadcasters[q]
  <2>1. PICK row : row = [broadcasters[p] EXCEPT ![h] = heard]
    OBVIOUS
  <2>2. broadcasters \in [Procs -> [Hashes -> SUBSET Procs]]
    BY <1>1 DEF Types
  <2>3. /\ row \in [Hashes -> SUBSET Procs] /\ row[h] = heard
        /\ \A g \in Hashes : broadcasters[p][g] \subseteq row[g]
    <3>1. broadcasters[p][h] \subseteq heard
      OBVIOUS
    <3> QED
      BY <1>1, <1>4, <2>1, <3>1
  <2>4. broadcasters' = [broadcasters EXCEPT ![p] = row]
    BY <1>1, <1>3, <2>1, <2>2
  <2>5. /\ broadcasters' \in [Procs -> [Hashes -> SUBSET Procs]] /\ broadcasters'[p] = row
        /\ \A q \in Procs \ {p} : broadcasters'[q] = broadcasters[q]
    BY <1>1, <2>2, <2>3, <2>4
  <2>6. \A q \in Procs : \A g \in Hashes : broadcasters[q][g] \subseteq broadcasters'[q][g]
    BY <2>3, <2>5
  <2>7. \A q \in Procs : \A g \in Hashes : broadcasters'[q][g] \subseteq Procs
    BY <2>5
  <2> QED
    BY <2>3, <2>5, <2>6, <2>7
<1>6. PICK bf \in Seq(Msgs) : bf = buffer[p] /\ e.msg \in Msgs
  BY <1>1, GenuineIsKnown DEF Types
<1>7. /\ buffer' \in [Procs -> Seq(Msgs)]
      /\ \A q \in Procs \ {p} : buffer'[q] = buffer[q]
      /\ \A i \in 1 .. Len(buffer'[p]) :
            \/ \E j \in 1 .. Len(buffer[p]) : buffer'[p][i] = buffer[p][j]
            \/ buffer'[p][i] = e.msg /\ ~AlreadyDelivered(p, h) /\ EnoughBroadcasters(heard)
  <2>1. CASE ~AlreadyDelivered(p, h) /\ EnoughBroadcasters(heard) /\ ~Contains(bf, e.msg)
    <3>1. buffer' = [buffer EXCEPT ![p] = Append(bf, e.msg)]
      BY <1>3, <1>6, <2>1 DEF Buffered
    <3>2. PICK new : new = Append(bf, e.msg)
      OBVIOUS
    <3>3. new \in Seq(Msgs) /\ Len(new) = Len(bf) + 1 /\ new[Len(bf) + 1] = e.msg
          /\ \A i \in 1 .. Len(bf) : new[i] = bf[i]
      BY <1>6, <3>2
    <3>4. \A i \in 1 .. Len(new) : (\E j \in 1 .. Len(bf) : new[i] = bf[j]) \/ new[i] = e.msg
      <4>1. \A i \in 1 .. Len(new) : i \in 1 .. Len(bf) \/ i = Len(bf) + 1
        BY <3>3
      <4> QED
        BY <3>3, <4>1
    <3>5. buffer'[p] = new /\ buffer' \in [Procs -> Seq(Msgs)] /\ \A q \in Procs \ {p} : buffer'[q] = buffer[q]
      BY <1>1, <3>1, <3>2, <3>3 DEF Types
    <3> QED
      BY <1>6, <2>1, <3>4, <3>5
  <2>2. CASE ~(~AlreadyDelivered(p, h) /\ EnoughBroadcasters(heard) /\ ~Contains(bf, e.msg))
    <3>1. buffer' = buffer
      BY <1>1, <1>3, <1>6, <2>2 DEF Buffered, Types
    <3> QED
      BY <1>1, <3>1 DEF Types
  <2> QED
    BY <2>1, <2>2
<1>8. Known' = Known /\ Hashes' = Hashes /\ (\A w : Genuine(w) => Genuine(w)') /\ (\A d : Sound(d) => Sound(d)')
  BY <1>2, StillMeans
<1>9. Types'
  BY <1>1, <1>2, <1>3, <1>5, <1>7, <1>8 DEF Types, Still
<1>10. Buffers'
  <2> SUFFICES ASSUME NEW q \in Procs, NEW i \in 1 .. Len(buffer'[q]) PROVE Genuine(buffer[q][i])'
    BY DEF Buffers
  <2>1. PICK w : w = buffer'[q][i]
    OBVIOUS
  <2>2. Genuine(w)
    <3>1. CASE q = p
      BY <1>1, <1>7, <2>1, <3>1 DEF Inv, Buffers
    <3>2. CASE q # p
      BY <1>7, <2>1, <3>2 DEF Inv, Buffers
    <3> QED
      BY <3>1, <3>2
  <2>3. Genuine(w)'
    BY <1>8, <2>2
  <2> QED
    BY <2>1, <2>3
<1>11. Logs'
  <2> SUFFICES ASSUME NEW q \in Procs PROVE Sound(Part(q))'
    BY DEF Logs
  <2>1. PICK lg, st : lg = log[q] /\ st = state[q] /\ lg = log'[q] /\ st = state'[q]
    BY <1>3
  <2>2. Causal(lg) /\ ToSet(lg) = Below(st) /\ \A r \in Procs : st[r] <= counter[r]
    BY <2>1 DEF Inv, Logs, Sound, Part
  <2>3. Causal(lg)' /\ Below(st)' = Below(st) /\ counter' = counter
    BY <1>2, <2>2 DEF Causal, Below, Still
  <2> QED
    BY <2>1, <2>2, <2>3 DEF Sound, Part
<1>12. Waits'
  <2> SUFFICES ASSUME NEW q \in Procs, NEW i \in 1 .. Len(buffer'[q])
               PROVE  /\ ~IsCausallyOrdered(buffer'[q][i], state'[q])
                      /\ ~Contains(log'[q], Hash(buffer'[q][i]))
                      /\ EnoughBroadcasters(broadcasters'[q][Hash(buffer'[q][i])])
    BY DEF Waits, Waiting, Part
  <2>1. PICK w : w = buffer'[q][i]
    OBVIOUS
  <2>2. CASE \E j \in 1 .. Len(buffer[q]) : w = buffer[q][j]
    <3>1. /\ ~IsCausallyOrdered(w, state[q]) /\ ~Contains(log[q], Hash(w))
          /\ EnoughBroadcasters(broadcasters[q][Hash(w)]) /\ Genuine(w)
      BY <2>2 DEF Inv, Waits, Waiting, Part, Buffers
    <3>2. Hash(w) \in Hashes
      BY <1>1, <3>1, GenuineIsKnown
    <3>3. EnoughBroadcasters(broadcasters'[q][Hash(w)])
      BY <1>5, <3>1, <3>2, EnoughMonotone
    <3> QED
      BY <1>3, <2>1, <3>1, <3>3
  <2>3. CASE q = p /\ w = e.msg /\ ~AlreadyDelivered(p, h) /\ EnoughBroadcasters(heard)
    <3>1. ~IsCausallyOrdered(w, state[p]) /\ ~Contains(log[p], h) /\ Hash(w) = h
      BY <2>3 DEF AlreadyDelivered
    <3>2. EnoughBroadcasters(broadcasters'[p][h])
      BY <1>5, <2>3
    <3>3. state'[p] = state[p] /\ log'[p] = log[p]
      BY <1>3
    <3> QED
      BY <2>1, <2>3, <3>1, <3>2, <3>3
  <2>4. q # p => \E j \in 1 .. Len(buffer[q]) : w = buffer[q][j]
    BY <1>7, <2>1
  <2>5. q = p => \/ \E j \in 1 .. Len(buffer[q]) : w = buffer[q][j]
                 \/ w = e.msg /\ ~AlreadyDelivered(p, h) /\ EnoughBroadcasters(heard)
    <3> SUFFICES ASSUME q = p
                 PROVE  \/ \E j \in 1 .. Len(buffer[q]) : w = buffer[q][j]
                        \/ w = e.msg /\ ~AlreadyDelivered(p, h) /\ EnoughBroadcasters(heard)
      OBVIOUS
    <3>1. i \in 1 .. Len(buffer'[p]) /\ w = buffer'[p][i]
      BY <2>1
    <3>2. \/ \E j \in 1 .. Len(buffer[p]) : w = buffer[p][j]
          \/ w = e.msg /\ ~AlreadyDelivered(p, h) /\ EnoughBroadcasters(heard)
      BY <1>7, <3>1
    <3> QED
      BY <3>2
  <2> QED
    BY <2>2, <2>3, <2>4, <2>5
<1>13. Counted'
  <2>1. \A q \in Procs \ {p} : UNCHANGED <<log[q], broadcasters[q]>>
    BY <1>3, <1>5
  <2>2. ASSUME NEW g \in Known PROVE Heard(p, g)' + Done(p, g)' >= Heard(p, g) + Done(p, g)
    <3>1. g \in Hashes
      BY <1>1, KnownIsHash
    <3>2. p \in broadcasters[p][g] => p \in broadcasters'[p][g]
      BY <1>1, <1>5, <3>1
    <3>3. Done(p, g)' = Done(p, g) /\ Done(p, g) \in {0, 1}
      BY <1>3 DEF Done
    <3> QED
      BY <3>2, <3>3 DEF Heard
  <2>3. Heard(p, h)' + Done(p, h)' >= Done(p, h) + 1
    <3>1. Done(p, h)' = Done(p, h) /\ Done(p, h) \in {0, 1}
      BY <1>3 DEF Done
    <3>2. Heard(p, h)' = 1
      BY <1>5 DEF Heard
    <3> QED
      BY <3>1, <3>2
  <2> QED
    BY <1>1, <1>2, <2>1, <2>2, <2>3, CountedKept
<1> QED
  BY <1>2, <1>9, <1>10, <1>11, <1>12, <1>13 DEF Inv

\* A message that is delivered, and what was waiting for it.
LEMMA DeliverStep ==
    ASSUME Inv, NEW e \in DOMAIN net, OnMessage(e), NEW p, NEW h, p = e.dst, h = Hash(e.msg),
           NEW heard, heard = broadcasters[p][h] \cup {e.src} \cup {p},
           ~AlreadyDelivered(p, h),
           EnoughBroadcasters(heard),
           IsCausallyOrdered(e.msg, state[p])
    PROVE  Inv'
<1>1. /\ p \in Procs /\ e.src \in Procs /\ Genuine(e.msg) /\ h \in Known /\ h \in Hashes
      /\ broadcasters[p] \in [Hashes -> SUBSET Procs] /\ broadcasters[p][h] \subseteq Procs
      /\ Part(p) \in Parts /\ Sound(Part(p)) /\ Types
  BY EnvelopeFacts
<1>2. InFlight' /\ (UNCHANGED casts \/ (OneMore(p, h) /\ Heard(p, h) = 0)) /\ Still
  BY RelayIs
<1>3. DeliverAll(p, e.msg)
  BY DEF OnMessage
<1>4. PICK d \in Parts : d = Part(p) /\ d.state = state[p] /\ d.log = log[p] /\ d.buffer = buffer[p]
  BY <1>1 DEF Part
<1>5. PICK b : b = Delivered(d, e.msg)
  OBVIOUS
<1>6. PICK a : a = UpdateDeliver(b)
  OBVIOUS
<1>7. counter \in [Procs -> Nat] /\ e.msg \in Msgs
  BY <1>1, GenuineIsKnown DEF Types
<1>8. /\ b \in Parts /\ Sound(b) /\ b.buffer = d.buffer
      /\ ToSet(d.log) \subseteq ToSet(b.log) /\ Contains(b.log, h) /\ ~Contains(d.log, h)
  <2>1. b \in Parts
    BY <1>5, <1>7, DeliverType
  <2>2. Sound(d) /\ IsCausallyOrdered(e.msg, d.state)
    BY <1>1, <1>4
  <2>3. b.buffer = d.buffer
    BY <1>5 DEF Delivered
  <2> QED
    BY <1>1, <1>5, <1>7, <2>1, <2>2, <2>3, DeliverSound
<1>9. \A i \in 1 .. Len(b.buffer) : Genuine(b.buffer[i])
  BY <1>1, <1>4, <1>8 DEF Inv, Buffers
<1>10. PassKeeps(b, a) /\ Waiting(a)
  BY <1>6, <1>7, <1>8, <1>9, UpdateIs
<1>11. /\ a \in Parts /\ Sound(a)
       /\ \A i \in 1 .. Len(a.buffer) : \E j \in 1 .. Len(buffer[p]) : a.buffer[i] = buffer[p][j]
  BY <1>4, <1>8, <1>10 DEF PassKeeps
<1>12. a.state \in [Procs -> Nat] /\ a.log \in Seq(Ids) /\ a.buffer \in Seq(Msgs) /\ log[p] \in Seq(Ids)
  BY <1>1, <1>11 DEF Parts, Types
<1>13. ToSet(log[p]) \subseteq ToSet(a.log) /\ h \in ToSet(a.log) /\ h \notin ToSet(log[p])
  <2>1. ToSet(b.log) \subseteq ToSet(a.log)
    BY <1>10 DEF PassKeeps
  <2>2. b.log \in Seq(Ids)
    BY <1>8 DEF Parts
  <2>3. h \in ToSet(b.log) /\ h \notin ToSet(d.log)
    BY <1>4, <1>8, <1>12, <2>2, ContainsIs
  <2> QED
    BY <1>4, <1>8, <2>1, <2>3
<1>14. /\ state' = [state EXCEPT ![p] = a.state]
       /\ log' = [log EXCEPT ![p] = a.log]
       /\ buffer' = [buffer EXCEPT ![p] = a.buffer]
       /\ broadcasters' =
              [broadcasters EXCEPT ![p] =
                  [g \in Hashes |->
                      IF g \in ToSet(a.log) \ ToSet(log[p]) THEN {} ELSE broadcasters[p][g]]]
  <2>1. a = UpdateDeliver(Delivered([state |-> state[p], log |-> log[p], buffer |-> buffer[p]], e.msg))
    BY <1>4, <1>5, <1>6 DEF Part
  <2> QED
    BY <1>3, <2>1 DEF DeliverAll
<1>15. /\ state' \in [Procs -> [Procs -> Nat]] /\ state'[p] = a.state
       /\ log' \in [Procs -> Seq(Ids)] /\ log'[p] = a.log
       /\ buffer' \in [Procs -> Seq(Msgs)] /\ buffer'[p] = a.buffer
       /\ \A q \in Procs \ {p} : state'[q] = state[q] /\ log'[q] = log[q] /\ buffer'[q] = buffer[q]
                                 /\ broadcasters'[q] = broadcasters[q]
  BY <1>1, <1>12, <1>14 DEF Types
<1>16. /\ broadcasters' \in [Procs -> [Hashes -> SUBSET Procs]]
       /\ \A g \in Hashes : /\ g \in ToSet(a.log) \ ToSet(log[p]) => broadcasters'[p][g] = {}
                            /\ g \notin ToSet(a.log) \ ToSet(log[p]) => broadcasters'[p][g] = broadcasters[p][g]
  <2>1. PICK row : row = [g \in Hashes |->
                      IF g \in ToSet(a.log) \ ToSet(log[p]) THEN {} ELSE broadcasters[p][g]]
    OBVIOUS
  <2>2. row \in [Hashes -> SUBSET Procs]
    BY <1>1, <2>1
  <2>3. broadcasters' = [broadcasters EXCEPT ![p] = row]
    BY <1>14, <2>1
  <2>4. broadcasters' \in [Procs -> [Hashes -> SUBSET Procs]] /\ broadcasters'[p] = row
    BY <1>1, <2>2, <2>3 DEF Types
  <2> QED
    BY <2>1, <2>4
<1>17. Known' = Known /\ Hashes' = Hashes /\ (\A w : Genuine(w) => Genuine(w)') /\ (\A f : Sound(f) => Sound(f)')
  BY <1>2, StillMeans
<1>18. Types'
  BY <1>1, <1>2, <1>15, <1>16, <1>17 DEF Types, Still
<1>19. Buffers'
  <2> SUFFICES ASSUME NEW q \in Procs, NEW i \in 1 .. Len(buffer'[q]) PROVE Genuine(buffer[q][i])'
    BY DEF Buffers
  <2>1. PICK w : w = buffer'[q][i]
    OBVIOUS
  <2>2. Genuine(w)
    <3>1. \A r \in Procs : \A j \in 1 .. Len(buffer[r]) : Genuine(buffer[r][j])
      BY DEF Inv, Buffers
    <3>2. CASE q = p
      <4>1. w = a.buffer[i] /\ i \in 1 .. Len(a.buffer)
        BY <1>15, <2>1, <3>2
      <4>2. PICK j \in 1 .. Len(buffer[p]) : w = buffer[p][j]
        BY <1>11, <4>1
      <4> QED
        BY <1>1, <3>1, <4>2
    <3>3. CASE q # p
      BY <1>15, <2>1, <3>1, <3>3
    <3> QED
      BY <3>2, <3>3
  <2>3. Genuine(w)'
    BY <1>17, <2>2
  <2> QED
    BY <2>1, <2>3
<1>20. \A q \in Procs \ {p} : Part(q)' = Part(q)
  BY <1>15 DEF Part
<1>21. PICK now : now = Part(p)' /\ now.state = a.state /\ now.log = a.log /\ now.buffer = a.buffer
  <2>1. Part(p)' = [state |-> a.state, log |-> a.log, buffer |-> a.buffer]
    BY <1>15 DEF Part
  <2> QED
    BY <2>1
<1>22. Logs'
  <2> SUFFICES ASSUME NEW q \in Procs PROVE Sound(Part(q))'
    BY DEF Logs
  <2>1. PICK f : f = Part(q)'
    OBVIOUS
  <2>2. Sound(f)
    <3>1. CASE q = p
      BY <1>11, <1>21, <2>1, <3>1 DEF Sound
    <3>2. CASE q # p
      BY <1>20, <2>1, <3>2 DEF Inv, Logs
    <3> QED
      BY <3>1, <3>2
  <2>3. Sound(f)'
    BY <1>17, <2>2
  <2> QED
    BY <2>1, <2>3
<1>23. Waits'
  <2> SUFFICES ASSUME NEW q \in Procs, NEW i \in 1 .. Len(buffer'[q])
               PROVE  /\ ~IsCausallyOrdered(buffer'[q][i], state'[q])
                      /\ ~Contains(log'[q], Hash(buffer'[q][i]))
                      /\ EnoughBroadcasters(broadcasters'[q][Hash(buffer'[q][i])])
    BY DEF Waits, Waiting, Part
  <2>1. CASE q # p
    <3>1. state'[q] = state[q] /\ log'[q] = log[q] /\ buffer'[q] = buffer[q] /\ broadcasters'[q] = broadcasters[q]
      BY <1>15, <2>1
    <3>2. i \in 1 .. Len(buffer[q])
      BY <3>1
    <3>3. /\ ~IsCausallyOrdered(buffer[q][i], state[q])
          /\ ~Contains(log[q], Hash(buffer[q][i]))
          /\ EnoughBroadcasters(broadcasters[q][Hash(buffer[q][i])])
      BY <3>2 DEF Inv, Waits, Waiting, Part
    <3> QED
      BY <3>1, <3>3
  <2>2. CASE q = p
    <3>1. PICK w : w = a.buffer[i] /\ w = buffer'[q][i] /\ i \in 1 .. Len(a.buffer)
      BY <1>15, <2>2
    <3>2. ~IsCausallyOrdered(w, a.state) /\ ~Contains(a.log, Hash(w))
      BY <1>10, <3>1 DEF Waiting
    <3>3. PICK j \in 1 .. Len(buffer[p]) : w = buffer[p][j]
      BY <1>11, <3>1
    <3>4. EnoughBroadcasters(broadcasters[p][Hash(w)]) /\ Genuine(w)
      BY <1>1, <3>3 DEF Inv, Waits, Buffers
    <3>5. Hash(w) \in Hashes
      BY <1>1, <3>4, GenuineIsKnown
    <3>6. Hash(w) \notin ToSet(a.log)
      BY <1>12, <3>2, ContainsIs
    <3>7. broadcasters'[p][Hash(w)] = broadcasters[p][Hash(w)]
      BY <1>16, <3>5, <3>6
    <3> QED
      BY <1>15, <2>2, <3>1, <3>2, <3>4, <3>7
  <2> QED
    BY <2>1, <2>2
<1>24. Counted'
  <2>1. \A q \in Procs \ {p} : UNCHANGED <<log[q], broadcasters[q]>>
    BY <1>15
  <2>2. \A g : (Done(p, g) = IF g \in ToSet(log[p]) THEN 1 ELSE 0)
               /\ (Done(p, g)' = IF g \in ToSet(a.log) THEN 1 ELSE 0)
    BY <1>12, <1>15, ContainsIs DEF Done
  <2>3. ASSUME NEW g \in Known PROVE Heard(p, g)' + Done(p, g)' >= Heard(p, g) + Done(p, g)
    <3>1. g \in Hashes
      BY <1>1, KnownIsHash
    <3>2. CASE g \in ToSet(a.log) \ ToSet(log[p])
      <4>1. Done(p, g) = 0 /\ Done(p, g)' = 1 /\ Heard(p, g) \in {0, 1} /\ Heard(p, g)' \in {0, 1}
        BY <2>2, <3>2 DEF Heard
      <4> QED
        BY <4>1
    <3>3. CASE g \notin ToSet(a.log) \ ToSet(log[p])
      <4>1. Heard(p, g)' = Heard(p, g) /\ Heard(p, g) \in {0, 1}
        BY <1>16, <3>1, <3>3 DEF Heard
      <4>2. Done(p, g)' = Done(p, g) /\ Done(p, g) \in {0, 1}
        BY <1>13, <2>2, <3>3
      <4> QED
        BY <4>1, <4>2
    <3> QED
      BY <3>2, <3>3
  <2>4. Heard(p, h)' + Done(p, h)' >= Done(p, h) + 1
    <3>1. Done(p, h) = 0 /\ Done(p, h)' = 1 /\ Heard(p, h)' \in {0, 1}
      BY <1>13, <2>2 DEF Heard
    <3> QED
      BY <3>1
  <2> QED
    BY <1>1, <1>2, <2>1, <2>3, <2>4, CountedKept
<1> QED
  BY <1>2, <1>18, <1>19, <1>22, <1>23, <1>24 DEF Inv

LEMMA NextInv == Inv /\ [Next]_vars => Inv'
<1> SUFFICES ASSUME Inv, [Next]_vars PROVE Inv'
  OBVIOUS
<1>1. CASE \E p \in Procs : OnLocalMessage(p)
  BY <1>1, LocalStep
<1>2. CASE \E e \in DOMAIN net : OnMessage(e)
  <2>1. PICK e \in DOMAIN net : OnMessage(e)
    BY <1>2
  <2>2. PICK p, h, heard : p = e.dst /\ h = Hash(e.msg) /\ heard = broadcasters[p][h] \cup {e.src} \cup {p}
    OBVIOUS
  <2>3. CASE ~AlreadyDelivered(p, h) /\ EnoughBroadcasters(heard) /\ IsCausallyOrdered(e.msg, state[p])
    BY <2>1, <2>2, <2>3, DeliverStep
  <2>4. CASE ~(~AlreadyDelivered(p, h) /\ EnoughBroadcasters(heard) /\ IsCausallyOrdered(e.msg, state[p]))
    BY <2>1, <2>2, <2>4, KeepStep
  <2> QED
    BY <2>3, <2>4
<1>3. CASE \E p \in Procs : Crash(p)
  <2>1. DOMAIN net' \subseteq DOMAIN net
    BY <1>3 DEF Crash
  <2>2. UNCHANGED <<counter, state, buffer, broadcasters, log, quota, casts, past>>
    BY <1>3 DEF Crash, procVars
  <2> QED
    BY <2>1, <2>2, LossStep
<1>4. CASE UNCHANGED vars
  <2>1. net' = net /\ UNCHANGED <<counter, state, buffer, broadcasters, log, quota, casts, past>>
    BY <1>4 DEF vars, procVars
  <2> QED
    BY <2>1, LossStep
<1> QED
  BY <1>1, <1>2, <1>3, <1>4 DEF Next

-----------------------------------------------------------------------------
(* The theorems *)

\* In every reachable state a message under way or in a buffer is one its sender
\* broadcast, each vector says what its log holds, and what waits has reason to.
THEOREM Broadcasting == Spec => []Inv
<1>1. Init => Inv
  BY InitInv
<1>2. Inv /\ [Next]_vars => Inv'
  BY NextInv
<1> QED
  BY <1>1, <1>2, PTL DEF Spec

\* Nobody delivers a message twice, or before everything its sender had broadcast or
\* delivered earlier (is_causally_ordered, update_deliver).
THEOREM CausalDelivery == Spec => []CausalOrder
<1>1. Inv => CausalOrder
  <2> SUFFICES ASSUME Inv, NEW p \in Procs, NEW j \in DOMAIN log[p]
               PROVE  LET earlier == {log[p][i] : i \in 1 .. j - 1}
                      IN  log[p][j] \notin earlier /\ past[log[p][j]] \subseteq earlier
    BY DEF CausalOrder
  <2>1. log[p] \in Seq(Ids) /\ Causal(log[p])
    BY DEF Inv, Types, Logs, Sound, Part
  <2>2. j \in 1 .. Len(log[p])
    BY <2>1
  <2>3. /\ log[p][j] \notin {log[p][i] : i \in 1 .. j - 1}
        /\ past[log[p][j]] \subseteq {log[p][i] : i \in 1 .. j - 1}
    BY <2>1, <2>2, Zenon DEF Causal
  <2> QED
    BY <2>3
<1> QED
  BY <1>1, Broadcasting, PTL

\* Between two handlers nothing in a buffer could be delivered, however long the
\* chains of messages that wait for one another (update_deliver).
THEOREM BuffersDrained == Spec => []BufferWaits
<1>1. Inv => BufferWaits
  <2> SUFFICES ASSUME Inv, NEW p \in Procs, NEW i \in DOMAIN buffer[p]
               PROVE  /\ ~IsCausallyOrdered(buffer[p][i], state[p])
                      /\ EnoughBroadcasters(broadcasters[p][Hash(buffer[p][i])])
                      /\ Hash(buffer[p][i]) \notin ToSet(log[p])
    BY DEF BufferWaits
  <2>1. buffer[p] \in Seq(Msgs) /\ log[p] \in Seq(Ids)
    BY DEF Inv, Types
  <2>2. i \in 1 .. Len(buffer[p])
    BY <2>1
  <2>3. /\ ~IsCausallyOrdered(buffer[p][i], state[p])
        /\ ~Contains(log[p], Hash(buffer[p][i]))
        /\ EnoughBroadcasters(broadcasters[p][Hash(buffer[p][i])])
    BY <2>2 DEF Inv, Waits, Waiting, Part
  <2> QED
    BY <2>1, <2>3, ContainsIs
<1> QED
  BY <1>1, Broadcasting, PTL

\* A process broadcasts a message at most twice, three times when it is its origin,
\* whatever is received late or from processes that crash (on_message).
THEOREM Relaying == Spec => []RelayingBounded
<1>1. Inv => RelayingBounded
  <2> SUFFICES ASSUME Inv, NEW p \in Procs, NEW h \in DOMAIN casts[p]
               PROVE  casts[p][h] <= IF h[1] = p THEN 3 ELSE 2
    BY DEF RelayingBounded
  <2>1. casts[p][h] \in Nat /\ casts[p][h] <= Own(p, h) + Heard(p, h) + Done(p, h)
    BY DEF Inv, Counted
  <2>2. Heard(p, h) \in {0, 1} /\ Done(p, h) \in {0, 1} /\ Own(p, h) = IF h[1] = p THEN 1 ELSE 0
    BY DEF Own, Heard, Done
  <2> QED
    BY <2>1, <2>2
<1> QED
  BY <1>1, Broadcasting, PTL

-----------------------------------------------------------------------------
(* Agreement *)

\* p has broadcast the message with hash h.
HasCast(p, h) == h \in DOMAIN casts[p]
Casters(h) == {p \in Procs : HasCast(p, h)}

\* q has heard of h from p, or needs not to any more, or is going to.
Coming(q, p, h) == \E e \in DOMAIN net : e.src = p /\ e.dst = q /\ Hash(e.msg) = h
Hears(q, p, h) == p \in broadcasters[q][h] \/ h \in ToSet(log[q]) \/ Coming(q, p, h)

\* Who is taken for a broadcaster is one, the process itself included.
Truthful ==
    /\ \A e \in DOMAIN net : HasCast(e.src, Hash(e.msg))
    /\ \A q \in Procs : \A h \in Hashes :
          /\ broadcasters[q][h] \subseteq Casters(h)
          /\ broadcasters[q][h] # {} => q \in broadcasters[q][h]
    /\ \A q \in Procs : \A c \in 0 .. counter[q] - 1 : HasCast(q, <<q, c>>)

\* A broadcast reaches everybody who stays up.
Reliable ==
    \A p, q \in Procs \ crashed : \A h \in DOMAIN casts[p] : Hears(q, p, h)

\* What is delivered has been broadcast by half of the processes and by the process
\* that delivers it; what could be is in the buffer.
Backed ==
    \A q \in Procs : \A h \in ToSet(log[q]) : EnoughBroadcasters(Casters(h)) /\ HasCast(q, h)
Kept ==
    \A q \in Procs : \A h \in Hashes :
        EnoughBroadcasters(broadcasters[q][h]) /\ h \notin ToSet(log[q]) =>
            \E i \in 1 .. Len(buffer[q]) : Hash(buffer[q][i]) = h

\* A process delivers nothing of its own before what it had delivered or broadcast
\* when it sent it; that is not undone.
OwnPast ==
    \A q \in Procs : \A c \in 0 .. counter[q] - 1 :
        past[<<q, c>>] \subseteq ToSet(log[q]) \cup {<<q, b>> : b \in 0 .. c - 1}

\* The others are more.
Minority == crashed \subseteq Procs /\ (crashed = {} \/ 2 * Cardinality(crashed) < Cardinality(Procs))

Bag == \A e \in DOMAIN net : net[e] \in Nat \ {0}

AgreeInv == Truthful /\ Reliable /\ Backed /\ Kept /\ OwnPast /\ Minority /\ Bag

\* Nothing is under way but what may never arrive.
AtRest == \A e \in DOMAIN net : e.src \in crashed

AgreementAtRest ==
    AtRest => \A p \in Procs, q \in Procs \ crashed : ToSet(log[p]) \subseteq ToSet(log[q])
ValidityAtRest ==
    AtRest => \A p \in Procs \ crashed : \A c \in 0 .. counter[p] - 1 : <<p, c>> \in ToSet(log[p])

\* h is among what p has broadcast, afterwards if not before, and all that is in flight
\* was broadcast by those it comes from.
Spreads(p, h) ==
    /\ \A q \in Procs : \A g : HasCast(q, g)' <=> HasCast(q, g) \/ (q = p /\ g = h)
    /\ \A f \in DOMAIN net' : HasCast(f.src, Hash(f.msg))'
    /\ ~HasCast(p, h) => \A q \in Procs \ crashed : Coming(q, p, h)'

\* What one more broadcast does to what is in flight.
LEMMA CastIs ==
    ASSUME Counted, Truthful, Bag, InFlight, NEW p \in Procs, NEW msg, NEW inFlight,
           BestEffortBroadcast(p, msg, inFlight),
           DOMAIN inFlight \subseteq DOMAIN net, \A e \in DOMAIN inFlight : inFlight[e] \in Nat \ {0}
    PROVE  Bag' /\ Spreads(p, Hash(msg)) /\ DOMAIN inFlight \subseteq DOMAIN net'
<1>1. PICK h : h = Hash(msg)
  OBVIOUS
<1>2. DOMAIN net' = DOMAIN inFlight \cup Envelopes(p, msg) /\ OneMore(p, h)
  BY <1>1, BroadcastIs DEF Counted
<1>3. Bag'
  <2>1. PICK B : B = SetToBag(Envelopes(p, msg))
    OBVIOUS
  <2>2. B = [e \in Envelopes(p, msg) |-> 1]
    BY <2>1 DEF SetToBag
  <2>3. net' = [e \in DOMAIN inFlight \cup DOMAIN B |->
                   (IF e \in DOMAIN inFlight THEN inFlight[e] ELSE 0) + (IF e \in DOMAIN B THEN B[e] ELSE 0)]
    BY <2>1 DEF BestEffortBroadcast, (+)
  <2>4. \A e \in DOMAIN B : B[e] = 1
    BY <2>2
  <2>5. ASSUME NEW e \in DOMAIN net' PROVE net'[e] \in Nat \ {0}
    <3>1. e \in DOMAIN inFlight => inFlight[e] \in Nat \ {0}
      OBVIOUS
    <3> QED
      BY <2>3, <2>4, <2>5, <3>1
  <2> QED
    BY <2>5 DEF Bag
<1>4. \A q \in Procs : \A g : HasCast(q, g)' <=> HasCast(q, g) \/ (q = p /\ g = h)
  BY <1>2 DEF HasCast, OneMore
<1>5. ASSUME NEW f \in DOMAIN net' PROVE HasCast(f.src, Hash(f.msg))'
  <2>1. CASE f \in DOMAIN net
    <3>1. HasCast(f.src, Hash(f.msg)) /\ f.src \in Procs
      BY <2>1 DEF Truthful, InFlight
    <3> QED
      BY <1>4, <3>1
  <2>2. CASE f \in Envelopes(p, msg)
    <3>1. f.src = p /\ f.msg = msg
      BY <2>2 DEF Envelopes
    <3> QED
      BY <1>1, <1>4, <3>1
  <2> QED
    BY <1>2, <2>1, <2>2
<1>6. ASSUME NEW q \in Procs \ crashed PROVE Coming(q, p, h)'
  <2>1. PICK f : f = [src |-> p, dst |-> q, msg |-> msg]
    OBVIOUS
  <2>2. f \in DOMAIN net' /\ f.src = p /\ f.dst = q /\ Hash(f.msg) = h
    BY <1>1, <1>2, <2>1 DEF Envelopes
  <2> QED
    BY <2>2, Zenon DEF Coming, Hash
<1> QED
  BY <1>1, <1>2, <1>3, <1>4, <1>5, <1>6 DEF Spreads

\* One copy less of one message.
LEMMA TakenIs ==
    ASSUME Bag, NEW e \in DOMAIN net, NEW rest, rest = net (-) SetToBag({e})
    PROVE  /\ DOMAIN rest \subseteq DOMAIN net /\ \A f \in DOMAIN rest : rest[f] \in Nat \ {0}
           /\ \A f \in DOMAIN net : f # e => f \in DOMAIN rest
<1>1. PICK B : B = [f \in {e} |-> 1] /\ B = SetToBag({e})
  BY DEF SetToBag
<1>2. DOMAIN B = {e} /\ B[e] = 1
  BY <1>1
<1>3. PICK R : R = [f \in DOMAIN net |-> IF f \in DOMAIN B THEN net[f] - B[f] ELSE net[f]]
  OBVIOUS
<1>4. rest = [f \in {d \in DOMAIN R : R[d] > 0} |-> R[f]] /\ DOMAIN R = DOMAIN net
  BY <1>1, <1>3 DEF (-)
<1>5. \A f \in DOMAIN net : R[f] = net[f] - (IF f = e THEN 1 ELSE 0) /\ net[f] \in Nat \ {0}
  BY <1>2, <1>3 DEF Bag
<1> QED
  BY <1>4, <1>5

LEMMA RelayedIs ==
    ASSUME Inv, Truthful, Bag, NEW e \in DOMAIN net, OnMessage(e), NEW p, NEW h, p = e.dst, h = Hash(e.msg)
    PROVE  Bag' /\ Spreads(p, h) /\ \A f \in DOMAIN net : f # e => f \in DOMAIN net'
<1>1. p \in Procs /\ e.src \in Procs /\ h \in Hashes
  BY EnvelopeFacts
<1>2. PICK rest : rest = net (-) SetToBag({e})
  OBVIOUS
<1>3. /\ DOMAIN rest \subseteq DOMAIN net /\ \A f \in DOMAIN rest : rest[f] \in Nat \ {0}
      /\ \A f \in DOMAIN net : f # e => f \in DOMAIN rest
  BY <1>2, TakenIs
<1>4. CASE Relays(p, broadcasters[p][h] \cup {e.src})
  <2>1. BestEffortBroadcast(p, e.msg, rest)
    BY <1>2, <1>4 DEF OnMessage
  <2> QED
    BY <1>1, <1>3, <2>1, CastIs DEF Inv
<1>5. CASE ~Relays(p, broadcasters[p][h] \cup {e.src})
  <2>1. net' = rest /\ casts' = casts
    BY <1>2, <1>5 DEF OnMessage
  <2>2. HasCast(p, h)
    <3>1. p \in broadcasters[p][h] \/ p = e.src
      BY <1>5 DEF Relays
    <3>2. HasCast(e.src, h)
      BY DEF Truthful
    <3>3. p \in broadcasters[p][h] => HasCast(p, h)
      BY <1>1 DEF Truthful, Casters
    <3> QED
      BY <3>1, <3>2, <3>3
  <2>3. \A q, g : HasCast(q, g)' <=> HasCast(q, g)
    BY <2>1 DEF HasCast
  <2>4. ASSUME NEW f \in DOMAIN net' PROVE HasCast(f.src, Hash(f.msg))'
    <3>1. HasCast(f.src, Hash(f.msg))
      BY <1>3, <2>1 DEF Truthful
    <3> QED
      BY <2>3, <3>1
  <2>5. Bag'
    BY <1>3, <2>1 DEF Bag
  <2> QED
    BY <1>3, <2>1, <2>2, <2>3, <2>4, <2>5 DEF Spreads
<1> QED
  BY <1>4, <1>5

\* What the handler of a message with hash h leaves, heard being those who are known to
\* have broadcast it by then: the log grows by what enough have broadcast, whatever was
\* in the buffer is delivered or still there, and so is h if heard are enough.
Held(p, h) == \E i \in 1 .. Len(buffer[p]) : Hash(buffer[p][i]) = h
Heeds(p, h, heard) ==
    /\ \A q \in Procs \ {p} : UNCHANGED <<log[q], buffer[q], broadcasters[q]>>
    /\ ToSet(log[p]) \subseteq ToSet(log[p])'
    /\ \A g \in Hashes : \/ broadcasters[p][g]' = {} /\ g \in ToSet(log[p])'
                         \/ g # h /\ broadcasters[p][g]' = broadcasters[p][g]
                         \/ g = h /\ broadcasters[p][g]' = heard
    /\ \A g \in ToSet(log[p])' : \/ g \in ToSet(log[p])
                                 \/ g = h /\ EnoughBroadcasters(heard)
                                 \/ g \in Hashes /\ EnoughBroadcasters(broadcasters[p][g])
    /\ \A g : Held(p, g) => g \in ToSet(log[p])' \/ Held(p, g)'
    /\ EnoughBroadcasters(heard) => h \in ToSet(log[p])' \/ Held(p, h)'

\* The message waits, or is an old one.
LEMMA HeedsKeep ==
    ASSUME Inv, NEW e \in DOMAIN net, OnMessage(e), NEW p, NEW h, p = e.dst, h = Hash(e.msg),
           NEW heard, heard = broadcasters[p][h] \cup {e.src} \cup {p},
           ~ (/\ ~AlreadyDelivered(p, h)
              /\ EnoughBroadcasters(heard)
              /\ IsCausallyOrdered(e.msg, state[p]))
    PROVE  Heeds(p, h, heard)
<1>1. /\ p \in Procs /\ h \in Hashes /\ Types /\ Genuine(e.msg) /\ e.msg \in Msgs
      /\ broadcasters[p] \in [Hashes -> SUBSET Procs]
  BY EnvelopeFacts, GenuineIsKnown
<1>2. /\ broadcasters' = [broadcasters EXCEPT ![p][h] = heard]
      /\ buffer' = IF ~AlreadyDelivered(p, h) /\ EnoughBroadcasters(heard)
                   THEN [buffer EXCEPT ![p] = Buffered(@, e.msg)]
                   ELSE buffer
      /\ UNCHANGED <<state, log>>
  BY DEF OnMessage
<1>3. /\ \A q \in Procs \ {p} : broadcasters'[q] = broadcasters[q] /\ buffer'[q] = buffer[q]
      /\ broadcasters'[p][h] = heard
      /\ \A g \in Hashes \ {h} : broadcasters'[p][g] = broadcasters[p][g]
  BY <1>1, <1>2 DEF Types
<1>4. PICK buf \in Seq(Msgs), w \in Msgs : buf = buffer[p] /\ w = e.msg /\ Hash(w) = h
  BY <1>1 DEF Types
<1>5. AlreadyDelivered(p, h) <=> h \in ToSet(log[p])
  BY <1>1, ContainsIs DEF AlreadyDelivered, Types
<1>6. PICK new \in Seq(Msgs) :
         /\ new = buffer'[p] /\ \A i \in 1 .. Len(buf) : \E j \in 1 .. Len(new) : new[j] = buf[i]
         /\ ~AlreadyDelivered(p, h) /\ EnoughBroadcasters(heard) => \E j \in 1 .. Len(new) : new[j] = w
  <2>1. CASE ~AlreadyDelivered(p, h) /\ EnoughBroadcasters(heard)
    <3>1. buffer'[p] = Buffered(buf, w)
      BY <1>1, <1>2, <1>4, <2>1 DEF Types
    <3>2. CASE Contains(buf, w)
      <4>1. buffer'[p] = buf
        BY <3>1, <3>2 DEF Buffered
      <4>2. w \in ToSet(buf)
        BY <1>4, <3>2, ContainsIs
      <4>3. \E j \in 1 .. Len(buf) : buf[j] = w
        BY <1>4, <4>2 DEF ToSet
      <4> QED
        BY <4>1, <4>3
    <3>3. CASE ~Contains(buf, w)
      <4>1. PICK long : long = Append(buf, w)
        OBVIOUS
      <4>2. buffer'[p] = long
        BY <3>1, <3>3, <4>1 DEF Buffered
      <4>3. long \in Seq(Msgs) /\ Len(long) = Len(buf) + 1 /\ long[Len(buf) + 1] = w
            /\ \A i \in 1 .. Len(buf) : long[i] = buf[i]
        BY <1>4, <4>1
      <4>4. Len(buf) + 1 \in 1 .. Len(long) /\ \A i \in 1 .. Len(buf) : i \in 1 .. Len(long)
        BY <1>4, <4>3
      <4> QED
        BY <4>2, <4>3, <4>4
    <3> QED
      BY <3>2, <3>3
  <2>2. CASE ~(~AlreadyDelivered(p, h) /\ EnoughBroadcasters(heard))
    <3>1. buffer'[p] = buf
      BY <1>2, <1>4, <2>2
    <3> QED
      BY <2>2, <3>1
  <2> QED
    BY <2>1, <2>2
<1>7. \A g : Held(p, g) => Held(p, g)'
  <2> SUFFICES ASSUME NEW i \in 1 .. Len(buf), NEW g, Hash(buf[i]) = g
               PROVE  \E j \in 1 .. Len(buffer'[p]) : Hash(buffer'[p][j]) = g
    BY <1>4 DEF Held, Hash
  <2> QED
    BY <1>6
<1>8. EnoughBroadcasters(heard) => h \in ToSet(log[p])' \/ Held(p, h)'
  <2> SUFFICES ASSUME EnoughBroadcasters(heard), ~AlreadyDelivered(p, h)
               PROVE  \E j \in 1 .. Len(buffer'[p]) : Hash(buffer'[p][j]) = h
    BY <1>2, <1>5 DEF Held, Hash
  <2> QED
    BY <1>4, <1>6
<1>9. ToSet(log[p])' = ToSet(log[p])
  BY <1>2
<1> QED
  BY <1>2, <1>3, <1>7, <1>8, <1>9 DEF Heeds

\* The message is delivered, and what was waiting for it.
LEMMA HeedsDeliver ==
    ASSUME Inv, NEW e \in DOMAIN net, OnMessage(e), NEW p, NEW h, p = e.dst, h = Hash(e.msg),
           NEW heard, heard = broadcasters[p][h] \cup {e.src} \cup {p},
           ~AlreadyDelivered(p, h),
           EnoughBroadcasters(heard),
           IsCausallyOrdered(e.msg, state[p])
    PROVE  Heeds(p, h, heard)
<1>1. /\ p \in Procs /\ h \in Hashes /\ Types /\ Genuine(e.msg) /\ e.msg \in Msgs
      /\ Part(p) \in Parts /\ Sound(Part(p))
  BY EnvelopeFacts, GenuineIsKnown
<1>2. PICK d \in Parts : d = Part(p) /\ d.state = state[p] /\ d.log = log[p] /\ d.buffer = buffer[p]
  BY <1>1 DEF Part
<1>3. PICK b, a : b = Delivered(d, e.msg) /\ a = UpdateDeliver(b)
  OBVIOUS
<1>4. b \in Parts /\ Sound(b) /\ b.buffer = d.buffer /\ ToSet(b.log) = ToSet(d.log) \cup {h}
  <2>1. b \in Parts
    BY <1>1, <1>3, DeliverType
  <2>2. b.buffer = d.buffer
    BY <1>3 DEF Delivered
  <2>3. counter \in [Procs -> Nat] /\ IsCausallyOrdered(e.msg, d.state) /\ Sound(d)
    BY <1>1, <1>2 DEF Types
  <2>4. Sound(b) /\ ToSet(b.log) = ToSet(d.log) \cup {h}
    BY <1>1, <1>3, <2>3, DeliverSound
  <2> QED
    BY <2>1, <2>2, <2>4
<1>5. PassKeeps(b, a)
  <2>1. \A i \in 1 .. Len(b.buffer) : Genuine(b.buffer[i])
    BY <1>1, <1>2, <1>4 DEF Inv, Buffers
  <2> QED
    BY <1>1, <1>3, <1>4, <2>1, UpdateIs DEF Types
<1>6. /\ ToSet(log[p]) \cup {h} \subseteq ToSet(a.log)
      /\ \A g \in ToSet(a.log) : g \in ToSet(log[p]) \/ g = h \/ \E j \in 1 .. Len(buffer[p]) : g = Hash(buffer[p][j])
      /\ \A j \in 1 .. Len(buffer[p]) :
            Hash(buffer[p][j]) \in ToSet(a.log) \/ \E i \in 1 .. Len(a.buffer) : a.buffer[i] = buffer[p][j]
  BY <1>2, <1>4, <1>5 DEF PassKeeps
<1>7. /\ log' = [log EXCEPT ![p] = a.log]
      /\ buffer' = [buffer EXCEPT ![p] = a.buffer]
      /\ broadcasters' =
             [broadcasters EXCEPT ![p] =
                 [g \in Hashes |->
                     IF g \in ToSet(a.log) \ ToSet(log[p]) THEN {} ELSE broadcasters[p][g]]]
  <2>1. a = UpdateDeliver(Delivered([state |-> state[p], log |-> log[p], buffer |-> buffer[p]], e.msg))
    BY <1>2, <1>3 DEF Part
  <2>2. DeliverAll(p, e.msg)
    BY DEF OnMessage
  <2> QED
    BY <2>1, <2>2 DEF DeliverAll
<1>8. /\ \A q \in Procs \ {p} : log'[q] = log[q] /\ buffer'[q] = buffer[q] /\ broadcasters'[q] = broadcasters[q]
      /\ log'[p] = a.log /\ buffer'[p] = a.buffer
  BY <1>1, <1>7 DEF Types
<1>9. \A g \in Hashes : broadcasters'[p][g] = IF g \in ToSet(a.log) \ ToSet(log[p]) THEN {} ELSE broadcasters[p][g]
  <2>1. PICK row : row = [g \in Hashes |->
                      IF g \in ToSet(a.log) \ ToSet(log[p]) THEN {} ELSE broadcasters[p][g]]
    OBVIOUS
  <2>2. broadcasters'[p] = row
    BY <1>1, <1>7, <2>1 DEF Types
  <2> QED
    BY <2>1, <2>2
<1>10. h \notin ToSet(log[p])
  BY <1>1, ContainsIs DEF AlreadyDelivered, Types
<1>11. ASSUME NEW g \in Hashes
       PROVE  \/ broadcasters'[p][g] = {} /\ g \in ToSet(a.log)
              \/ g # h /\ broadcasters'[p][g] = broadcasters[p][g]
  BY <1>6, <1>9, <1>10
<1>12. ASSUME NEW g \in ToSet(a.log)
       PROVE  \/ g \in ToSet(log[p]) \/ g = h
              \/ g \in Hashes /\ EnoughBroadcasters(broadcasters[p][g])
  <2> SUFFICES ASSUME NEW j \in 1 .. Len(buffer[p]), g = Hash(buffer[p][j])
               PROVE  g \in Hashes /\ EnoughBroadcasters(broadcasters[p][g])
    BY <1>6
  <2>1. Genuine(buffer[p][j]) /\ EnoughBroadcasters(broadcasters[p][Hash(buffer[p][j])])
    BY <1>1 DEF Inv, Buffers, Waits
  <2> QED
    BY <1>1, <2>1, GenuineIsKnown
<1>13. ASSUME NEW g, Held(p, g) PROVE g \in ToSet(log[p])' \/ Held(p, g)'
  <2>1. PICK j \in 1 .. Len(buffer[p]) : Hash(buffer[p][j]) = g
    BY <1>13 DEF Held
  <2>2. g \in ToSet(a.log) \/ \E i \in 1 .. Len(a.buffer) : Hash(a.buffer[i]) = g
    BY <1>6, <2>1
  <2> QED
    BY <1>8, <2>2 DEF Held, Hash
<1>14. ToSet(log[p])' = ToSet(a.log)
  BY <1>8
<1> QED
  BY <1>6, <1>8, <1>11, <1>12, <1>13, <1>14 DEF Heeds

LEMMA EnoughSome ==
    ASSUME NEW S, EnoughBroadcasters(S), NEW p \in Procs
    PROVE  S # {}
<1>1. IsFiniteSet(Procs) /\ Cardinality(Procs) \in Nat /\ Cardinality(Procs) # 0 /\ Cardinality({}) = 0
  BY BroadcastAssumption, FS_CardinalityType, FS_EmptySet
<1> QED
  BY <1>1 DEF EnoughBroadcasters

LEMMA AgreeInit == Init => AgreeInv
<1> SUFFICES ASSUME Init PROVE AgreeInv
  OBVIOUS
<1>1. DOMAIN net = {} /\ crashed = {} /\ \A q \in Procs : counter[q] = 0
  BY DEF Init
<1>2. \A q \in Procs : /\ log[q] = << >> /\ casts[q] = << >>
                       /\ \A h \in Hashes : broadcasters[q][h] = {}
  BY DEF Init
<1>3. \A q \in Procs : ToSet(log[q]) = {} /\ DOMAIN casts[q] = {} /\ 0 .. counter[q] - 1 = {}
  BY <1>1, <1>2 DEF ToSet
<1>4. Truthful
  BY <1>1, <1>2, <1>3 DEF Truthful
<1>5. Reliable /\ Backed /\ OwnPast /\ Minority /\ Bag
  BY <1>1, <1>3 DEF Reliable, Backed, OwnPast, Minority, Bag
<1>6. Kept
  BY <1>2, EnoughSome DEF Kept
<1> QED
  BY <1>4, <1>5, <1>6 DEF AgreeInv

\* More may have broadcast a message later.
LEMMA CastersGrow ==
    ASSUME NEW h, \A q \in Procs : \A g : HasCast(q, g) => HasCast(q, g)'
    PROVE  Casters(h) \subseteq Casters(h)' /\ Casters(h)' \subseteq Procs
  BY DEF Casters

LEMMA AgreeMessage ==
    ASSUME Inv, AgreeInv, NEW e \in DOMAIN net, OnMessage(e)
    PROVE  AgreeInv'
<1>1. PICK p, h, heard : p = e.dst /\ h = Hash(e.msg) /\ heard = broadcasters[p][h] \cup {e.src} \cup {p}
  OBVIOUS
<1>2. p \in Procs /\ e.src \in Procs /\ h \in Hashes /\ heard \subseteq Procs
  BY <1>1, EnvelopeFacts
<1>3. Heeds(p, h, heard)
  BY <1>1, HeedsKeep, HeedsDeliver
<1>4. Bag' /\ Spreads(p, h) /\ \A f \in DOMAIN net : f # e => f \in DOMAIN net'
  BY <1>1, RelayedIs DEF AgreeInv
<1>5. UNCHANGED <<counter, crashed, quota, past>> /\ Hashes' = Hashes
  BY DEF OnMessage, Hashes
<1>6. /\ \A q \in Procs : \A g : HasCast(q, g)' <=> HasCast(q, g) \/ (q = p /\ g = h)
      /\ \A g : Casters(g) \subseteq Casters(g)' /\ Casters(g)' \subseteq Procs
  <2>1. \A q \in Procs : \A g : HasCast(q, g)' <=> HasCast(q, g) \/ (q = p /\ g = h)
    BY <1>4 DEF Spreads
  <2> QED
    BY <2>1, CastersGrow
<1>7. heard \subseteq Casters(h)'
  <2>1. broadcasters[p][h] \subseteq Casters(h) /\ HasCast(e.src, h)
    BY <1>1, <1>2 DEF AgreeInv, Truthful
  <2>2. HasCast(e.src, h)' /\ HasCast(p, h)'
    BY <1>2, <1>6, <2>1
  <2> QED
    BY <1>1, <1>2, <1>6, <2>1, <2>2 DEF Casters
<1>8. Truthful'
  <2>1. \A f \in DOMAIN net' : HasCast(f.src, Hash(f.msg))'
    BY <1>4 DEF Spreads
  <2>2. ASSUME NEW q \in Procs, NEW g \in Hashes
        PROVE  /\ broadcasters'[q][g] \subseteq Casters(g)'
               /\ broadcasters'[q][g] # {} => q \in broadcasters'[q][g]
    <3>1. /\ broadcasters[q][g] \subseteq Casters(g)'
          /\ broadcasters[q][g] # {} => q \in broadcasters[q][g]
      BY <1>6 DEF AgreeInv, Truthful
    <3>2. CASE q # p
      BY <1>3, <3>1, <3>2 DEF Heeds
    <3>3. CASE q = p
      <4>1. broadcasters'[q][g] \in {{}, broadcasters[q][g]} \/ (g = h /\ broadcasters'[q][g] = heard)
        BY <1>3, <3>3 DEF Heeds
      <4> QED
        BY <1>1, <1>7, <3>1, <3>3, <4>1
    <3> QED
      BY <3>2, <3>3
  <2>3. \A q \in Procs : \A c \in 0 .. counter'[q] - 1 : HasCast(q, <<q, c>>)'
    BY <1>5, <1>6 DEF AgreeInv, Truthful
  <2> QED
    BY <1>5, <2>1, <2>2, <2>3 DEF Truthful
<1>9. Reliable'
  <2> SUFFICES ASSUME NEW r \in Procs \ crashed, NEW q \in Procs \ crashed, NEW g, HasCast(r, g)'
               PROVE  Hears(q, r, g)'
    BY <1>5 DEF Reliable, HasCast
  <2>1. CASE ~HasCast(r, g)
    <3>1. r = p /\ g = h /\ ~HasCast(p, h)
      BY <1>6, <2>1
    <3> QED
      BY <1>4, <3>1 DEF Spreads, Hears
  <2>2. CASE HasCast(r, g)
    <3>1. g \in Hashes /\ Hears(q, r, g)
      BY <2>2, KnownIsHash DEF AgreeInv, Reliable, HasCast, Inv, Counted
    <3>2. CASE g \in ToSet(log[q])
      <4>1. g \in ToSet(log[q])'
        BY <1>3, <3>2 DEF Heeds
      <4> QED
        BY <4>1 DEF Hears
    <3>3. CASE r \in broadcasters[q][g] \/ (q = p /\ g = h /\ r = e.src)
      <4>1. r \in broadcasters'[q][g] \/ g \in ToSet(log[q])'
        BY <1>1, <1>3, <3>1, <3>3 DEF Heeds
      <4> QED
        BY <4>1 DEF Hears
    <3>4. CASE Coming(q, r, g)
      <4>1. PICK f \in DOMAIN net : f.src = r /\ f.dst = q /\ Hash(f.msg) = g
        BY <3>4 DEF Coming
      <4>2. CASE f = e
        BY <1>1, <3>3, <4>1, <4>2
      <4>3. CASE f # e
        <5>1. f \in DOMAIN net'
          BY <1>4, <4>3
        <5>2. Coming(q, r, g)'
          BY <4>1, <5>1, Zenon DEF Coming, Hash
        <5> QED
          BY <5>2 DEF Hears
      <4> QED
        BY <4>2, <4>3
    <3> QED
      BY <3>1, <3>2, <3>3, <3>4 DEF Hears
  <2> QED
    BY <2>1, <2>2
<1>10. Backed'
  <2> SUFFICES ASSUME NEW q \in Procs, NEW g \in ToSet(log[q])'
               PROVE  EnoughBroadcasters(Casters(g)') /\ HasCast(q, g)'
    BY DEF Backed, EnoughBroadcasters
  <2>1. CASE g \in ToSet(log[q])
    <3>1. EnoughBroadcasters(Casters(g)) /\ HasCast(q, g)
      BY <2>1 DEF AgreeInv, Backed
    <3> QED
      BY <1>6, <3>1, EnoughMonotone
  <2>2. CASE g \notin ToSet(log[q])
    <3>1. q = p /\ \/ g = h /\ EnoughBroadcasters(heard)
                   \/ g \in Hashes /\ EnoughBroadcasters(broadcasters[p][g])
      BY <1>3, <2>2 DEF Heeds
    <3>2. CASE g = h /\ EnoughBroadcasters(heard)
      BY <1>6, <1>7, <3>1, <3>2, EnoughMonotone
    <3>3. CASE g \in Hashes /\ EnoughBroadcasters(broadcasters[p][g])
      <4>1. p \in broadcasters[p][g] /\ broadcasters[p][g] \subseteq Casters(g)
        BY <1>2, <3>3, EnoughSome DEF AgreeInv, Truthful
      <4>2. HasCast(p, g) /\ broadcasters[p][g] \subseteq Casters(g)'
        BY <1>6, <4>1 DEF Casters
      <4> QED
        BY <1>2, <1>6, <3>1, <3>3, <4>2, EnoughMonotone
    <3> QED
      BY <3>1, <3>2, <3>3
  <2> QED
    BY <2>1, <2>2
<1>11. Kept'
  <2> SUFFICES ASSUME NEW q \in Procs, NEW g \in Hashes,
                      EnoughBroadcasters(broadcasters'[q][g]), g \notin ToSet(log[q])'
               PROVE  Held(q, g)'
    BY <1>5 DEF Kept, Held, EnoughBroadcasters, Hash
  <2>1. EnoughBroadcasters(broadcasters[q][g]) /\ g \notin ToSet(log[q]) => Held(q, g)
    BY DEF AgreeInv, Kept, Held
  <2>2. CASE q # p
    <3>1. log'[q] = log[q] /\ buffer'[q] = buffer[q] /\ broadcasters'[q] = broadcasters[q]
      BY <1>3, <2>2 DEF Heeds
    <3> QED
      BY <2>1, <3>1 DEF Held, Hash
  <2>3. CASE q = p
    <3>1. g \notin ToSet(log[p])
      BY <1>3, <2>3 DEF Heeds
    <3>2. CASE g = h /\ broadcasters'[p][g] = heard
      BY <1>3, <2>3, <3>2 DEF Heeds
    <3>3. CASE broadcasters'[p][g] = broadcasters[p][g]
      BY <1>3, <2>1, <2>3, <3>1, <3>3 DEF Heeds
    <3> QED
      BY <1>3, <2>3, <3>2, <3>3 DEF Heeds
  <2> QED
    BY <2>2, <2>3
<1>12. OwnPast'
  <2> SUFFICES ASSUME NEW q \in Procs, NEW c \in 0 .. counter[q] - 1
               PROVE  past[<<q, c>>] \subseteq ToSet(log[q])' \cup {<<q, b>> : b \in 0 .. c - 1}
    BY <1>5 DEF OwnPast
  <2>1. ToSet(log[q]) \subseteq ToSet(log[q])'
    BY <1>3 DEF Heeds
  <2>2. past[<<q, c>>] \subseteq ToSet(log[q]) \cup {<<q, b>> : b \in 0 .. c - 1}
    BY DEF AgreeInv, OwnPast
  <2> QED
    BY <2>1, <2>2
<1>13. Minority'
  BY <1>5 DEF AgreeInv, Minority
<1> QED
  BY <1>4, <1>8, <1>9, <1>10, <1>11, <1>12, <1>13 DEF AgreeInv

LEMMA AgreeLocal ==
    ASSUME Inv, AgreeInv, NEW p \in Procs, OnLocalMessage(p)
    PROVE  AgreeInv'
<1>1. PICK m : m = [sender |-> p, counter |-> counter[p], state |-> state[p]]
  OBVIOUS
<1>2. PICK c \in Nat : c = counter[p] /\ counter \in [Procs -> Nat] /\ DOMAIN past = Known
  BY DEF Inv, Types
<1>3. PICK h : h = Hash(m) /\ h = <<p, c>>
  BY <1>1, <1>2 DEF Hash
<1>4. /\ BestEffortBroadcast(p, m, net)
      /\ counter' = [counter EXCEPT ![p] = c + 1]
      /\ past' = [g \in DOMAIN past \cup {h} |->
                     IF g = h THEN ToSet(log[p]) \cup {<<p, b>> : b \in 0 .. c - 1} ELSE past[g]]
      /\ UNCHANGED <<buffer, broadcasters, log, crashed, quota>> /\ Hashes' = Hashes
  BY <1>1, <1>2, <1>3 DEF OnLocalMessage, Hashes
<1>5. Bag' /\ Spreads(p, h) /\ DOMAIN net \subseteq DOMAIN net'
  BY <1>3, <1>4, CastIs DEF AgreeInv, Inv, Bag
<1>6. /\ \A q \in Procs : \A g : HasCast(q, g)' <=> HasCast(q, g) \/ (q = p /\ g = h)
      /\ \A g : Casters(g) \subseteq Casters(g)' /\ Casters(g)' \subseteq Procs
  <2>1. \A q \in Procs : \A g : HasCast(q, g)' <=> HasCast(q, g) \/ (q = p /\ g = h)
    BY <1>5 DEF Spreads
  <2> QED
    BY <2>1, CastersGrow
<1>7. h \notin Known
  BY <1>2, <1>3 DEF Known
<1>8. Truthful'
  <2>1. \A f \in DOMAIN net' : HasCast(f.src, Hash(f.msg))'
    BY <1>5 DEF Spreads
  <2>2. ASSUME NEW q \in Procs, NEW g \in Hashes
        PROVE  /\ broadcasters'[q][g] \subseteq Casters(g)'
               /\ broadcasters'[q][g] # {} => q \in broadcasters'[q][g]
    BY <1>4, <1>6 DEF AgreeInv, Truthful
  <2>3. ASSUME NEW q \in Procs, NEW b \in 0 .. counter'[q] - 1 PROVE HasCast(q, <<q, b>>)'
    <3>1. b \in 0 .. counter[q] - 1 \/ (q = p /\ b = c)
      BY <1>2, <1>4
    <3> QED
      BY <1>3, <1>6, <3>1 DEF AgreeInv, Truthful
  <2> QED
    BY <1>4, <2>1, <2>2, <2>3 DEF Truthful
<1>9. Reliable'
  <2> SUFFICES ASSUME NEW r \in Procs \ crashed, NEW q \in Procs \ crashed, NEW g, HasCast(r, g)'
               PROVE  Hears(q, r, g)'
    BY <1>4 DEF Reliable, HasCast
  <2>1. CASE ~HasCast(r, g)
    <3>1. r = p /\ g = h /\ ~HasCast(p, h)
      BY <1>6, <2>1
    <3> QED
      BY <1>5, <3>1 DEF Spreads, Hears
  <2>2. CASE HasCast(r, g)
    <3>1. Hears(q, r, g)
      BY <2>2 DEF AgreeInv, Reliable, HasCast
    <3>2. Coming(q, r, g) => Coming(q, r, g)'
      BY <1>5 DEF Coming, Hash
    <3> QED
      BY <1>4, <3>1, <3>2 DEF Hears
  <2> QED
    BY <2>1, <2>2
<1>10. Backed'
  <2> SUFFICES ASSUME NEW q \in Procs, NEW g \in ToSet(log[q])
               PROVE  EnoughBroadcasters(Casters(g)') /\ HasCast(q, g)'
    BY <1>4 DEF Backed, EnoughBroadcasters
  <2>1. EnoughBroadcasters(Casters(g)) /\ HasCast(q, g)
    BY DEF AgreeInv, Backed
  <2> QED
    BY <1>6, <2>1, EnoughMonotone
<1>11. Kept'
  BY <1>4 DEF AgreeInv, Kept, EnoughBroadcasters, Hash
<1>12. OwnPast'
  <2> SUFFICES ASSUME NEW q \in Procs, NEW b \in 0 .. counter'[q] - 1
               PROVE  past'[<<q, b>>] \subseteq ToSet(log[q]) \cup {<<q, a>> : a \in 0 .. b - 1}
    BY <1>4 DEF OwnPast
  <2>1. CASE q = p /\ b = c
    <3>1. past'[<<q, b>>] = ToSet(log[p]) \cup {<<p, a>> : a \in 0 .. c - 1}
      BY <1>3, <1>4, <2>1
    <3> QED
      BY <2>1, <3>1
  <2>2. CASE ~(q = p /\ b = c)
    <3>1. b \in 0 .. counter[q] - 1
      BY <1>2, <1>4, <2>2
    <3>2. <<q, b>> \in Known
      BY <1>2, <3>1 DEF Known, Ids
    <3>3. past'[<<q, b>>] = past[<<q, b>>]
      BY <1>2, <1>4, <1>7, <3>2
    <3> QED
      BY <3>1, <3>3 DEF AgreeInv, OwnPast
  <2> QED
    BY <2>1, <2>2
<1>13. Minority'
  BY <1>4 DEF AgreeInv, Minority
<1> QED
  BY <1>5, <1>8, <1>9, <1>10, <1>11, <1>12, <1>13 DEF AgreeInv

\* What is on the way to the others stays on its way.
LEMMA AgreeCrash ==
    ASSUME Inv, AgreeInv, NEW p \in Procs, Crash(p)
    PROVE  AgreeInv'
<1>1. /\ p \notin crashed /\ 2 * (Cardinality(crashed) + 1) < Cardinality(Procs)
      /\ crashed' = crashed \cup {p}
      /\ net' = [e \in {f \in DOMAIN net : f.dst # p} |-> net[e]]
      /\ UNCHANGED <<counter, state, buffer, broadcasters, log, quota, casts, past>> /\ Hashes' = Hashes
  BY DEF Crash, procVars, Hashes
<1>2. /\ \A f \in DOMAIN net' : f \in DOMAIN net /\ net'[f] = net[f]
      /\ \A f \in DOMAIN net : f.dst # p => f \in DOMAIN net'
  BY <1>1
<1>3. Truthful' /\ Bag'
  <2>1. Bag'
    BY <1>2 DEF AgreeInv, Bag
  <2>2. \A f \in DOMAIN net' : HasCast(f.src, Hash(f.msg))'
    BY <1>1, <1>2 DEF AgreeInv, Truthful, HasCast
  <2>3. \A h : Casters(h)' = Casters(h)
    BY <1>1 DEF Casters, HasCast
  <2>4. \A q \in Procs : \A h \in Hashes :
            /\ broadcasters'[q][h] \subseteq Casters(h)'
            /\ broadcasters'[q][h] # {} => q \in broadcasters'[q][h]
    BY <1>1, <2>3 DEF AgreeInv, Truthful
  <2>5. \A q \in Procs : \A c \in 0 .. counter'[q] - 1 : HasCast(q, <<q, c>>)'
    BY <1>1 DEF AgreeInv, Truthful, HasCast
  <2> QED
    BY <1>1, <2>1, <2>2, <2>4, <2>5 DEF Truthful
<1>4. Reliable'
  <2> SUFFICES ASSUME NEW r \in Procs \ crashed', NEW q \in Procs \ crashed', NEW h \in DOMAIN casts[r]
               PROVE  Hears(q, r, h)'
    BY <1>1 DEF Reliable
  <2>1. Hears(q, r, h) /\ q # p
    BY <1>1 DEF AgreeInv, Reliable
  <2>2. Coming(q, r, h) => Coming(q, r, h)'
    BY <1>2, <2>1 DEF Coming, Hash
  <2> QED
    BY <1>1, <2>1, <2>2 DEF Hears
<1>5. Backed' /\ Kept' /\ OwnPast'
  <2>1. \A h : Casters(h)' = Casters(h)
    BY <1>1 DEF Casters, HasCast
  <2>2. Backed'
    BY <1>1, <2>1 DEF AgreeInv, Backed, HasCast, EnoughBroadcasters
  <2>3. Kept'
    BY <1>1 DEF AgreeInv, Kept, EnoughBroadcasters, Hash
  <2>4. OwnPast'
    BY <1>1 DEF AgreeInv, OwnPast
  <2> QED
    BY <2>2, <2>3, <2>4
<1>6. Minority'
  <2>1. IsFiniteSet(crashed) /\ crashed \subseteq Procs
    BY BroadcastAssumption, FS_Subset DEF AgreeInv, Minority
  <2>2. Cardinality(crashed \cup {p}) = Cardinality(crashed) + 1
    BY <1>1, <2>1, FS_AddElement
  <2> QED
    BY <1>1, <2>1, <2>2 DEF Minority
<1> QED
  BY <1>3, <1>4, <1>5, <1>6 DEF AgreeInv

LEMMA AgreeNext == Inv /\ AgreeInv /\ [Next]_vars => AgreeInv'
<1> SUFFICES ASSUME Inv, AgreeInv, [Next]_vars PROVE AgreeInv'
  OBVIOUS
<1>1. CASE UNCHANGED vars
  <2>1. UNCHANGED <<counter, state, buffer, broadcasters, log, net, crashed, quota, casts, past>>
        /\ Hashes' = Hashes
    BY <1>1 DEF vars, procVars, Hashes
  <2>2. Truthful' /\ Bag'
    BY <2>1 DEF AgreeInv, Truthful, Bag, HasCast, Casters, Hash
  <2>3. Reliable'
    BY <2>1 DEF AgreeInv, Reliable, Hears, Coming, Hash
  <2>4. Backed' /\ Kept' /\ OwnPast' /\ Minority'
    BY <2>1 DEF AgreeInv, Backed, Kept, OwnPast, Minority, Casters, HasCast, EnoughBroadcasters, Hash
  <2> QED
    BY <2>2, <2>3, <2>4 DEF AgreeInv
<1>2. CASE Next
  BY <1>2, AgreeLocal, AgreeMessage, AgreeCrash DEF Next
<1> QED
  BY <1>1, <1>2

LEMMA AgreeAlways == Spec => [](Inv /\ AgreeInv)
  BY InitInv, NextInv, AgreeInit, AgreeNext, PTL DEF Spec

\* Once nothing is under way, a process that stays up has heard from all that do of a
\* message that enough have broadcast, or that it has broadcast itself, and delivered
\* it or put it in the buffer.
LEMMA RestIs ==
    ASSUME Inv, AgreeInv, AtRest, NEW q \in Procs \ crashed, NEW h,
           EnoughBroadcasters(Casters(h)) \/ HasCast(q, h)
    PROVE  h \in ToSet(log[q]) \/ Held(q, h)
<1>1. IsFiniteSet(Procs) /\ IsFiniteSet(crashed) /\ crashed \subseteq Procs
      /\ Cardinality(Procs) \in Nat /\ Cardinality(crashed) \in Nat /\ Cardinality(Procs) # 0
  BY BroadcastAssumption, FS_Subset, FS_CardinalityType, FS_EmptySet DEF AgreeInv, Minority
<1>2. 2 * Cardinality(crashed) < Cardinality(Procs)
  <2>1. Cardinality({}) = 0
    BY FS_EmptySet
  <2> QED
    BY <1>1, <2>1 DEF AgreeInv, Minority
<1>3. PICK r \in Procs \ crashed : HasCast(r, h)
  <2>1. CASE HasCast(q, h)
    BY <2>1
  <2>2. CASE EnoughBroadcasters(Casters(h))
    <3>1. Casters(h) \subseteq crashed => Cardinality(Casters(h)) <= Cardinality(crashed)
      BY <1>1, FS_Subset
    <3>2. Cardinality(Casters(h)) \in Nat
      BY <1>1, FS_Subset, FS_CardinalityType DEF Casters
    <3>3. ~(Casters(h) \subseteq crashed)
      BY <1>1, <1>2, <2>2, <3>1, <3>2 DEF EnoughBroadcasters
    <3> QED
      BY <3>3 DEF Casters
  <2> QED
    BY <2>1, <2>2
<1>4. h \in Hashes
  BY <1>3, KnownIsHash DEF HasCast, Inv, Counted
<1>5. \A a, b \in Procs \ crashed : HasCast(a, h) => a \in broadcasters[b][h] \/ h \in ToSet(log[b])
  BY DEF AgreeInv, Reliable, HasCast, Hears, Coming, AtRest
<1>6. \A b \in Procs \ crashed : HasCast(b, h)
  <2> SUFFICES ASSUME NEW b \in Procs \ crashed PROVE HasCast(b, h)
    OBVIOUS
  <2>1. CASE r \in broadcasters[b][h]
    <3>1. b \in broadcasters[b][h] /\ broadcasters[b][h] \subseteq Casters(h)
      BY <1>4, <2>1 DEF AgreeInv, Truthful
    <3> QED
      BY <3>1 DEF Casters
  <2>2. CASE h \in ToSet(log[b])
    BY <2>2 DEF AgreeInv, Backed
  <2> QED
    BY <1>3, <1>5, <2>1, <2>2
<1>7. CASE h \notin ToSet(log[q])
  <2>1. Procs \ crashed \subseteq broadcasters[q][h] /\ broadcasters[q][h] \subseteq Procs
    BY <1>4, <1>5, <1>6, <1>7 DEF AgreeInv, Truthful, Casters
  <2>2. Cardinality(Procs \ crashed) = Cardinality(Procs) - Cardinality(crashed)
        /\ Cardinality(Procs \ crashed) \in Nat
    <3>1. crashed \cap Procs = crashed
      BY <1>1
    <3>2. IsFiniteSet(Procs \ crashed)
          /\ Cardinality(Procs \ crashed) = Cardinality(Procs) - Cardinality(Procs \cap crashed)
      BY <1>1, FS_Difference
    <3> QED
      BY <3>1, <3>2, FS_CardinalityType
  <2>3. EnoughBroadcasters(Procs \ crashed)
    BY <1>1, <1>2, <2>2 DEF EnoughBroadcasters
  <2>4. EnoughBroadcasters(broadcasters[q][h])
    BY <2>1, <2>3, EnoughMonotone
  <2> QED
    BY <1>4, <1>7, <2>4 DEF AgreeInv, Kept, Held
<1> QED
  BY <1>7

\* What is in a buffer lacks something that came before it.
LEMMA HeldLacks ==
    ASSUME Inv, NEW q \in Procs, NEW h, Held(q, h), past[h] \subseteq ToSet(log[q]),
           h \notin ToSet(log[q])
    PROVE  FALSE
<1>1. PICK i \in 1 .. Len(buffer[q]) : Hash(buffer[q][i]) = h
  BY DEF Held
<1>2. PICK w : w = buffer[q][i] /\ Genuine(w) /\ ~IsCausallyOrdered(w, state[q]) /\ Hash(w) = h
  BY <1>1 DEF Inv, Buffers, Waits, Waiting, Part
<1>3. PICK p \in Procs, c \in Nat, ws \in [Procs -> Nat], st \in [Procs -> Nat] :
         /\ p = w.sender /\ c = w.counter /\ ws = w.state /\ st = state[q] /\ h = <<p, c>>
         /\ past[h] = Below(ws) \cup {<<p, b>> : b \in 0 .. c - 1}
  BY <1>2 DEF Genuine, Msgs, Inv, Types, Hash
<1>4. ToSet(log[q]) = Below(st)
  BY <1>3 DEF Inv, Logs, Sound, Part
<1>5. ASSUME NEW r \in Procs PROVE ws[r] <= st[r]
  <2> SUFFICES ASSUME ws[r] > st[r] PROVE FALSE
    BY <1>3
  <2>1. <<r, st[r]>> \in Below(ws)
    BY <1>3 DEF Below, Ids
  <2>2. <<r, st[r]>> \in Below(st)
    BY <1>3, <1>4, <2>1
  <2> QED
    BY <1>3, <2>2 DEF Below
<1>6. c <= st[p]
  <2> SUFFICES ASSUME c > st[p] PROVE FALSE
    BY <1>3
  <2>1. <<p, st[p]>> \in {<<p, b>> : b \in 0 .. c - 1}
    BY <1>3
  <2>2. <<p, st[p]>> \in Below(st)
    BY <1>3, <1>4, <2>1
  <2> QED
    BY <1>3, <2>2 DEF Below
<1>7. ~(c < st[p])
  BY <1>3, <1>4 DEF Below, Ids
<1>8. c = st[p]
  BY <1>3, <1>6, <1>7
<1> QED
  BY <1>2, <1>3, <1>5, <1>8 DEF IsCausallyOrdered

\* Nothing lost: when nothing is under way any more but what crashed processes sent,
\* whoever is up has delivered all that anybody has, also those that have crashed.
THEOREM UniformAgreementAtRest == Spec => []AgreementAtRest
<1>1. ASSUME Inv, AgreeInv, AtRest, NEW p \in Procs, NEW q \in Procs \ crashed
      PROVE  ToSet(log[p]) \subseteq ToSet(log[q])
  <2>1. PICK lg \in Seq(Ids) : lg = log[p] /\ Causal(lg)
    BY <1>1 DEF Inv, Types, Logs, Sound, Part
  <2> DEFINE T == {j \in 0 .. Len(lg) : \A i \in 1 .. j : lg[i] \in ToSet(log[q])}
  <2>2. 0 \in T
    BY <2>1
  <2>3. ASSUME NEW k \in 1 .. Len(lg), k - 1 \in T PROVE k \in T
    <3>1. \A i \in 1 .. k - 1 : lg[i] \in ToSet(log[q])
      BY <2>3
    <3>2. past[lg[k]] \subseteq {lg[i] : i \in 1 .. k - 1}
      BY <2>1 DEF Causal
    <3>3. past[lg[k]] \subseteq ToSet(log[q])
      BY <3>1, <3>2
    <3>4. lg[k] \in ToSet(log[p])
      BY <2>1 DEF ToSet
    <3>5. EnoughBroadcasters(Casters(lg[k]))
      BY <1>1, <3>4 DEF AgreeInv, Backed
    <3>6. lg[k] \in ToSet(log[q])
      BY <1>1, <3>3, <3>5, RestIs, HeldLacks
    <3>7. \A i \in 1 .. k : i = k \/ i \in 1 .. k - 1
      OBVIOUS
    <3> QED
      BY <3>1, <3>6, <3>7
  <2>4. 0 .. Len(lg) \subseteq T
    <3> HIDE DEF T
    <3>1. \A k \in 1 .. Len(lg) : k - 1 \in T => k \in T
      BY <2>3
    <3>2. Len(lg) \in Nat
      BY <2>1
    <3> QED
      BY <2>2, <3>1, <3>2, PrefixInduction
  <2>5. \A i \in 1 .. Len(lg) : lg[i] \in ToSet(log[q])
    <3>1. Len(lg) \in T
      BY <2>1, <2>4
    <3> QED
      BY <3>1
  <2> QED
    BY <2>1, <2>5 DEF ToSet
<1>2. Inv /\ AgreeInv => AgreementAtRest
  BY <1>1 DEF AgreementAtRest
<1> QED
  BY <1>2, AgreeAlways, PTL

\* And all that its own user has sent.
THEOREM ValidityAtRestHolds == Spec => []ValidityAtRest
<1>1. ASSUME Inv, AgreeInv, AtRest, NEW q \in Procs \ crashed
      PROVE  \A c \in 0 .. counter[q] - 1 : <<q, c>> \in ToSet(log[q])
  <2>1. PICK n \in Nat : n = counter[q]
    BY <1>1 DEF Inv, Types
  <2> DEFINE T == {j \in 0 .. n : \A c \in 0 .. j - 1 : <<q, c>> \in ToSet(log[q])}
  <2>2. 0 \in T
    BY <2>1
  <2>3. ASSUME NEW k \in 1 .. n, k - 1 \in T PROVE k \in T
    <3>1. PICK c : c = k - 1 /\ c \in 0 .. counter[q] - 1
      BY <2>1
    <3>2. \A b \in 0 .. c - 1 : <<q, b>> \in ToSet(log[q])
      BY <2>3, <3>1
    <3>3. past[<<q, c>>] \subseteq ToSet(log[q])
      BY <1>1, <3>1, <3>2 DEF AgreeInv, OwnPast
    <3>4. HasCast(q, <<q, c>>)
      BY <1>1, <3>1 DEF AgreeInv, Truthful
    <3>5. <<q, c>> \in ToSet(log[q])
      BY <1>1, <3>3, <3>4, RestIs, HeldLacks
    <3>6. \A b \in 0 .. k - 1 : b = c \/ b \in 0 .. c - 1
      BY <3>1
    <3> QED
      BY <3>2, <3>5, <3>6
  <2>4. 0 .. n \subseteq T
    <3> HIDE DEF T
    <3>1. \A k \in 1 .. n : k - 1 \in T => k \in T
      BY <2>3
    <3> QED
      BY <2>2, <3>1, PrefixInduction
  <2> QED
    BY <2>1, <2>4
<1>2. Inv /\ AgreeInv => ValidityAtRest
  BY <1>1 DEF ValidityAtRest
<1> QED
  BY <1>2, AgreeAlways, PTL

=============================================================================

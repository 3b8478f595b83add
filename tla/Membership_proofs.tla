------------------------- MODULE Membership_proofs -------------------------
(***************************************************************************)
(* Proofs about Membership, for every group and any number of crashes,     *)
(* departures, cuts, lost messages and early timers.                       *)
(***************************************************************************)
EXTENDS Membership, TLAPS

\* Nobody is taken for alive and for suspected or gone at once.
Views == {v \in [active : [Procs -> Nat], suspect : [Procs -> Int]] :
             \A q \in Procs : v.active[q] = 0 \/ v.suspect[q] = 0}

Kinds == {"JOIN", "LEAVE", "JOINREQ", "PING", "ACK"}
Msgs == [type : Kinds, src : Procs, dst : Procs, asker : Procs, target : Procs, view : Views]

\* Nobody writes to himself, and a process that is let in is in the view it gets.
MessageOK(x) ==
    /\ x \in Msgs /\ x.src # x.dst
    /\ x.type = "JOINREQ" => x.view.active[x.dst] # 0

Timers == {"join", "ping", "pingfailed", "pingthroufailed"} \X Procs

TypeOK ==
    /\ joined \subseteq Procs
    /\ view \in [Procs -> Views]
    /\ timers \in [Procs -> SUBSET Timers]
    /\ \A x \in net : MessageOK(x)

\* No process waits for itself.
TimersOK ==
    \A p, q \in Procs :
        /\ <<"join", q>> \in timers[p] => q # p
        /\ <<"pingfailed", q>> \in timers[p] => q # p
        /\ <<"pingthroufailed", q>> \in timers[p] => q # p

\* A view that is not empty holds its own process.
SelfKnown == \A p \in Procs : view[p] # Empty => view[p].active[p] # 0

Inv == TypeOK /\ TimersOK /\ SelfKnown

\* VersionsGrow for one process.
Grows(v, w) ==
    \A q \in Procs :
        /\ Version(w, q) >= Version(v, q)
        /\ v.suspect[q] # 0 /\ w.active[q] # 0 => Version(w, q) > Version(v, q)

Growth ==
    \A p \in Procs :
        p \in joined /\ view[p] # Empty /\ view'[p] # Empty /\ ~Replaced(p) =>
            Grows(view[p], view'[p])

-----------------------------------------------------------------------------
(* Views *)

LEMMA ViewIs ==
    ASSUME NEW a \in [Procs -> Nat], NEW s \in [Procs -> Int],
           \A q \in Procs : a[q] = 0 \/ s[q] = 0
    PROVE  /\ View(a, s) \in Views
           /\ View(a, s).active = a /\ View(a, s).suspect = s
  BY DEF View, Views

LEMMA ViewHas ==
    ASSUME NEW v \in Views
    PROVE  /\ v.active \in [Procs -> Nat] /\ v.suspect \in [Procs -> Int]
           /\ \A q \in Procs :
                 /\ v.active[q] \in Nat /\ v.suspect[q] \in Int
                 /\ v.active[q] = 0 \/ v.suspect[q] = 0
                 /\ Version(v, q) = IF v.active[q] # 0 THEN v.active[q]
                                    ELSE IF v.suspect[q] < 0 THEN -v.suspect[q]
                                    ELSE v.suspect[q]
                 /\ Version(v, q) \in Nat
<1>1. v.active \in [Procs -> Nat] /\ v.suspect \in [Procs -> Int]
  BY DEF Views
<1>2. \A q \in Procs :
         /\ v.active[q] \in Nat /\ v.suspect[q] \in Int
         /\ v.active[q] = 0 \/ v.suspect[q] = 0
  BY <1>1 DEF Views
<1> QED
  BY <1>1, <1>2 DEF Version, Abs

LEMMA EmptyIs ==
    /\ Empty \in Views /\ Empty.active = Nobody /\ Empty.suspect = Nobody
    /\ \A p \in Procs : Empty.active[p] = 0
<1>1. /\ Nobody \in [Procs -> Nat] /\ Nobody \in [Procs -> Int]
      /\ \A q \in Procs : Nobody[q] = 0
  BY DEF Nobody
<1> QED
  BY <1>1, ViewIs DEF Empty

LEMMA GrowsSelf ==
    ASSUME NEW v \in Views
    PROVE  Grows(v, v)
  BY ViewHas DEF Grows

\* What a process starts from is its view, or itself alone.
LEMMA StartedIs ==
    ASSUME Inv, NEW p \in Procs
    PROVE  /\ Started(p) \in Views /\ Started(p).active[p] # 0
           /\ view[p] # Empty => Started(p) = view[p]
<1>1. view[p] \in Views
  BY DEF Inv, TypeOK
<1>2. [Nobody EXCEPT ![p] = 1] \in [Procs -> Nat] /\ Nobody \in [Procs -> Int]
      /\ [Nobody EXCEPT ![p] = 1][p] = 1 /\ \A q \in Procs : Nobody[q] = 0
  BY DEF Nobody
<1>3. Alone(p) \in Views /\ Alone(p).active[p] # 0
  <2>1. PICK a : a = [Nobody EXCEPT ![p] = 1]
    OBVIOUS
  <2>2. a \in [Procs -> Nat] /\ \A q \in Procs : a[q] = 0 \/ Nobody[q] = 0
    BY <1>2, <2>1
  <2>3. View(a, Nobody) \in Views /\ View(a, Nobody).active = a
    BY <1>2, <2>2, ViewIs
  <2>4. Alone(p) = View(a, Nobody)
    BY <2>1 DEF Alone
  <2>5. a[p] = 1
    BY <1>2, <2>1
  <2> QED
    BY <2>3, <2>4, <2>5
<1>4. view[p] # Empty => view[p].active # Nobody
  BY <1>2 DEF Inv, SelfKnown
<1>5. view[p].active # Nobody => view[p] # Empty
  BY EmptyIs
<1> QED
  BY <1>1, <1>3, <1>4, <1>5 DEF Started, Inv, SelfKnown

LEMMA WelcomeIs ==
    ASSUME NEW v \in Views, NEW q \in Procs
    PROVE  /\ Welcome(v, q) \in Views /\ Welcome(v, q).active[q] # 0
           /\ Grows(v, Welcome(v, q))
           /\ \A p \in Procs : v.active[p] # 0 => Welcome(v, q).active[p] # 0
<1> DEFINE a == [v.active EXCEPT ![q] = Version(v, q) + 1]
           s == [v.suspect EXCEPT ![q] = 0]
<1>1. /\ a \in [Procs -> Nat] /\ s \in [Procs -> Int]
      /\ a[q] = Version(v, q) + 1 /\ s[q] = 0
      /\ \A p \in Procs \ {q} : a[p] = v.active[p] /\ s[p] = v.suspect[p]
      /\ Version(v, q) \in Nat
  BY ViewHas
<1>2. \A p \in Procs : a[p] = 0 \/ s[p] = 0
  BY <1>1, ViewHas
<1> HIDE DEF a, s
<1>3. PICK w \in Views : w = Welcome(v, q) /\ w.active = a /\ w.suspect = s
  BY <1>1, <1>2, ViewIs DEF Welcome, a, s
<1>4. w.active[q] # 0 /\ \A p \in Procs : v.active[p] # 0 => w.active[p] # 0
  BY <1>1, <1>3
<1>5. \A p \in Procs :
         /\ Version(w, p) >= Version(v, p)
         /\ v.suspect[p] # 0 /\ w.active[p] # 0 => Version(w, p) > Version(v, p)
  BY <1>1, <1>3, ViewHas
<1> QED
  BY <1>3, <1>4, <1>5 DEF Grows

LEMMA LeftIs ==
    ASSUME NEW v \in Views, NEW q \in Procs
    PROVE  /\ Left(v, q) \in Views /\ Grows(v, Left(v, q))
           /\ \A p \in Procs \ {q} : Left(v, q).active[p] = v.active[p]
           /\ v = Empty => Left(v, q) = Empty
<1> DEFINE n == IF v.active[q] # 0 THEN -v.active[q] ELSE -Abs(v.suspect[q])
           a == [v.active EXCEPT ![q] = 0]
           s == [v.suspect EXCEPT ![q] = n]
<1>1. n \in Int /\ (IF n < 0 THEN -n ELSE n) = Version(v, q)
  BY ViewHas DEF Abs, Version
<1>2. /\ a \in [Procs -> Nat] /\ s \in [Procs -> Int]
      /\ a[q] = 0 /\ s[q] = n
      /\ \A p \in Procs \ {q} : a[p] = v.active[p] /\ s[p] = v.suspect[p]
  BY <1>1, ViewHas
<1>3. \A p \in Procs : a[p] = 0 \/ s[p] = 0
  BY <1>2, ViewHas
<1>4. Left(v, q) = View(a, s)
  BY DEF Left
<1>5. v = Empty => a = Nobody /\ s = Nobody
  <2>1. v = Empty => v.active = Nobody /\ v.suspect = Nobody /\ n = 0
    BY EmptyIs DEF Nobody, Abs
  <2> QED
    BY <2>1 DEF Nobody
<1> HIDE DEF a, s, n
<1>6. PICK w \in Views : w = Left(v, q) /\ w.active = a /\ w.suspect = s
  BY <1>2, <1>3, <1>4, ViewIs
<1>7. \A p \in Procs :
         /\ Version(w, p) >= Version(v, p)
         /\ v.suspect[p] # 0 /\ w.active[p] # 0 => Version(w, p) > Version(v, p)
  BY <1>1, <1>2, <1>6, ViewHas
<1> QED
  BY <1>2, <1>4, <1>5, <1>6, <1>7 DEF Grows, Empty

LEMMA SuspectedIs ==
    ASSUME NEW v \in Views, NEW q \in Procs
    PROVE  /\ Suspected(v, q) \in Views /\ Grows(v, Suspected(v, q))
           /\ \A p \in Procs \ {q} : Suspected(v, q).active[p] = v.active[p]
           /\ v = Empty => Suspected(v, q) = Empty
<1>1. CASE v.active[q] = 0
  BY <1>1, GrowsSelf DEF Suspected
<1>2. CASE v.active[q] # 0
  <2> DEFINE a == [v.active EXCEPT ![q] = 0]
             s == [v.suspect EXCEPT ![q] = v.active[q]]
  <2>1. /\ a \in [Procs -> Nat] /\ s \in [Procs -> Int]
        /\ a[q] = 0 /\ s[q] = v.active[q]
        /\ \A p \in Procs \ {q} : a[p] = v.active[p] /\ s[p] = v.suspect[p]
    BY ViewHas
  <2>2. \A p \in Procs : a[p] = 0 \/ s[p] = 0
    BY <2>1, ViewHas
  <2>3. Suspected(v, q) = View(a, s)
    BY <1>2 DEF Suspected
  <2> HIDE DEF a, s
  <2>4. PICK w \in Views : w = Suspected(v, q) /\ w.active = a /\ w.suspect = s
    BY <2>1, <2>2, <2>3, ViewIs
  <2>5. \A p \in Procs :
           /\ Version(w, p) >= Version(v, p)
           /\ v.suspect[p] # 0 /\ w.active[p] # 0 => Version(w, p) > Version(v, p)
    <3>1. /\ v.active[q] \in Nat /\ v.active[q] # 0 /\ Version(v, q) = v.active[q]
          /\ w.active[q] = 0 /\ Version(w, q) = w.suspect[q]
          /\ w.suspect[q] = v.active[q]
      BY <1>2, <2>1, <2>4, ViewHas
    <3>2. \A p \in Procs \ {q} :
             /\ w.active[p] = v.active[p] /\ w.suspect[p] = v.suspect[p]
             /\ Version(w, p) = Version(v, p) /\ Version(v, p) \in Nat
      BY <2>1, <2>4, ViewHas
    <3> QED
      BY <3>1, <3>2, ViewHas
  <2>6. v # Empty
    BY <1>2, EmptyIs
  <2> QED
    BY <2>1, <2>4, <2>5, <2>6 DEF Grows
<1> QED
  BY <1>1, <1>2

-----------------------------------------------------------------------------
(* Merging *)

\* What merging promises for one id of which <<a, t>> was known.
Merged(a, t, r) ==
    /\ r[1] \in Nat /\ r[2] \in Int
    /\ r[1] = 0 \/ r[2] = 0
    /\ r[1] + Abs(r[2]) >= a + Abs(t)
    /\ t # 0 /\ r[1] # 0 => r[1] + Abs(r[2]) > a + Abs(t)

LEMMA MergeSuspectIs ==
    ASSUME NEW a \in Nat, NEW t \in Int, a = 0 \/ t = 0, NEW n \in Int, NEW own \in BOOLEAN
    PROVE  \E b \in Nat, u \in Int :
              /\ MergeSuspect(own, <<a, t>>, n) = <<b, u>>
              /\ b = 0 \/ u = 0
              /\ b + Abs(u) >= a + Abs(t)
              /\ t # 0 => b = 0
              /\ own /\ a # 0 => b = a
<1>1. MergeSuspect(own, <<a, t>>, n) =
          IF n # 0 /\ a # 0 /\ a <= Abs(n) /\ ~own THEN <<0, n>>
          ELSE IF t # 0 /\ Abs(t) < Abs(n) THEN <<a, n>>
          ELSE IF <<a, t>> = <<0, 0>> /\ n > 0 THEN <<0, n>>
          ELSE <<a, t>>
  BY DEF MergeSuspect
<1>2. CASE n # 0 /\ a # 0 /\ a <= Abs(n) /\ ~own
  <2> WITNESS 0 \in Nat, n \in Int
  <2> QED
    BY <1>1, <1>2 DEF Abs
<1>3. CASE ~(n # 0 /\ a # 0 /\ a <= Abs(n) /\ ~own) /\ t # 0 /\ Abs(t) < Abs(n)
  <2> WITNESS a \in Nat, n \in Int
  <2> QED
    BY <1>1, <1>3 DEF Abs
<1>4. CASE /\ ~(n # 0 /\ a # 0 /\ a <= Abs(n) /\ ~own) /\ ~(t # 0 /\ Abs(t) < Abs(n))
           /\ <<a, t>> = <<0, 0>> /\ n > 0
  <2> WITNESS 0 \in Nat, n \in Int
  <2> QED
    BY <1>1, <1>4 DEF Abs
<1>5. CASE /\ ~(n # 0 /\ a # 0 /\ a <= Abs(n) /\ ~own) /\ ~(t # 0 /\ Abs(t) < Abs(n))
           /\ ~(<<a, t>> = <<0, 0>> /\ n > 0)
  <2> WITNESS a \in Nat, t \in Int
  <2> QED
    BY <1>1, <1>5 DEF Abs
<1> QED
  BY <1>2, <1>3, <1>4, <1>5

LEMMA MergeActiveIs ==
    ASSUME NEW b \in Nat, NEW u \in Int, b = 0 \/ u = 0, NEW n \in Nat
    PROVE  \E c \in Nat, w \in Int :
              /\ MergeActive(<<b, u>>, n) = <<c, w>>
              /\ c = 0 \/ w = 0
              /\ c + Abs(w) >= b + Abs(u)
              /\ b = 0 /\ c # 0 => c + Abs(w) > b + Abs(u)
              /\ b # 0 => c # 0
<1>1. MergeActive(<<b, u>>, n) =
          IF n = 0 \/ (<<b, u>> # <<0, 0>> /\ b + Abs(u) >= n) THEN <<b, u>> ELSE <<n, 0>>
  BY DEF MergeActive
<1>2. CASE n = 0 \/ (<<b, u>> # <<0, 0>> /\ b + Abs(u) >= n)
  <2> WITNESS b \in Nat, u \in Int
  <2> QED
    BY <1>1, <1>2 DEF Abs
<1>3. CASE ~(n = 0 \/ (<<b, u>> # <<0, 0>> /\ b + Abs(u) >= n))
  <2> WITNESS n \in Nat, 0 \in Int
  <2> QED
    BY <1>1, <1>3 DEF Abs
<1> QED
  BY <1>2, <1>3

LEMMA MergeIs ==
    ASSUME Inv, NEW p \in Procs, NEW v \in Views
    PROVE  /\ Merge(p, v) \in Views /\ Merge(p, v).active[p] # 0
           /\ view[p] # Empty => Grows(view[p], Merge(p, v))
<1> DEFINE known(q) == <<Started(p).active[q] + Raise(p, v, q), Started(p).suspect[q]>>
           one(q) == MergeActive(MergeSuspect(q = p, known(q), v.suspect[q]), v.active[q])
           merged == [q \in Procs |-> one(q)]
           a == [q \in Procs |-> merged[q][1]]
           s == [q \in Procs |-> merged[q][2]]
<1>1. Merge(p, v) = View(a, s)
  BY DEF Merge
<1>2. PICK mine \in Views : mine = Started(p)
  BY StartedIs
<1>3. ASSUME NEW q \in Procs
      PROVE  /\ a[q] \in Nat /\ s[q] \in Int
             /\ a[q] = 0 \/ s[q] = 0
             /\ a[q] + Abs(s[q]) >= mine.active[q] + Abs(mine.suspect[q])
             /\ mine.suspect[q] # 0 /\ a[q] # 0 =>
                    a[q] + Abs(s[q]) > mine.active[q] + Abs(mine.suspect[q])
             /\ q = p => a[q] # 0
  <2>1. PICK x \in Nat, t \in Int, r \in {0, 1} :
           /\ x = mine.active[q] /\ t = mine.suspect[q] /\ r = Raise(p, v, q)
           /\ x = 0 \/ t = 0
           /\ r = 1 => q = p
           /\ q = p => x # 0
    BY <1>2, ViewHas, StartedIs DEF Raise
  <2>2. PICK own \in BOOLEAN, n \in Int, k \in Nat :
           own = (q = p) /\ n = v.suspect[q] /\ k = v.active[q]
    BY ViewHas
  <2>3. x + r \in Nat /\ (x + r = 0 \/ t = 0)
    BY <2>1
  <2>4. PICK b \in Nat, u \in Int :
           /\ MergeSuspect(own, <<x + r, t>>, n) = <<b, u>>
           /\ b = 0 \/ u = 0
           /\ b + Abs(u) >= x + r + Abs(t)
           /\ t # 0 => b = 0
           /\ own /\ x + r # 0 => b = x + r
    BY <2>3, MergeSuspectIs
  <2>5. PICK c \in Nat, w \in Int :
           /\ MergeActive(<<b, u>>, k) = <<c, w>>
           /\ c = 0 \/ w = 0
           /\ c + Abs(w) >= b + Abs(u)
           /\ b = 0 /\ c # 0 => c + Abs(w) > b + Abs(u)
           /\ b # 0 => c # 0
    BY <2>4, MergeActiveIs
  <2>6. a[q] = c /\ s[q] = w
    <3>1. one(q) = MergeActive(MergeSuspect(own, <<x + r, t>>, n), k)
      BY <1>2, <2>1, <2>2
    <3>2. merged[q] = <<c, w>>
      BY <2>4, <2>5, <3>1
    <3> HIDE DEF merged
    <3> QED
      BY <3>2
  <2>7. Abs(t) \in Nat /\ Abs(u) \in Nat /\ Abs(w) \in Nat
    BY DEF Abs
  <2>8. own => c # 0
    <3>1. own => q = p
      BY <2>2, Zenon
    <3>2. x # 0 => x + r # 0
      OBVIOUS
    <3>3. q = p => x # 0
      BY <2>1
    <3>4. own => b # 0
      BY <2>4, <3>1, <3>2, <3>3
    <3> QED
      BY <2>5, <3>4
  <2>9. c + Abs(w) >= x + Abs(t)
    BY <2>1, <2>4, <2>5, <2>7
  <2>10. t # 0 /\ c # 0 => c + Abs(w) > x + Abs(t)
    BY <2>1, <2>4, <2>5, <2>7
  <2> HIDE DEF a, s
  <2> QED
    BY <2>1, <2>2, <2>5, <2>6, <2>8, <2>9, <2>10
<1> HIDE DEF a, s
<1>4. a \in [Procs -> Nat] /\ s \in [Procs -> Int]
  BY <1>3 DEF a, s
<1>5. /\ View(a, s) \in Views
      /\ View(a, s).active = a /\ View(a, s).suspect = s
  BY <1>3, <1>4, ViewIs
<1>6. Grows(mine, View(a, s))
  BY <1>3, <1>5 DEF Grows, Version
<1> QED
  BY <1>1, <1>2, <1>3, <1>5, <1>6, StartedIs

-----------------------------------------------------------------------------
(* What a step changes *)

LEMMA InitInv ==
    Init => Inv
<1> SUFFICES ASSUME Init PROVE Inv
  OBVIOUS
<1>1. \A p \in Procs : view[p] = Empty
  BY DEF Init
<1>2. view \in [Procs -> Views]
  BY EmptyIs DEF Init
<1>3. timers \in [Procs -> SUBSET Timers] /\ TimersOK
  BY DEF Init, TimersOK
<1> QED
  BY <1>1, <1>2, <1>3 DEF Init, Inv, TypeOK, SelfKnown

LEMMA MessageIs ==
    ASSUME NEW type \in Kinds, NEW src \in Procs, NEW dst \in Procs, NEW asker \in Procs,
           NEW target \in Procs, NEW v \in Views, src # dst,
           type = "JOINREQ" => v.active[dst] # 0
    PROVE  MessageOK(Message(type, src, dst, asker, target, v))
  BY DEF MessageOK, Message, Msgs

LEMMA MessageHas ==
    ASSUME NEW m, MessageOK(m)
    PROVE  /\ m.type \in Kinds /\ m.src \in Procs /\ m.dst \in Procs /\ m.asker \in Procs
           /\ m.target \in Procs /\ m.view \in Views /\ m.src # m.dst
           /\ m.type = "JOINREQ" => m.view.active[m.dst] # 0
  BY DEF MessageOK, Msgs

\* Only what is sent is new under way.
NetOK == \A x \in net : MessageOK(x)

LEMMA SendIs ==
    ASSUME NetOK, NEW ms, \A x \in ms : MessageOK(x),
           Send(ms) \/ \E m \in net : Reply(m, ms)
    PROVE  NetOK'
<1>1. net' \subseteq net \cup ms
  BY DEF Send, Reply, Sent
<1> QED
  BY <1>1 DEF NetOK, MessageOK

\* One process gets another view.
LEMMA ViewStep ==
    ASSUME Inv, NEW p \in Procs, NEW w \in Views, view' = [view EXCEPT ![p] = w],
           w # Empty => w.active[p] # 0,
           p \in joined /\ view[p] # Empty /\ w # Empty /\ ~Replaced(p) => Grows(view[p], w)
    PROVE  view' \in [Procs -> Views] /\ SelfKnown' /\ Growth
<1>1. view'[p] = w /\ \A q \in Procs \ {p} : view'[q] = view[q]
  BY DEF Inv, TypeOK
<1>2. view' \in [Procs -> Views] /\ \A q \in Procs : view[q] \in Views
  BY DEF Inv, TypeOK
<1>3. SelfKnown'
  BY <1>1 DEF Inv, SelfKnown, Empty, View, Nobody
<1>4. Growth
  BY <1>1, <1>2, GrowsSelf DEF Growth
<1> QED
  BY <1>2, <1>3, <1>4

\* Nobody does.
LEMMA NoViewStep ==
    ASSUME Inv, view' = view
    PROVE  view' \in [Procs -> Views] /\ SelfKnown' /\ Growth
<1>1. view' \in [Procs -> Views] /\ \A q \in Procs : view[q] \in Views
  BY DEF Inv, TypeOK
<1>2. SelfKnown'
  BY DEF Inv, SelfKnown, Empty, View, Nobody
<1>3. Growth
  BY <1>1, GrowsSelf DEF Growth
<1> QED
  BY <1>1, <1>2, <1>3

TimersTyped == timers \in [Procs -> SUBSET Timers] /\ TimersOK

\* Timers are only dropped, at one process.
LEMMA TimersDrop ==
    ASSUME Inv, NEW p \in Procs, NEW T,
           timers' = [timers EXCEPT ![p] = @ \ T] \/ timers' = timers
    PROVE  TimersTyped'
<1>1. \A q \in Procs : timers'[q] \subseteq timers[q]
  BY DEF Inv, TypeOK
<1>2. timers' \in [Procs -> SUBSET Timers]
  BY DEF Inv, TypeOK
<1>3. TimersOK'
  BY <1>1 DEF Inv, TimersOK
<1> QED
  BY <1>2, <1>3 DEF TimersTyped

LEMMA TimersKept ==
    ASSUME Inv, timers' = timers
    PROVE  TimersTyped'
  BY DEF Inv, TypeOK, TimersTyped, TimersOK

LEMMA TimersAdd ==
    ASSUME Inv, NEW p \in Procs, NEW T, NEW U \in SUBSET Timers,
           timers' = [timers EXCEPT ![p] = (@ \ T) \cup U],
           \A q \in Procs :
               /\ <<"join", q>> \in U => q # p
               /\ <<"pingfailed", q>> \in U => q # p
               /\ <<"pingthroufailed", q>> \in U => q # p
    PROVE  TimersTyped'
<1>1. /\ timers'[p] \subseteq timers[p] \cup U
      /\ \A q \in Procs \ {p} : timers'[q] = timers[q]
  BY DEF Inv, TypeOK
<1>2. timers' \in [Procs -> SUBSET Timers]
  BY DEF Inv, TypeOK
<1>3. TimersOK'
  BY <1>1 DEF Inv, TimersOK
<1> QED
  BY <1>2, <1>3 DEF TimersTyped

LEMMA InvIs ==
    Inv <=> /\ joined \subseteq Procs /\ view \in [Procs -> Views] /\ TimersTyped
            /\ NetOK /\ SelfKnown
  BY DEF Inv, TypeOK, NetOK, TimersTyped

-----------------------------------------------------------------------------
(* The user and the environment *)

LEMMA JoinStep ==
    ASSUME Inv, NEW p \in Procs, NEW s \in Procs, OnLocalJoin(p, s)
    PROVE  Inv' /\ Growth
<1>1. joined' \subseteq Procs /\ p \notin joined
  BY DEF OnLocalJoin, Inv, TypeOK
<1>2. PICK w : w = IF p = s THEN Alone(p) ELSE Empty
  OBVIOUS
<1>3. Alone(p) \in Views /\ Alone(p).active[p] # 0
  <2>1. PICK a : a = [Nobody EXCEPT ![p] = 1]
    OBVIOUS
  <2>2. /\ a \in [Procs -> Nat] /\ Nobody \in [Procs -> Int] /\ a[p] = 1
        /\ \A q \in Procs : a[q] = 0 \/ Nobody[q] = 0
    BY <2>1 DEF Nobody
  <2>3. View(a, Nobody) \in Views /\ View(a, Nobody).active = a
    BY <2>2, ViewIs
  <2>4. Alone(p) = View(a, Nobody)
    BY <2>1 DEF Alone
  <2> QED
    BY <2>2, <2>3, <2>4
<1>4. view' = [view EXCEPT ![p] = w] /\ w \in Views /\ (w # Empty => w.active[p] # 0)
  BY <1>2, <1>3, EmptyIs DEF OnLocalJoin
<1>5. view' \in [Procs -> Views] /\ SelfKnown' /\ Growth
  BY <1>1, <1>4, ViewStep
<1>6. TimersTyped'
  <2>1. PICK U : U = {<<"ping", p>>} \cup (IF p = s THEN {} ELSE {<<"join", s>>})
    OBVIOUS
  <2>2. U \in SUBSET Timers
    BY <2>1 DEF Timers
  <2>3. timers' = [timers EXCEPT ![p] = (@ \ {}) \cup U]
    BY <2>1 DEF OnLocalJoin
  <2>4. \A q \in Procs : /\ <<"join", q>> \in U => q # p
                         /\ <<"pingfailed", q>> \notin U /\ <<"pingthroufailed", q>> \notin U
    BY <2>1
  <2> QED
    BY <2>2, <2>3, <2>4, TimersAdd
<1>7. NetOK'
  <2>1. p # s => MessageOK(Join(p, s))
    BY EmptyIs, MessageIs DEF Join, Kinds
  <2> QED
    BY <2>1, SendIs, InvIs DEF OnLocalJoin
<1> QED
  BY <1>1, <1>5, <1>6, <1>7, InvIs DEF Inv, TypeOK, NetOK, TimersTyped

\* One member's view is replaced by another of his, and he may become a member by it.
LEMMA MemberStep ==
    ASSUME Inv, NEW p \in Procs, NEW w \in Views, view' = [view EXCEPT ![p] = w],
           w # Empty => w.active[p] # 0,
           view[p] # Empty /\ w # Empty /\ ~Replaced(p) => Grows(view[p], w),
           joined' \in {joined, joined \cup {p}},
           TimersTyped', NetOK'
    PROVE  Inv' /\ Growth
<1>1. view' \in [Procs -> Views] /\ SelfKnown' /\ Growth
  BY ViewStep
<1>2. joined' \subseteq Procs
  BY DEF Inv, TypeOK
<1> QED
  BY <1>1, <1>2 DEF Inv, TypeOK, NetOK, TimersTyped

\* No view changes, and nobody stops being a member.
LEMMA OtherStep ==
    ASSUME Inv, view' = view, joined' = joined, TimersTyped', NetOK'
    PROVE  Inv' /\ Growth
<1>1. view' \in [Procs -> Views] /\ SelfKnown' /\ Growth
  BY NoViewStep
<1>2. joined' \subseteq Procs
  BY DEF Inv, TypeOK
<1> QED
  BY <1>1, <1>2 DEF Inv, TypeOK, NetOK, TimersTyped

\* A process loses its view.
LEMMA EmptyStep ==
    ASSUME Inv, NEW p \in Procs, view' = [view EXCEPT ![p] = Empty], joined' = joined \ {p},
           TimersTyped', NetOK'
    PROVE  Inv' /\ Growth
<1>1. view' \in [Procs -> Views] /\ SelfKnown' /\ Growth
  BY EmptyIs, ViewStep
<1>2. joined' \subseteq Procs
  BY DEF Inv, TypeOK
<1> QED
  BY <1>1, <1>2 DEF Inv, TypeOK, NetOK, TimersTyped

LEMMA LeaveStep ==
    ASSUME Inv, NEW p \in Procs, NEW q \in Procs, OnLocalLeave(p, q)
    PROVE  Inv' /\ Growth
<1>1. p # q => MessageOK(Leave(p, q))
  BY EmptyIs, MessageIs DEF Leave, Kinds
<1>2. NetOK'
  BY <1>1, SendIs, InvIs DEF OnLocalLeave
<1>3. TimersTyped'
  BY TimersDrop DEF OnLocalLeave
<1> QED
  BY <1>2, <1>3, EmptyStep DEF OnLocalLeave

LEMMA CrashStep ==
    ASSUME Inv, NEW p \in Procs, Crash(p)
    PROVE  Inv' /\ Growth
<1>1. NetOK'
  BY InvIs DEF Crash, NetOK, MessageOK
<1>2. TimersTyped'
  <2>1. timers' = [timers EXCEPT ![p] = @ \ timers[p]]
    BY DEF Crash, Inv, TypeOK
  <2> QED
    BY <2>1, TimersDrop
<1> QED
  BY <1>1, <1>2, EmptyStep DEF Crash

LEMMA EnvironmentStep ==
    ASSUME Inv,
           \/ UNCHANGED vars
           \/ \E p \in Procs : Recover(p) \/ Disconnect(p) \/ Connect(p)
           \/ \E m \in net : Lose(m)
    PROVE  Inv' /\ Growth
<1>1. view' = view /\ joined' = joined /\ timers' = timers /\ net' \subseteq net
  BY DEF vars, Recover, Disconnect, Connect, Lose
<1>2. NetOK'
  BY <1>1, InvIs DEF NetOK, MessageOK
<1>3. TimersTyped'
  BY <1>1, TimersKept
<1> QED
  BY <1>1, <1>2, <1>3, OtherStep

-----------------------------------------------------------------------------
(* Messages *)

LEMMA OnJoinStep ==
    ASSUME Inv, NEW m \in net, OnJoin(m)
    PROVE  Inv' /\ Growth
<1>1. MessageOK(m)
  BY DEF Inv, TypeOK
<1>2. PICK p \in Procs, q \in Procs : p = m.dst /\ q = m.src /\ p # q
  BY <1>1, MessageHas DEF OnJoin
<1>3. PICK w \in Views : w = Welcome(Started(p), q)
  BY StartedIs, WelcomeIs
<1>4. w.active[p] # 0 /\ w.active[q] # 0 /\ (view[p] # Empty => Grows(view[p], w))
  BY <1>3, StartedIs, WelcomeIs
<1>5. view' = [view EXCEPT ![p] = w]
  BY <1>2, <1>3 DEF OnJoin
<1>6. joined' \in {joined, joined \cup {p}}
  BY <1>2 DEF OnJoin
<1>7. NetOK'
  <2>1. MessageOK(Message("JOINREQ", p, q, q, p, w))
    BY <1>2, <1>4, MessageIs DEF Kinds
  <2> QED
    BY <1>2, <1>3, <2>1, SendIs, InvIs DEF OnJoin
<1>8. TimersTyped'
  BY <1>2, TimersDrop DEF OnJoin
<1> QED
  BY <1>4, <1>5, <1>6, <1>7, <1>8, MemberStep

LEMMA OnLeaveStep ==
    ASSUME Inv, NEW m \in net, OnLeave(m)
    PROVE  Inv' /\ Growth
<1>1. MessageOK(m)
  BY DEF Inv, TypeOK
<1>2. PICK p \in Procs, q \in Procs : p = m.dst /\ q = m.src /\ p # q
  BY <1>1, MessageHas
<1>3. view[p] \in Views
  BY DEF Inv, TypeOK
<1>4. PICK w \in Views : w = Left(view[p], q)
  BY <1>3, LeftIs
<1>5. /\ w # Empty => w.active[p] # 0
      /\ Grows(view[p], w)
  <2>1. view[p] = Empty => w = Empty
    BY <1>3, <1>4, LeftIs
  <2>2. w.active[p] = view[p].active[p]
    BY <1>2, <1>3, <1>4, LeftIs
  <2> QED
    BY <1>3, <1>4, <2>1, <2>2, LeftIs DEF Inv, SelfKnown
<1>6. view' = [view EXCEPT ![p] = w] /\ joined' = joined
  BY <1>2, <1>4 DEF OnLeave
<1>7. NetOK'
  BY SendIs, InvIs DEF OnLeave
<1>8. TimersTyped'
  BY <1>2, TimersDrop DEF OnLeave
<1> QED
  BY <1>5, <1>6, <1>7, <1>8, MemberStep

LEMMA OnJoinReqStep ==
    ASSUME Inv, NEW m \in net, OnJoinReq(m)
    PROVE  Inv' /\ Growth
<1>1. MessageOK(m)
  BY DEF Inv, TypeOK
<1>2. PICK p \in Procs : p = m.dst
  BY <1>1, MessageHas DEF OnJoinReq
<1>3. PICK w \in Views : w = m.view /\ w.active[p] # 0
  BY <1>1, <1>2, MessageHas DEF OnJoinReq
<1>4. Replaced(p)
  BY <1>2 DEF OnJoinReq, Reply, Replaced, Sent
<1>5. view' = [view EXCEPT ![p] = w] /\ joined' = joined
  BY <1>2, <1>3 DEF OnJoinReq
<1>6. NetOK'
  BY SendIs, InvIs DEF OnJoinReq
<1>7. TimersTyped'
  BY <1>2, TimersDrop DEF OnJoinReq
<1> QED
  BY <1>2, <1>3, <1>4, <1>5, <1>6, <1>7, MemberStep

LEMMA RefuseStep ==
    ASSUME Inv, NEW m \in net, Refuse(m)
    PROVE  Inv' /\ Growth
<1>1. MessageOK(m)
  BY DEF Inv, TypeOK
<1>2. MessageOK(Leave(m.dst, m.src))
  BY <1>1, EmptyIs, MessageHas, MessageIs DEF Leave, Kinds
<1>3. NetOK'
  BY <1>2, SendIs, InvIs DEF Refuse
<1>4. TimersTyped'
  BY TimersKept DEF Refuse
<1> QED
  BY <1>3, <1>4, OtherStep DEF Refuse

\* What a member gets with a PING or an ACK is merged.
LEMMA MergeStep ==
    ASSUME Inv, NEW p \in joined, NEW v \in Views,
           view' = [view EXCEPT ![p] = Merge(p, v)], joined' = joined,
           TimersTyped', NetOK'
    PROVE  Inv' /\ Growth
<1>1. p \in Procs
  BY DEF Inv, TypeOK
<1>2. PICK w \in Views : w = Merge(p, v)
  BY <1>1, MergeIs
<1>3. w.active[p] # 0 /\ (view[p] # Empty => Grows(view[p], w))
  BY <1>1, <1>2, MergeIs
<1>4. view' = [view EXCEPT ![p] = w]
  BY <1>2
<1> QED
  BY <1>1, <1>3, <1>4, MemberStep

LEMMA OnPingStep ==
    ASSUME Inv, NEW m \in net, OnPing(m)
    PROVE  Inv' /\ Growth
<1>1. MessageOK(m) /\ m.type = "PING"
  BY DEF Inv, TypeOK, OnPing
<1>2. PICK p \in Procs : p = m.dst
  BY <1>1, MessageHas
<1>3. CASE p \notin joined
  BY <1>2, <1>3, RefuseStep DEF OnPing
<1>4. CASE p \in joined
  <2>1. PICK w \in Views : w = Merge(p, m.view)
    BY <1>1, MessageHas, MergeIs
  <2>2. m.target = p => MessageOK(Message("ACK", p, m.src, m.asker, p, w))
    BY <1>1, <1>2, MessageHas, MessageIs DEF Kinds
  <2>3. m.target # p => MessageOK(Forward(m, m.target))
    BY <1>1, <1>2, MessageHas, MessageIs DEF Forward
  <2>4. /\ view' = [view EXCEPT ![p] = Merge(p, m.view)]
        /\ Reply(m, {IF m.target = p THEN Message("ACK", p, m.src, m.asker, p, w)
                                     ELSE Forward(m, m.target)})
        /\ UNCHANGED <<joined, timers>>
    BY <1>2, <1>4, <2>1 DEF OnPing
  <2>5. NetOK'
    BY <2>2, <2>3, <2>4, SendIs, InvIs
  <2>6. TimersTyped'
    BY <2>4, TimersDrop
  <2> QED
    BY <1>1, <1>4, <2>4, <2>5, <2>6, MessageHas, MergeStep
<1> QED
  BY <1>3, <1>4

LEMMA OnAckStep ==
    ASSUME Inv, NEW m \in net, OnAck(m)
    PROVE  Inv' /\ Growth
<1>1. MessageOK(m) /\ m.type = "ACK"
  BY DEF Inv, TypeOK, OnAck
<1>2. PICK p \in Procs : p = m.dst
  BY <1>1, MessageHas
<1>3. CASE p \notin joined \/ m.src \notin Active(view[p]) \cup Suspect(view[p])
  BY <1>2, <1>3, RefuseStep DEF OnAck
<1>4. CASE ~(p \notin joined \/ m.src \notin Active(view[p]) \cup Suspect(view[p]))
  <2>1. /\ view' = [view EXCEPT ![p] = Merge(p, m.view)]
        /\ IF m.asker = p
           THEN timers' = [timers EXCEPT ![p] = @ \ Answered(m)] /\ Reply(m, {})
           ELSE UNCHANGED timers /\ Reply(m, {Forward(m, m.asker)})
        /\ joined' = joined
    BY <1>2, <1>4 DEF OnAck
  <2>2. m.asker # p => MessageOK(Forward(m, m.asker))
    BY <1>1, <1>2, MessageHas, MessageIs DEF Forward
  <2>3. NetOK'
    BY <2>1, <2>2, SendIs, InvIs
  <2>4. TimersTyped'
    BY <2>1, TimersDrop
  <2> QED
    BY <1>1, <1>4, <2>1, <2>3, <2>4, MessageHas, MergeStep
<1> QED
  BY <1>3, <1>4

-----------------------------------------------------------------------------
(* Timers *)

LEMMA ChoicesAre ==
    ASSUME NEW p \in Procs
    PROVE  RandomActive(p) \subseteq Procs /\ RandomSuspect(p) \subseteq Procs
  BY DEF RandomActive, RandomSuspect, Active, Suspect

LEMMA PingIs ==
    ASSUME Inv, NEW p \in Procs, NEW r \in Procs \ {p}, NEW q \in Procs
    PROVE  MessageOK(Ping(p, r, q, view[p]))
<1>1. view[p] \in Views
  BY DEF Inv, TypeOK
<1> QED
  BY <1>1, MessageIs DEF Ping, Kinds

LEMMA JoinTimerStep ==
    ASSUME Inv, NEW p \in Procs, NEW s \in Procs, OnJoinTimer(p, s)
    PROVE  Inv' /\ Growth
<1>1. s # p
  BY DEF OnJoinTimer, Due, Inv, TimersOK
<1>2. MessageOK(Join(p, s))
  BY <1>1, EmptyIs, MessageIs DEF Join, Kinds
<1>3. NetOK'
  <2>1. UNCHANGED net \/ Send({Join(p, s)})
    BY DEF OnJoinTimer
  <2>2. CASE UNCHANGED net
    BY <2>2, InvIs DEF NetOK, MessageOK
  <2> QED
    BY <1>2, <2>1, <2>2, SendIs, InvIs
<1>4. TimersTyped'
  BY TimersDrop DEF OnJoinTimer
<1> QED
  BY <1>3, <1>4, OtherStep DEF OnJoinTimer

LEMMA PingTimerStep ==
    ASSUME Inv, NEW p \in Procs, NEW q \in Procs, NEW s \in Procs, OnPingTimer(p, q, s)
    PROVE  Inv' /\ Growth
<1>1. PICK R \in SUBSET (Procs \ {p}) : Send({Ping(p, r, r, view[p]) : r \in R})
  BY DEF OnPingTimer
<1>2. \A x \in {Ping(p, r, r, view[p]) : r \in R} : MessageOK(x)
  BY PingIs
<1>3. NetOK'
  BY <1>1, <1>2, SendIs, InvIs
<1>4. TimersTyped'
  <2>1. PICK U : U = {<<"pingfailed", q>>} \ {<<"pingfailed", p>>}
    OBVIOUS
  <2>2. U \in SUBSET Timers
    BY <2>1 DEF Timers
  <2>3. timers' = [timers EXCEPT ![p] = (@ \ {}) \cup U]
    BY <2>1 DEF OnPingTimer
  <2>4. \A r \in Procs : /\ <<"pingfailed", r>> \in U => r # p
                         /\ <<"join", r>> \notin U /\ <<"pingthroufailed", r>> \notin U
    BY <2>1
  <2> QED
    BY <2>2, <2>3, <2>4, TimersAdd
<1> QED
  BY <1>3, <1>4, OtherStep DEF OnPingTimer

LEMMA PingFailedStep ==
    ASSUME Inv, NEW p \in Procs, NEW q \in Procs, NEW relays \in SUBSET Procs,
           OnPingFailed(p, q, relays)
    PROVE  Inv' /\ Growth
<1>1. q # p
  BY DEF OnPingFailed, Due, Inv, TimersOK
<1>2. \A x \in {Ping(p, r, q, view[p]) : r \in relays \ {p}} : MessageOK(x)
  BY PingIs
<1>3. NetOK'
  BY <1>2, SendIs, InvIs DEF OnPingFailed
<1>4. TimersTyped'
  <2>1. {<<"pingthroufailed", q>>} \in SUBSET Timers
    BY DEF Timers
  <2> QED
    BY <1>1, <2>1, TimersAdd DEF OnPingFailed
<1> QED
  BY <1>3, <1>4, OtherStep DEF OnPingFailed

LEMMA PingThrouFailedStep ==
    ASSUME Inv, NEW p \in Procs, NEW q \in Procs, OnPingThrouFailed(p, q)
    PROVE  Inv' /\ Growth
<1>1. q # p
  BY DEF OnPingThrouFailed, Due, Inv, TimersOK
<1>2. view[p] \in Views
  BY DEF Inv, TypeOK
<1>3. PICK w \in Views : w = Suspected(view[p], q)
  BY <1>2, SuspectedIs
<1>4. /\ w # Empty => w.active[p] # 0
      /\ Grows(view[p], w)
  <2>1. view[p] = Empty => w = Empty
    BY <1>2, <1>3, SuspectedIs
  <2>2. w.active[p] = view[p].active[p]
    BY <1>1, <1>2, <1>3, SuspectedIs
  <2> QED
    BY <1>2, <1>3, <2>1, <2>2, SuspectedIs DEF Inv, SelfKnown
<1>5. view' = [view EXCEPT ![p] = w] /\ joined' = joined /\ net' = net
  BY <1>3 DEF OnPingThrouFailed
<1>6. NetOK'
  BY <1>5, InvIs DEF NetOK, MessageOK
<1>7. TimersTyped'
  BY TimersDrop DEF OnPingThrouFailed
<1> QED
  BY <1>4, <1>5, <1>6, <1>7, MemberStep

-----------------------------------------------------------------------------
(* The theorems *)

LEMMA NextStep ==
    Inv /\ [Next]_vars => Inv' /\ Growth
<1> SUFFICES ASSUME Inv, [Next]_vars
             PROVE  Inv' /\ Growth
  OBVIOUS
<1>1. CASE \E p, s \in Procs : OnLocalJoin(p, s)
  BY <1>1, JoinStep
<1>2. CASE \E p, q \in Procs : OnLocalLeave(p, q)
  BY <1>2, LeaveStep
<1>3. CASE \E m \in net : Receive(m)
  BY <1>3, OnJoinStep, OnLeaveStep, OnJoinReqStep, OnPingStep, OnAckStep DEF Receive
<1>4. CASE \E p, q \in Procs : OnJoinTimer(p, q)
  BY <1>4, JoinTimerStep
<1>5. CASE \E p, q, s \in Procs : OnPingTimer(p, q, s)
  BY <1>5, PingTimerStep
<1>6. CASE \E p, q \in Procs, R \in SUBSET Procs : OnPingFailed(p, q, R)
  BY <1>6, PingFailedStep
<1>7. CASE \E p, q \in Procs : OnPingThrouFailed(p, q)
  BY <1>7, PingThrouFailedStep
<1>8. CASE \E p \in Procs : Crash(p)
  BY <1>8, CrashStep
<1>9. CASE \/ UNCHANGED vars
           \/ \E p \in Procs : Recover(p) \/ Disconnect(p) \/ Connect(p)
           \/ \E m \in net : Lose(m)
  BY <1>9, EnvironmentStep
<1> QED
  BY <1>1, <1>2, <1>3, <1>4, <1>5, <1>6, <1>7, <1>8, <1>9 DEF Next

\* Every process that takes part in the group is in its own view, nobody is alive
\* and suspected or gone in one view, and no process waits for an answer of its own.
THEOREM InvHolds == Spec => []Inv
<1>1. Inv /\ [Next]_vars => Inv'
  BY NextStep
<1> QED
  BY InitInv, <1>1, PTL DEF Spec

LEMMA GrowthIs ==
    Inv /\ Growth =>
        \A p, q \in Procs :
            (p \in joined /\ view[p] # Empty /\ view'[p] # Empty /\ ~Replaced(p)) =>
                /\ Version(view'[p], q) >= Version(view[p], q)
                /\ (q \in Suspect(view[p]) /\ q \in Active(view'[p])) =>
                      Version(view'[p], q) > Version(view[p], q)
  BY DEF Growth, Grows, Active, Suspect

\* Views, however old the messages that bring them, never put back what a process
\* knows of another, for every group and any number of disturbances.
THEOREM VersionsGrowHolds == Spec => VersionsGrow
<1>1. Inv /\ [Next]_vars =>
          [\A p, q \in Procs :
              (p \in joined /\ view[p] # Empty /\ view'[p] # Empty /\ ~Replaced(p)) =>
                  /\ Version(view'[p], q) >= Version(view[p], q)
                  /\ (q \in Suspect(view[p]) /\ q \in Active(view'[p])) =>
                        Version(view'[p], q) > Version(view[p], q)]_vars
  BY NextStep, GrowthIs
<1> QED
  BY InvHolds, <1>1, PTL DEF Spec, VersionsGrow

-----------------------------------------------------------------------------
(* No false suspicion *)

Troubles == {"leave", "early", "crash", "cut", "loss", "hasty"}
Calm == ToSet(disturbed) \subseteq {"crash", "hasty"}
Steady == Procs \ Unsteady
Known(v, q) == v.active[q] # 0 \/ v.suspect[q] # 0

\* A view takes nobody steady for suspected, and knows of those only who has joined.
Trusted(v) == \A q \in Steady : v.suspect[q] <= 0 /\ (Known(v, q) => q \in joined)

\* The ping of p to q, or the answer.
Answers(m, p, q) ==
    /\ m.asker = p
    /\ \/ m.type = "PING" /\ m.src = p /\ m.dst = q /\ m.target = q
       \/ m.type = "ACK" /\ m.src = q /\ m.dst = p

\* p will take the answer, for it knows q, and no JOINREQ can make it forget q.
Answering(p, q) ==
    /\ Known(view[p], q)
    /\ \A m \in net : (m.type = "JOIN" => m.src # p) /\ (m.type = "JOINREQ" => m.dst # p)
    /\ \E m \in net : Answers(m, p, q)

Reached ==
    /\ cut = {} /\ Steady \subseteq up
    /\ \A p \in Procs : timers[p] # {} => p \in joined /\ p \in up
ViewsTrusted == \A p \in Procs : Trusted(view[p])
NetTrusted ==
    \A m \in net : Trusted(m.view) /\ (m.type = "JOIN" /\ m.src \in Steady => m.src \in joined)
RoundsAnswered ==
    \A p \in Procs, q \in Steady :
        /\ <<"pingthroufailed", q>> \notin timers[p]
        /\ <<"pingfailed", q>> \in timers[p] => Answering(p, q)

Steadfast == Reached /\ ViewsTrusted /\ NetTrusted /\ RoundsAnswered
CalmInv == disturbed \in Seq(Troubles) /\ (Calm => Steadfast)

LEMMA CalmDisturb ==
    ASSUME disturbed \in Seq(Troubles), NEW what \in Troubles, Disturb(what)
    PROVE  disturbed' \in Seq(Troubles) /\ (Calm' => Calm /\ what \in {"crash", "hasty"})
<1>1. disturbed' = Append(disturbed, what) /\ disturbed' \in Seq(Troubles)
  <2>1. disturbed' = Append(disturbed, what)
    BY DEF Disturb
  <2>. QED BY <2>1
<1>2. /\ Len(disturbed') = Len(disturbed) + 1 /\ disturbed'[Len(disturbed) + 1] = what
      /\ \A i \in 1 .. Len(disturbed) : disturbed'[i] = disturbed[i]
  BY <1>1
<1>3. what \in ToSet(disturbed') /\ ToSet(disturbed) \subseteq ToSet(disturbed')
  <2>1. Len(disturbed) \in Nat /\ DOMAIN disturbed = 1 .. Len(disturbed)
        /\ DOMAIN disturbed' = 1 .. Len(disturbed) + 1
    BY <1>1, <1>2
  <2>2. \A i \in DOMAIN disturbed : i \in DOMAIN disturbed' /\ disturbed'[i] = disturbed[i]
    BY <1>2, <2>1
  <2>3. Len(disturbed) + 1 \in DOMAIN disturbed'
    BY <2>1
  <2>. QED BY <1>2, <2>2, <2>3 DEF ToSet
<1>. QED BY <1>1, <1>3 DEF Calm

\* Timers are in time.
LEMMA CalmDue ==
    ASSUME disturbed \in Seq(Troubles), NEW p, NEW t, Due(p, t)
    PROVE  /\ disturbed' \in Seq(Troubles) /\ (Calm' => Calm /\ Awaited(p) = {})
           /\ t \in timers[p]
<1>1. CASE Awaited(p) = {}
  BY <1>1 DEF Due, DisturbIf, Calm
<1>2. CASE Awaited(p) # {}
  <2>1. Disturb("early") /\ "early" \in Troubles
    BY <1>2 DEF Due, DisturbIf, Troubles
  <2>2. disturbed' \in Seq(Troubles) /\ (Calm' => "early" \in {"crash", "hasty"})
    BY <2>1, CalmDisturb
  <2>. QED BY <2>2 DEF Due
<1>. QED BY <1>1, <1>2

LEMMA CalmBefore ==
    ASSUME disturbed \in Seq(Troubles), [Next]_vars
    PROVE  disturbed' \in Seq(Troubles) /\ (Calm' => Calm)
<1>1. CASE disturbed' = disturbed
  BY <1>1 DEF Calm
<1>2. CASE \E what \in Troubles : Disturb(what)
  BY <1>2, CalmDisturb
<1>3. CASE \E p, t : Due(p, t)
  BY <1>3, CalmDue
<1>4. disturbed' = disturbed \/ (\E what \in Troubles : Disturb(what)) \/ \E p, t : Due(p, t)
  <2>1. CASE \E m \in net : Receive(m)
    BY <2>1 DEF Receive, world
  <2>2. CASE \E p, q \in Procs : OnJoinTimer(p, q)
    BY <2>2 DEF OnJoinTimer
  <2>3. CASE \E p, q, s \in Procs : OnPingTimer(p, q, s)
    BY <2>3 DEF OnPingTimer
  <2>4. CASE \E p, q \in Procs, R \in SUBSET Procs : OnPingFailed(p, q, R)
    BY <2>4 DEF OnPingFailed
  <2>5. CASE \E p, q \in Procs : OnPingThrouFailed(p, q)
    BY <2>5 DEF OnPingThrouFailed
  <2>6. CASE \/ \E p, s \in Procs : OnLocalJoin(p, s)
             \/ \E p \in Procs : Recover(p) \/ Connect(p)
             \/ UNCHANGED vars
    BY <2>6 DEF OnLocalJoin, Recover, Connect, DisturbIf, vars, Troubles
  <2>7. CASE \/ \E p \in Procs : Crash(p) \/ Disconnect(p)
             \/ \E p, q \in Procs : OnLocalLeave(p, q)
             \/ \E m \in net : Lose(m)
    BY <2>7 DEF Crash, Disconnect, OnLocalLeave, Lose, Troubles
  <2>. QED BY <2>1, <2>2, <2>3, <2>4, <2>5, <2>6, <2>7 DEF Next
<1>. QED BY <1>1, <1>2, <1>3, <1>4

-----------------------------------------------------------------------------
(* What is trusted *)

LEMMA TrustStays ==
    ASSUME \A q \in Steady : q \in joined => q \in joined', NEW v, Trusted(v)
    PROVE  Trusted(v)'
  BY DEF Trusted, Known, Steady

LEMMA KnownGrows ==
    ASSUME NEW v \in Views, NEW w \in Views, Grows(v, w), NEW q \in Procs, Known(v, q)
    PROVE  Known(w, q)
<1>1. Version(w, q) >= Version(v, q)
  BY DEF Grows
<1>2. Version(v, q) > 0 /\ (~Known(w, q) => Version(w, q) = 0)
  BY ViewHas DEF Known
<1>. QED BY <1>1, <1>2, ViewHas DEF Version, Abs

LEMMA TrustEmpty == Trusted(Empty) /\ \A q \in Procs : ~Known(Empty, q)
<1>1. \A q \in Procs : Nobody[q] = 0
  BY DEF Nobody
<1>. QED BY <1>1, EmptyIs DEF Trusted, Known, Steady

LEMMA TrustAlone ==
    ASSUME NEW p \in Procs, p \in joined
    PROVE  Trusted(Alone(p))
<1>1. PICK a : a = [Nobody EXCEPT ![p] = 1]
  OBVIOUS
<1>2. \A q \in Procs : Nobody[q] = 0 /\ (q # p => a[q] = 0)
  BY <1>1 DEF Nobody
<1>3. Alone(p).active = a /\ Alone(p).suspect = Nobody
  BY <1>1 DEF Alone, View
<1>. QED BY <1>2, <1>3 DEF Trusted, Known, Steady

LEMMA TrustStarted ==
    ASSUME NEW p \in Procs, Trusted(view[p]), p \in joined \/ view[p].active # Nobody
    PROVE  Trusted(Started(p))
  BY TrustAlone DEF Started

LEMMA TrustWelcome ==
    ASSUME NEW v \in Views, Trusted(v), NEW q \in Procs, q \in Steady => q \in joined
    PROVE  Trusted(Welcome(v, q))
<1>1. PICK a, s : a = [v.active EXCEPT ![q] = Version(v, q) + 1] /\ s = [v.suspect EXCEPT ![q] = 0]
  OBVIOUS
<1>2. \A r \in Procs : (r # q => a[r] = v.active[r] /\ s[r] = v.suspect[r]) /\ (r = q => s[r] = 0)
  BY <1>1, ViewHas
<1>3. Welcome(v, q).active = a /\ Welcome(v, q).suspect = s
  BY <1>1 DEF Welcome, View
<1>. QED BY <1>2, <1>3 DEF Trusted, Known, Steady

LEMMA TrustLeft ==
    ASSUME NEW v \in Views, Trusted(v), NEW q \in Procs
    PROVE  Trusted(Left(v, q))
<1>1. PICK n \in Int : /\ n = IF v.active[q] # 0 THEN -v.active[q] ELSE -Abs(v.suspect[q])
                       /\ n <= 0 /\ (n # 0 => Known(v, q))
  BY ViewHas DEF Abs, Known
<1>2. PICK a, s : a = [v.active EXCEPT ![q] = 0] /\ s = [v.suspect EXCEPT ![q] = n]
  OBVIOUS
<1>3. \A r \in Procs : /\ r # q => a[r] = v.active[r] /\ s[r] = v.suspect[r]
                       /\ r = q => a[r] = 0 /\ s[r] = n
  BY <1>2, ViewHas
<1>4. Left(v, q).active = a /\ Left(v, q).suspect = s
  BY <1>1, <1>2 DEF Left, View
<1>. QED BY <1>1, <1>3, <1>4 DEF Trusted, Known, Steady

LEMMA TrustSuspected ==
    ASSUME NEW v \in Views, Trusted(v), NEW q \in Procs \ Steady
    PROVE  Trusted(Suspected(v, q))
<1>1. CASE v.active[q] = 0
  BY <1>1 DEF Suspected
<1>2. CASE v.active[q] # 0
  <2>1. PICK a, s : a = [v.active EXCEPT ![q] = 0] /\ s = [v.suspect EXCEPT ![q] = v.active[q]]
    OBVIOUS
  <2>2. \A r \in Procs : r # q => a[r] = v.active[r] /\ s[r] = v.suspect[r]
    BY <2>1, ViewHas
  <2>3. Suspected(v, q).active = a /\ Suspected(v, q).suspect = s
    BY <1>2, <2>1 DEF Suspected, View
  <2>. QED BY <2>2, <2>3 DEF Trusted, Known, Steady
<1>. QED BY <1>1, <1>2

\* Merging for one id.
LEMMA TrustMergeOne ==
    ASSUME NEW a \in Nat, NEW t \in Int, t <= 0, NEW n \in Int, n <= 0, NEW c \in Nat, NEW own \in BOOLEAN
    PROVE  /\ MergeActive(MergeSuspect(own, <<a, t>>, n), c)[2] <= 0
           /\ \/ MergeActive(MergeSuspect(own, <<a, t>>, n), c) = <<0, 0>>
              \/ a # 0 \/ t # 0 \/ n # 0 \/ c # 0
<1>1. PICK b \in Nat, u \in Int : /\ MergeSuspect(own, <<a, t>>, n) = <<b, u>> /\ u <= 0
                                  /\ (b = 0 /\ u = 0) \/ a # 0 \/ t # 0 \/ n # 0
  BY DEF MergeSuspect
<1>2. MergeActive(<<b, u>>, c) \in {<<b, u>>, <<c, 0>>} /\ (c = 0 => MergeActive(<<b, u>>, c) = <<b, u>>)
  BY DEF MergeActive
<1>. QED BY <1>1, <1>2

LEMMA TrustMerge ==
    ASSUME Inv, NEW p \in joined, Trusted(view[p]), NEW v \in Views, Trusted(v)
    PROVE  Trusted(Merge(p, v))
<1> DEFINE known(q) == <<Started(p).active[q] + Raise(p, v, q), Started(p).suspect[q]>>
           one(q) == MergeActive(MergeSuspect(q = p, known(q), v.suspect[q]), v.active[q])
           merged == [q \in Procs |-> one(q)]
<1>1. p \in Procs
  BY DEF Inv, TypeOK
<1>2. PICK w : w = Started(p) /\ w \in Views /\ Trusted(w)
  BY <1>1, StartedIs, TrustStarted
<1>3. Merge(p, v).active = [q \in Procs |-> merged[q][1]] /\ Merge(p, v).suspect = [q \in Procs |-> merged[q][2]]
  BY DEF Merge, View
<1>4. \A q \in Procs : merged[q] = one(q)
  OBVIOUS
<1>5. ASSUME NEW q \in Steady
      PROVE  one(q)[2] <= 0 /\ (one(q)[1] # 0 \/ one(q)[2] # 0 => q \in joined)
  <2>1. q \in Procs
    BY DEF Steady
  <2>2. PICK a \in Nat, t \in Int, n \in Int, c \in Nat :
           /\ known(q) = <<a, t>> /\ n = v.suspect[q] /\ c = v.active[q] /\ t = w.suspect[q]
           /\ a # 0 => w.active[q] # 0 \/ q = p
    BY <1>2, <2>1, ViewHas DEF Raise
  <2>3. t <= 0 /\ n <= 0 /\ (a # 0 \/ t # 0 \/ n # 0 \/ c # 0 => q \in joined)
    BY <1>2, <1>5, <2>2 DEF Trusted, Known
  <2>4. PICK k : k = MergeActive(MergeSuspect(q = p, <<a, t>>, n), c)
    OBVIOUS
  <2>5. k[2] <= 0 /\ (k = <<0, 0>> \/ a # 0 \/ t # 0 \/ n # 0 \/ c # 0)
    BY <2>3, <2>4, TrustMergeOne
  <2>6. one(q) = k
    BY <2>2, <2>4
  <2>. QED BY <2>3, <2>5, <2>6
<1>6. \A q \in Steady : q \in Procs
  BY DEF Steady
<1> HIDE DEF one, merged
<1>. QED BY <1>3, <1>4, <1>5, <1>6 DEF Trusted, Known


-----------------------------------------------------------------------------
(* The parts, when one process and what is under way change *)

LEMMA ViewsTrustedStays ==
    ASSUME Inv, ViewsTrusted, \A q \in Steady : q \in joined => q \in joined',
           view' = view \/ \E p \in Procs : \E w : view' = [view EXCEPT ![p] = w] /\ Trusted(w)'
    PROVE  ViewsTrusted'
<1>1. ASSUME NEW p \in Procs PROVE view'[p] = view[p] \/ Trusted(view[p])'
  <2>1. CASE view' = view
    BY <2>1
  <2>2. ASSUME NEW r \in Procs, NEW w, view' = [view EXCEPT ![r] = w], Trusted(w)'
        PROVE  view'[p] = view[p] \/ Trusted(view[p])'
    <3>1. view'[p] = IF p = r THEN w ELSE view[p]
      BY <2>2 DEF Inv, TypeOK
    <3>. QED BY <2>2, <3>1
  <2>. QED BY <2>1, <2>2
<1>2. ASSUME NEW p \in Procs PROVE Trusted(view[p])'
  <2>1. Trusted(view[p])
    BY DEF ViewsTrusted
  <2>2. PICK v : v = view[p]
    OBVIOUS
  <2>3. Trusted(v)'
    BY <2>1, <2>2, TrustStays
  <2>. QED BY <1>1, <2>2, <2>3
<1>. QED BY <1>2 DEF ViewsTrusted

LEMMA NetTrustedStays ==
    ASSUME NetTrusted, \A q \in Steady : q \in joined => q \in joined',
           \A m \in net' : \/ m \in net
                           \/ Trusted(m.view)' /\ (m.type = "JOIN" /\ m.src \in Steady => m.src \in joined')
    PROVE  NetTrusted'
<1>1. ASSUME NEW m \in net PROVE Trusted(m.view)' /\ (m.type = "JOIN" /\ m.src \in Steady => m.src \in joined')
  BY TrustStays DEF NetTrusted
<1>. QED BY <1>1 DEF NetTrusted, Steady

LEMMA AnsweringStays ==
    ASSUME NEW p, NEW q, Answering(p, q), Known(view'[p], q),
           \A m \in net' : m \in net \/ ((m.type = "JOIN" => m.src # p) /\ (m.type = "JOINREQ" => m.dst # p)),
           \E m \in net' : Answers(m, p, q)
    PROVE  Answering(p, q)'
  BY DEF Answering, Known, Answers

\* No new message is to make a process forget, and no answer is lost.
LEMMA RoundsStay ==
    ASSUME RoundsAnswered,
           \A p \in Procs, q \in Steady :
               /\ <<"pingthroufailed", q>> \in timers'[p] => <<"pingthroufailed", q>> \in timers[p]
               /\ <<"pingfailed", q>> \in timers'[p] =>
                      <<"pingfailed", q>> \in timers[p] /\ (Answering(p, q) => Answering(p, q)')
    PROVE  RoundsAnswered'
  BY DEF RoundsAnswered, Steady

LEMMA SteadyAre == \A q \in Steady : q \in Procs /\ q \notin Unsteady
  BY DEF Steady

LEMMA KnownHere ==
    ASSUME NEW p, NEW q \in Procs, Known(view[p], q)
    PROVE  q \in Active(view[p]) \cup Suspect(view[p])
  BY DEF Known, Active, Suspect

LEMMA KnownJoined ==
    ASSUME ViewsTrusted, NEW p \in Procs, NEW q \in Steady, Known(view[p], q)
    PROVE  q \in joined
  BY DEF ViewsTrusted, Trusted

\* A process that knows another has a view.
LEMMA KnownHasView ==
    ASSUME NEW p \in Procs, NEW q \in Procs, Known(view[p], q)
    PROVE  view[p] # Empty
  BY TrustEmpty

-----------------------------------------------------------------------------
(* Calm steps of the user and the environment *)

LEMMA CalmLocalJoin ==
    ASSUME Inv, Steadfast, NEW p \in Procs, NEW s \in Procs, OnLocalJoin(p, s)
    PROVE  Steadfast'
<1>1. /\ p \in up \ joined /\ joined' = joined \cup {p} /\ UNCHANGED <<up, cut>>
      /\ timers[p] = {}
  BY DEF OnLocalJoin, Steadfast, Reached
<1>2. PICK T : timers' = [timers EXCEPT ![p] = T] /\ \A t \in T : t[1] \in {"ping", "join"}
  <2>1. PICK T : T = timers[p] \cup {<<"ping", p>>} \cup (IF p = s THEN {} ELSE {<<"join", s>>})
    OBVIOUS
  <2>2. timers' = [timers EXCEPT ![p] = T]
    BY <2>1 DEF OnLocalJoin
  <2>3. \A t \in T : t[1] \in {"ping", "join"}
    BY <1>1, <2>1
  <2>. QED BY <2>2, <2>3
<1>3. timers'[p] = T /\ \A q \in Procs : q # p => timers'[q] = timers[q]
  BY <1>2 DEF Inv, TypeOK
<1>4. Reached'
  BY <1>1, <1>3 DEF Steadfast, Reached, Steady
<1>5. Trusted(Empty)' /\ Trusted(Alone(p))'
  <2>1. Trusted(Empty)'
    BY TrustEmpty, EmptyIs DEF Trusted, Known, Steady
  <2>2. PICK v : v = Alone(p)
    OBVIOUS
  <2>3. \A q \in Procs : v.suspect[q] = 0 /\ (q # p => v.active[q] = 0)
    <3>1. PICK a : a = [Nobody EXCEPT ![p] = 1]
      OBVIOUS
    <3>2. \A q \in Procs : Nobody[q] = 0 /\ (q # p => a[q] = 0)
      BY <3>1 DEF Nobody
    <3>3. v.active = a /\ v.suspect = Nobody
      BY <2>2, <3>1 DEF Alone, View
    <3>. QED BY <3>2, <3>3
  <2>4. Trusted(v)'
    BY <1>1, <2>3, SteadyAre DEF Trusted, Known, Steady
  <2>. QED BY <2>1, <2>2, <2>4
<1>6. ViewsTrusted'
  <2>1. PICK w : w = IF p = s THEN Alone(p) ELSE Empty
    OBVIOUS
  <2>2. view' = [view EXCEPT ![p] = w] /\ Trusted(w)'
    BY <1>5, <2>1 DEF OnLocalJoin
  <2>. QED BY <1>1, <2>2, ViewsTrustedStays DEF Steadfast
<1>7. /\ net \subseteq net'
      /\ \A m \in net' : m \in net \/ (m.type = "JOIN" /\ m.src = p /\ m.view = Empty)
  BY DEF OnLocalJoin, Send, Sent, Join, Message
<1>8. NetTrusted'
  BY <1>1, <1>5, <1>7, NetTrustedStays DEF Steadfast
<1>9. ASSUME NEW r \in Procs, NEW q \in Steady, <<"pingfailed", q>> \in timers'[r], Answering(r, q)
      PROVE  Answering(r, q)'
  <2>1. r # p
    BY <1>2, <1>3, <1>9
  <2>2. view'[r] = view[r]
    BY <2>1 DEF OnLocalJoin, Inv, TypeOK
  <2>. QED BY <1>7, <1>9, <2>1, <2>2, AnsweringStays DEF Answering
<1>10. \A r \in Procs, q \in Steady :
           /\ <<"pingthroufailed", q>> \in timers'[r] => <<"pingthroufailed", q>> \in timers[r]
           /\ <<"pingfailed", q>> \in timers'[r] => <<"pingfailed", q>> \in timers[r]
  BY <1>2, <1>3
<1>11. RoundsAnswered'
  BY <1>9, <1>10, RoundsStay DEF Steadfast
<1>. QED BY <1>4, <1>6, <1>8, <1>11 DEF Steadfast

LEMMA CalmCrash ==
    ASSUME Inv, Steadfast, NEW p \in Procs, Crash(p)
    PROVE  Steadfast'
<1>1. /\ p \in Unsteady /\ joined' = joined \ {p} /\ up' = up \ {p} /\ UNCHANGED cut
      /\ net' = {m \in net : m.dst # p}
  BY DEF Crash
<1>2. timers'[p] = {} /\ \A q \in Procs : q # p => timers'[q] = timers[q]
  BY DEF Crash, Inv, TypeOK
<1>3. \A q \in Steady : q # p
  BY <1>1 DEF Steady
<1>4. Reached'
  BY <1>1, <1>2, <1>3 DEF Steadfast, Reached, Steady
<1>5. ViewsTrusted'
  <2>1. Trusted(Empty)'
    BY TrustEmpty, EmptyIs DEF Trusted, Known, Steady
  <2>2. view' = [view EXCEPT ![p] = Empty]
    BY DEF Crash
  <2>. QED BY <1>1, <1>3, <2>1, <2>2, ViewsTrustedStays DEF Steadfast
<1>6. NetTrusted'
  BY <1>1, <1>3, NetTrustedStays DEF Steadfast
<1>7. ASSUME NEW r \in Procs, NEW q \in Steady, <<"pingfailed", q>> \in timers'[r], Answering(r, q)
      PROVE  Answering(r, q)'
  <2>1. r # p /\ q # p
    BY <1>2, <1>3, <1>7
  <2>2. view'[r] = view[r]
    BY <2>1 DEF Crash, Inv, TypeOK
  <2>3. \E m \in net' : Answers(m, r, q)
    BY <1>1, <1>7, <2>1 DEF Answering, Answers
  <2>. QED BY <1>1, <1>7, <2>2, <2>3, AnsweringStays DEF Answering
<1>8. RoundsAnswered'
  BY <1>2, <1>7, RoundsStay DEF Steadfast
<1>. QED BY <1>4, <1>5, <1>6, <1>8 DEF Steadfast

LEMMA CalmEnvironment ==
    ASSUME Inv, Steadfast, UNCHANGED vars \/ \E p \in Procs : Recover(p) \/ Connect(p)
    PROVE  Steadfast'
<1>1. /\ UNCHANGED <<joined, view, timers, net>> /\ cut' = {} /\ up \subseteq up'
  BY DEF vars, Recover, Connect, Steadfast, Reached
<1>2. Reached'
  BY <1>1 DEF Steadfast, Reached, Steady
<1>3. ViewsTrusted' /\ NetTrusted' /\ RoundsAnswered'
  BY <1>1 DEF Steadfast, ViewsTrusted, NetTrusted, RoundsAnswered, Trusted, Known, Steady, Answering, Answers
<1>. QED BY <1>2, <1>3 DEF Steadfast


-----------------------------------------------------------------------------
(* Messages in calm *)

LEMMA ReplyIs ==
    ASSUME NEW m, NEW ms, Reply(m, ms)
    PROVE  /\ \A x \in net : x # m => x \in net'
           /\ \A x \in net' : x \in net \/ x \in ms
           /\ \A x \in ms : cut = {} /\ x.dst \in up => x \in net'
  BY DEF Reply, Sent

\* Nobody new joins, and timers are at most cancelled.
LEMMA CalmReached ==
    ASSUME Steadfast, joined \subseteq joined', UNCHANGED world,
           \A p \in Procs : timers'[p] \subseteq timers[p]
    PROVE  Reached'
  BY DEF Steadfast, Reached, Steady, world

TimersOnlyDrop == \A r \in Procs : timers'[r] \subseteq timers[r]
SoundReplies(ms) == \A x \in ms : Trusted(x.view)' /\ x.type # "JOIN"
\* The process p that takes m, with view w afterwards, keeps whom it knows, nobody is
\* made to forget, and a ping is answered.
KeepsRounds(m, ms, p, w) ==
    \A r \in Procs, q \in Steady :
        Answering(r, q) /\ <<"pingfailed", q>> \in timers'[r] =>
            /\ r = p => Known(w, q)
            /\ \A x \in ms : x.type = "JOINREQ" => x.dst # r
            /\ Answers(m, r, q) => \E x \in net' : Answers(x, r, q)

LEMMA CalmReceive ==
    ASSUME Inv, Steadfast, UNCHANGED world, joined \subseteq joined',
           NEW m \in net, NEW ms, Reply(m, ms), SoundReplies(ms), TimersOnlyDrop,
           NEW p \in Procs, NEW w, view' = [view EXCEPT ![p] = w] \/ (view' = view /\ w = view[p]),
           Trusted(w)', KeepsRounds(m, ms, p, w)
    PROVE  Steadfast'
<1>1. Reached'
  BY CalmReached DEF TimersOnlyDrop
<1>2. /\ \A x \in net : x # m => x \in net'
      /\ \A x \in net' : x \in net \/ x \in ms
  BY ReplyIs
<1>3. ViewsTrusted'
  <2>1. view' = view \/ \E r \in Procs : \E v : view' = [view EXCEPT ![r] = v] /\ Trusted(v)'
    OBVIOUS
  <2>. QED BY <2>1, ViewsTrustedStays DEF Steadfast
<1>4. NetTrusted'
  BY <1>2, NetTrustedStays DEF Steadfast, SoundReplies
<1>5. view'[p] = w /\ \A r \in Procs : r # p => view'[r] = view[r]
  BY DEF Inv, TypeOK
<1>6. ASSUME NEW r \in Procs, NEW q \in Steady, <<"pingfailed", q>> \in timers'[r], Answering(r, q)
      PROVE  Answering(r, q)'
  <2>1. Known(view'[r], q)
    BY <1>5, <1>6 DEF Answering, KeepsRounds
  <2>2. \E x \in net' : Answers(x, r, q)
    BY <1>2, <1>6 DEF Answering, KeepsRounds
  <2>3. \A x \in net' : x \in net \/ ((x.type = "JOIN" => x.src # r) /\ (x.type = "JOINREQ" => x.dst # r))
    BY <1>2, <1>6 DEF KeepsRounds, SoundReplies
  <2>. QED BY <1>6, <2>1, <2>2, <2>3, AnsweringStays
<1>7. RoundsAnswered'
  BY <1>6, RoundsStay DEF Steadfast, TimersOnlyDrop
<1>. QED BY <1>1, <1>3, <1>4, <1>7 DEF Steadfast

LEMMA CalmMessage ==
    ASSUME Inv, Steadfast, NEW m \in net
    PROVE  /\ MessageOK(m) /\ m.dst \in Procs /\ m.src \in Procs /\ m.view \in Views /\ m.src # m.dst
           /\ Trusted(m.view) /\ view[m.dst] \in Views /\ Trusted(view[m.dst])
           /\ m.type = "JOIN" /\ m.src \in Steady => m.src \in joined
<1>1. MessageOK(m)
  BY DEF Inv, TypeOK
<1>2. m.dst \in Procs /\ m.src \in Procs /\ m.view \in Views /\ m.src # m.dst
  BY <1>1, MessageHas
<1>3. view[m.dst] \in Views
  BY <1>2 DEF Inv, TypeOK
<1>. QED BY <1>1, <1>2, <1>3 DEF Steadfast, NetTrusted, ViewsTrusted

LEMMA TrustOn ==
    ASSUME joined \subseteq joined', NEW v, Trusted(v)
    PROVE  Trusted(v)'
  BY TrustStays

LEMMA CalmOnJoin ==
    ASSUME Inv, Steadfast, NEW m \in net, OnJoin(m), UNCHANGED world
    PROVE  Steadfast'
<1>1. PICK p \in Procs, q \in Procs : p = m.dst /\ q = m.src /\ p # q /\ m.type = "JOIN"
  BY CalmMessage DEF OnJoin
<1>2. PICK v \in Views : v = Started(p) /\ (view[p] # Empty => v = view[p])
  BY StartedIs
<1>3. PICK w \in Views : w = Welcome(v, q) /\ Grows(v, w)
  BY WelcomeIs
<1>4. PICK x : x = Message("JOINREQ", p, q, q, p, w)
  OBVIOUS
<1>5. /\ joined' = (IF view[p].active = Nobody THEN joined \cup {p} ELSE joined)
      /\ view' = [view EXCEPT ![p] = w] /\ Reply(m, {x}) /\ timers' = timers
  BY <1>1, <1>2, <1>3, <1>4 DEF OnJoin
<1>6. x.type = "JOINREQ" /\ x.dst = q /\ x.view = w
  BY <1>4 DEF Message
<1>7. joined \subseteq joined' /\ (view[p].active = Nobody => p \in joined')
  BY <1>5
<1>8. Trusted(v)'
  <2>1. CASE view[p].active = Nobody
    <3>1. v = Alone(p)
      BY <1>2, <2>1 DEF Started
    <3>2. \A r \in Procs : v.suspect[r] = 0 /\ (r # p => v.active[r] = 0)
      <4>1. PICK a : a = [Nobody EXCEPT ![p] = 1]
        OBVIOUS
      <4>2. \A r \in Procs : Nobody[r] = 0 /\ (r # p => a[r] = 0)
        BY <4>1 DEF Nobody
      <4>3. v.active = a /\ v.suspect = Nobody
        BY <3>1, <4>1 DEF Alone, View
      <4>. QED BY <4>2, <4>3
    <3>. QED BY <1>7, <2>1, <3>2, SteadyAre DEF Trusted, Known, Steady
  <2>2. CASE view[p].active # Nobody
    <3>1. v = view[p] /\ Trusted(v)
      BY <1>1, <1>2, <2>2, CalmMessage DEF Started
    <3>. QED BY <1>7, <3>1, TrustOn
  <2>. QED BY <2>1, <2>2
<1>9. Trusted(w)'
  <2>1. q \in Steady => q \in joined'
    BY <1>1, <1>7, CalmMessage
  <2>2. PICK a, s : a = [v.active EXCEPT ![q] = Version(v, q) + 1] /\ s = [v.suspect EXCEPT ![q] = 0]
    OBVIOUS
  <2>3. \A r \in Procs : (r # q => a[r] = v.active[r] /\ s[r] = v.suspect[r]) /\ (r = q => s[r] = 0)
    BY <2>2, ViewHas
  <2>4. w.active = a /\ w.suspect = s
    BY <1>3, <2>2 DEF Welcome, View
  <2>. QED BY <1>8, <2>1, <2>3, <2>4 DEF Trusted, Known, Steady
<1>10. ASSUME NEW r \in Procs, NEW y \in Steady, Answering(r, y)
       PROVE  (r = p => Known(w, y)) /\ q # r /\ ~Answers(m, r, y)
  <2>1. q # r
    BY <1>1, <1>10 DEF Answering
  <2>2. ~Answers(m, r, y)
    BY <1>1 DEF Answers
  <2>3. ASSUME r = p PROVE Known(w, y)
    <3>1. Known(view[p], y) /\ y \in Procs
      BY <1>10, <2>3, SteadyAre DEF Answering
    <3>2. Known(v, y)
      BY <1>2, <3>1, KnownHasView
    <3>. QED BY <1>3, <3>1, <3>2, KnownGrows
  <2>. QED BY <2>1, <2>2, <2>3
<1>11. SoundReplies({x}) /\ TimersOnlyDrop
  BY <1>5, <1>6, <1>9 DEF SoundReplies, TimersOnlyDrop
<1>12. KeepsRounds(m, {x}, p, w)
  BY <1>6, <1>10 DEF KeepsRounds
<1>. QED BY <1>5, <1>7, <1>9, <1>11, <1>12, CalmReceive

LEMMA CalmOnLeave ==
    ASSUME Inv, Steadfast, NEW m \in net, OnLeave(m), UNCHANGED world
    PROVE  Steadfast'
<1>1. PICK p \in Procs, q \in Procs : p = m.dst /\ q = m.src /\ m.type = "LEAVE"
  BY CalmMessage DEF OnLeave
<1>2. PICK v \in Views : v = view[p] /\ Trusted(v)
  BY <1>1, CalmMessage
<1>3. PICK w \in Views : w = Left(v, q) /\ Grows(v, w) /\ Trusted(w)
  BY <1>2, LeftIs, TrustLeft
<1>4. /\ view' = [view EXCEPT ![p] = w] /\ Reply(m, {}) /\ timers' = timers /\ joined' = joined
  BY <1>1, <1>2, <1>3 DEF OnLeave
<1>5. Trusted(w)'
  BY <1>3, <1>4, TrustOn
<1>6. \A r \in Procs, y \in Steady :
          Answering(r, y) => (r = p => Known(w, y)) /\ ~Answers(m, r, y)
  BY <1>1, <1>2, <1>3, KnownGrows, SteadyAre DEF Answering, Answers
<1>7. KeepsRounds(m, {}, p, w) /\ SoundReplies({}) /\ TimersOnlyDrop
  BY <1>4, <1>6 DEF KeepsRounds, SoundReplies, TimersOnlyDrop
<1>. QED BY <1>4, <1>5, <1>7, CalmReceive

LEMMA CalmOnJoinReq ==
    ASSUME Inv, Steadfast, NEW m \in net, OnJoinReq(m), UNCHANGED world
    PROVE  Steadfast'
<1>1. PICK p \in Procs : p = m.dst /\ m.type = "JOINREQ"
  BY CalmMessage DEF OnJoinReq
<1>2. PICK w \in Views : w = m.view /\ Trusted(w)
  BY CalmMessage
<1>3. /\ view' = [view EXCEPT ![p] = w] /\ Reply(m, {}) /\ joined' = joined
      /\ timers' = [timers EXCEPT ![p] = @ \ {<<"join", m.src>>}]
  BY <1>1, <1>2 DEF OnJoinReq
<1>4. \A r \in Procs : timers'[r] \subseteq timers[r]
  BY <1>3 DEF Inv, TypeOK
<1>5. Trusted(w)'
  BY <1>2, <1>3, TrustOn
<1>6. \A r \in Procs, y \in Steady : Answering(r, y) => r # p /\ ~Answers(m, r, y)
  BY <1>1 DEF Answering, Answers
<1>7. KeepsRounds(m, {}, p, w) /\ SoundReplies({}) /\ TimersOnlyDrop
  BY <1>4, <1>6 DEF KeepsRounds, SoundReplies, TimersOnlyDrop
<1>. QED BY <1>3, <1>5, <1>7, CalmReceive

\* Whoever refuses a message is not one that is asked.
LEMMA CalmRefuse ==
    ASSUME Inv, Steadfast, NEW m \in net, Refuse(m), UNCHANGED world,
           \A r \in Procs, y \in Steady :
               Answering(r, y) /\ <<"pingfailed", y>> \in timers[r] => ~Answers(m, r, y)
    PROVE  Steadfast'
<1>1. PICK p \in Procs : p = m.dst
  BY CalmMessage
<1>2. PICK x : x = Leave(m.dst, m.src)
  OBVIOUS
<1>3. x.type = "LEAVE" /\ x.view = Empty
  BY <1>2 DEF Leave, Message
<1>4. Reply(m, {x}) /\ UNCHANGED <<joined, view, timers>>
  BY <1>2 DEF Refuse
<1>5. Trusted(Empty)' /\ Trusted(view[p])'
  BY <1>1, <1>4, TrustEmpty, CalmMessage, TrustOn
<1>6. \A r \in Procs, y \in Steady :
          Answering(r, y) /\ <<"pingfailed", y>> \in timers'[r] =>
              (r = p => Known(view[p], y)) /\ ~Answers(m, r, y)
  BY <1>4 DEF Answering
<1>7. PICK w : w = view[p] /\ Trusted(w)'
  BY <1>4, <1>5
<1>8. KeepsRounds(m, {x}, p, w) /\ SoundReplies({x}) /\ TimersOnlyDrop
  BY <1>3, <1>4, <1>5, <1>6, <1>7 DEF KeepsRounds, SoundReplies, TimersOnlyDrop
<1>. QED BY <1>4, <1>7, <1>8, CalmReceive

LEMMA CalmOnPing ==
    ASSUME Inv, Steadfast, NEW m \in net, OnPing(m), UNCHANGED world
    PROVE  Steadfast'
<1>1. PICK p \in Procs : p = m.dst /\ m.type = "PING" /\ p # m.src
  BY CalmMessage DEF OnPing
<1>2. CASE p \notin joined
  <2>1. \A r \in Procs, y \in Steady : Answering(r, y) => ~Answers(m, r, y)
    BY <1>1, <1>2, KnownJoined DEF Answering, Answers, Steadfast
  <2>. QED BY <1>1, <1>2, <2>1, CalmRefuse DEF OnPing
<1>3. CASE p \in joined
  <2>1. PICK w \in Views : /\ w = Merge(p, m.view) /\ (view[p] # Empty => Grows(view[p], w))
                           /\ Trusted(w)
    BY <1>1, <1>3, CalmMessage, MergeIs, TrustMerge
  <2>2. PICK x : x = IF m.target = p THEN Message("ACK", p, m.src, m.asker, p, w) ELSE Forward(m, m.target)
    OBVIOUS
  <2>3. view' = [view EXCEPT ![p] = w] /\ Reply(m, {x}) /\ UNCHANGED <<joined, timers>>
    BY <1>1, <1>3, <2>1, <2>2 DEF OnPing
  <2>4. /\ x.type \in {"PING", "ACK"} /\ x.view \in {w, m.view} /\ x.asker = m.asker
        /\ m.target = p => x.type = "ACK" /\ x.src = p /\ x.dst = m.src
    BY <1>1, <2>2 DEF Forward, Message
  <2>5. Trusted(w)' /\ Trusted(x.view)'
    BY <2>1, <2>3, <2>4, CalmMessage, TrustOn
  <2>6. ASSUME NEW r \in Procs, NEW y \in Steady, Answering(r, y), <<"pingfailed", y>> \in timers'[r]
        PROVE  /\ r = p => Known(w, y)
               /\ Answers(m, r, y) => \E z \in net' : Answers(z, r, y)
    <3>1. ASSUME r = p PROVE Known(w, y)
      <4>1. Known(view[p], y) /\ y \in Procs /\ view[p] \in Views
        BY <1>1, <2>6, <3>1, SteadyAre, CalmMessage DEF Answering
      <4>. QED BY <2>1, <4>1, KnownHasView, KnownGrows
    <3>2. ASSUME Answers(m, r, y) PROVE \E z \in net' : Answers(z, r, y)
      <4>1. m.asker = r /\ m.src = r /\ p = y /\ m.target = p
        BY <1>1, <3>2 DEF Answers
      <4>2. cut = {} /\ r \in up
        BY <2>3, <2>6 DEF Steadfast, Reached
      <4>3. x \in net' /\ Answers(x, r, y)
        BY <2>3, <2>4, <4>1, <4>2, ReplyIs DEF Answers
      <4>. QED BY <4>3
    <3>. QED BY <3>1, <3>2
  <2>7. KeepsRounds(m, {x}, p, w) /\ SoundReplies({x}) /\ TimersOnlyDrop
    BY <2>3, <2>4, <2>5, <2>6 DEF KeepsRounds, SoundReplies, TimersOnlyDrop
  <2>. QED BY <2>3, <2>5, <2>7, CalmReceive
<1>. QED BY <1>2, <1>3

LEMMA CalmOnAck ==
    ASSUME Inv, Steadfast, NEW m \in net, OnAck(m), UNCHANGED world
    PROVE  Steadfast'
<1>1. PICK p \in Procs : p = m.dst /\ m.type = "ACK" /\ p # m.src
  BY CalmMessage DEF OnAck
<1>2. CASE p \notin joined \/ m.src \notin Active(view[p]) \cup Suspect(view[p])
  <2>1. ASSUME NEW r \in Procs, NEW y \in Steady, Answering(r, y), <<"pingfailed", y>> \in timers[r],
               Answers(m, r, y)
        PROVE  FALSE
    <3>1. r = p /\ y = m.src /\ y \in Procs /\ Known(view[p], y)
      BY <1>1, <2>1, SteadyAre DEF Answers, Answering
    <3>2. p \in joined
      BY <2>1, <3>1 DEF Steadfast, Reached
    <3>. QED BY <1>2, <3>1, <3>2, KnownHere
  <2>. QED BY <1>1, <1>2, <2>1, CalmRefuse DEF OnAck
<1>3. CASE p \in joined /\ m.src \in Active(view[p]) \cup Suspect(view[p])
  <2>1. PICK w \in Views : /\ w = Merge(p, m.view) /\ (view[p] # Empty => Grows(view[p], w))
                           /\ Trusted(w)
    BY <1>1, <1>3, CalmMessage, MergeIs, TrustMerge
  <2>2. /\ view' = [view EXCEPT ![p] = w] /\ joined' = joined
        /\ IF m.asker = p
           THEN timers' = [timers EXCEPT ![p] = @ \ Answered(m)] /\ Reply(m, {})
           ELSE UNCHANGED timers /\ Reply(m, {Forward(m, m.asker)})
    BY <1>1, <1>3, <2>1 DEF OnAck
  <2>3. Trusted(w)'
    BY <2>1, <2>2, TrustOn
  <2>4. \A r \in Procs : timers'[r] \subseteq timers[r]
    BY <2>2 DEF Inv, TypeOK
  <2>5. ASSUME NEW r \in Procs, NEW y \in Steady, Answering(r, y), <<"pingfailed", y>> \in timers'[r]
        PROVE  (r = p => Known(w, y)) /\ ~Answers(m, r, y)
    <3>1. ASSUME r = p PROVE Known(w, y)
      <4>1. Known(view[p], y) /\ y \in Procs /\ view[p] \in Views
        BY <1>1, <2>5, <3>1, SteadyAre, CalmMessage DEF Answering
      <4>. QED BY <2>1, <4>1, KnownHasView, KnownGrows
    <3>2. ASSUME Answers(m, r, y) PROVE FALSE
      <4>1. m.asker = p /\ r = p /\ y = m.src
        BY <1>1, <3>2 DEF Answers
      <4>2. timers'[p] = timers[p] \ Answered(m)
        BY <2>2, <4>1 DEF Inv, TypeOK
      <4>. QED BY <2>5, <4>1, <4>2 DEF Answered
    <3>. QED BY <3>1, <3>2
  <2>6. PICK ms : /\ Reply(m, ms)
                  /\ \A x \in ms : x.type = "ACK" /\ x.view = m.view
    <3>1. \A x \in {Forward(m, m.asker)} : x.type = "ACK" /\ x.view = m.view
      BY <1>1 DEF Forward, Message
    <3>. QED BY <2>2, <3>1
  <2>7. \A x \in ms : Trusted(x.view)' /\ x.type # "JOIN" /\ x.type # "JOINREQ"
    BY <2>2, <2>6, CalmMessage, TrustOn
  <2>8. KeepsRounds(m, ms, p, w) /\ SoundReplies(ms) /\ TimersOnlyDrop
    BY <2>4, <2>5, <2>7 DEF KeepsRounds, SoundReplies, TimersOnlyDrop
  <2>. QED BY <2>2, <2>3, <2>6, <2>8, CalmReceive
<1>. QED BY <1>2, <1>3


-----------------------------------------------------------------------------
(* Timers in calm *)

\* While somebody waits for an answer that is under way, his timers are early.
LEMMA NobodyWaits ==
    ASSUME RoundsAnswered, NEW p \in Procs, Awaited(p) = {}
    PROVE  \A q \in Steady : <<"pingfailed", q>> \notin timers[p]
  BY DEF RoundsAnswered, Answering, Answers, Awaited

LEMMA SendAdds ==
    ASSUME NEW ms, Send(ms)
    PROVE  /\ net \subseteq net' /\ \A x \in net' : x \in net \/ x \in ms
           /\ \A x \in ms : cut = {} /\ x.dst \in up => x \in net'
  BY DEF Send, Sent

LEMMA CalmTimerReached ==
    ASSUME Steadfast, UNCHANGED <<joined, up, cut>>,
           \A r \in Procs : timers'[r] # {} => timers[r] # {}
    PROVE  Reached'
  BY DEF Steadfast, Reached, Steady

\* What process p sends at a timer; the others, whose timers stay, are still answered.
SoundSends(p) ==
    /\ net \subseteq net'
    /\ \A x \in net' : \/ x \in net
                       \/ Trusted(x.view)' /\ x.type \in {"JOIN", "PING"} /\ x.src = p
SettledRound(p) ==
    \A q \in Steady : /\ <<"pingthroufailed", q>> \in timers'[p] => <<"pingthroufailed", q>> \in timers[p]
                      /\ <<"pingfailed", q>> \in timers'[p] => Answering(p, q)'

LEMMA CalmTimer ==
    ASSUME Inv, Steadfast, NEW p \in Procs, p \in joined, UNCHANGED <<joined, view, up, cut>>,
           SoundSends(p), SettledRound(p),
           NEW T, timers' = [timers EXCEPT ![p] = T] \/ (timers' = timers /\ T = timers[p]),
           timers[p] # {}
    PROVE  Steadfast'
<1>1. timers'[p] = T /\ \A r \in Procs : r # p => timers'[r] = timers[r]
  BY DEF Inv, TypeOK
<1>2. Reached'
  BY <1>1, CalmTimerReached
<1>3. ViewsTrusted'
  BY ViewsTrustedStays DEF Steadfast
<1>4. NetTrusted'
  BY NetTrustedStays DEF Steadfast, SoundSends
<1>5. ASSUME NEW r \in Procs, NEW q \in Steady, r # p, Answering(r, q)
      PROVE  Answering(r, q)'
  <2>1. \A x \in net' : x \in net \/ ((x.type = "JOIN" => x.src # r) /\ (x.type = "JOINREQ" => x.dst # r))
    BY <1>5 DEF SoundSends
  <2>2. (\E x \in net' : Answers(x, r, q)) /\ Known(view'[r], q)
    BY <1>5 DEF Answering, SoundSends
  <2>. QED BY <1>5, <2>1, <2>2, AnsweringStays
<1>6. ASSUME NEW r \in Procs, NEW q \in Steady
      PROVE  /\ <<"pingthroufailed", q>> \notin timers'[r]
             /\ <<"pingfailed", q>> \in timers'[r] => Answering(r, q)'
  <2>1. CASE r = p
    BY <2>1 DEF SettledRound, Steadfast, RoundsAnswered
  <2>2. CASE r # p
    BY <1>1, <1>5, <2>2 DEF Steadfast, RoundsAnswered
  <2>. QED BY <2>1, <2>2
<1>7. RoundsAnswered'
  BY <1>6 DEF RoundsAnswered, Steady
<1>. QED BY <1>2, <1>3, <1>4, <1>7 DEF Steadfast

LEMMA CalmOnTimer ==
    ASSUME Steadfast, NEW p \in Procs, timers[p] # {}
    PROVE  p \in joined /\ p \in up
  BY DEF Steadfast, Reached

LEMMA CalmJoinTimer ==
    ASSUME Inv, Steadfast, disturbed \in Seq(Troubles), Calm',
           NEW p \in Procs, NEW s \in Procs, OnJoinTimer(p, s)
    PROVE  Steadfast'
<1>1. Awaited(p) = {} /\ timers[p] # {} /\ p \in joined /\ UNCHANGED <<joined, view, up, cut>>
  <2>1. Awaited(p) = {} /\ timers[p] # {}
    BY CalmDue DEF OnJoinTimer
  <2>. QED BY <2>1, CalmOnTimer DEF OnJoinTimer
<1>2. PICK T : /\ timers' = [timers EXCEPT ![p] = T] \/ (timers' = timers /\ T = timers[p])
               /\ T \subseteq timers[p]
  BY DEF OnJoinTimer
<1>3. PICK x : x = Join(p, s)
  OBVIOUS
<1>4. x.type = "JOIN" /\ x.src = p /\ x.view = Empty
  BY <1>3 DEF Join, Message
<1>5. net' = net \/ Send({x})
  BY <1>3 DEF OnJoinTimer
<1>6. Trusted(x.view)'
  BY <1>1, <1>4, TrustEmpty, TrustOn
<1>7. SoundSends(p)
  BY <1>4, <1>5, <1>6, SendAdds DEF SoundSends
<1>8. timers'[p] = T
  BY <1>2 DEF Inv, TypeOK
<1>9. SettledRound(p)
  BY <1>1, <1>2, <1>8, NobodyWaits DEF SettledRound, Steadfast
<1>. QED BY <1>1, <1>2, <1>7, <1>9, CalmTimer

LEMMA PingHas ==
    ASSUME NEW p, NEW r, NEW q, NEW v
    PROVE  /\ Ping(p, r, q, v).type = "PING" /\ Ping(p, r, q, v).src = p /\ Ping(p, r, q, v).dst = r
           /\ Ping(p, r, q, v).asker = p /\ Ping(p, r, q, v).target = q /\ Ping(p, r, q, v).view = v
  BY DEF Ping, Message

LEMMA CalmPingTimer ==
    ASSUME Inv, Steadfast, disturbed \in Seq(Troubles), Calm',
           NEW p \in Procs, NEW q \in Procs, NEW s \in Procs, OnPingTimer(p, q, s)
    PROVE  Steadfast'
<1>1. Awaited(p) = {} /\ timers[p] # {} /\ p \in joined /\ UNCHANGED <<joined, view, up, cut>>
  <2>1. Awaited(p) = {} /\ timers[p] # {}
    BY CalmDue DEF OnPingTimer
  <2>. QED BY <2>1, CalmOnTimer DEF OnPingTimer
<1>2. PICK R : /\ R = ({q} \cup {r \in {s} : view[p].suspect[s] > 0}) \ {p}
               /\ Send({Ping(p, r, r, view[p]) : r \in R})
  BY DEF OnPingTimer
<1>3. PICK T : /\ timers' = [timers EXCEPT ![p] = T]
               /\ T = timers[p] \cup ({<<"pingfailed", q>>} \ {<<"pingfailed", p>>})
  BY DEF OnPingTimer
<1>4. timers'[p] = T
  BY <1>3 DEF Inv, TypeOK
<1>5. PICK ms : ms = {Ping(p, r, r, view[p]) : r \in R}
  OBVIOUS
<1>6. \A x \in ms : x.type = "PING" /\ x.src = p /\ x.view = view[p]
  BY <1>5, PingHas
<1>7. Trusted(view[p]) /\ \A x \in ms : Trusted(x.view)'
  BY <1>1, <1>6, TrustOn DEF Steadfast, ViewsTrusted
<1>8. SoundSends(p)
  BY <1>2, <1>5, <1>6, <1>7, SendAdds DEF SoundSends
<1>9. ASSUME NEW y \in Steady, <<"pingfailed", y>> \in T PROVE Answering(p, y)'
  <2>1. y = q /\ q # p /\ q \in Steady
    BY <1>1, <1>3, <1>9, NobodyWaits DEF Steadfast
  <2>2. Known(view'[p], q)
    <3>1. q \in Active(view[p])
      BY <2>1 DEF OnPingTimer, RandomActive
    <3>. QED BY <1>1, <3>1 DEF Active, Known
  <2>3. PICK x : x = Ping(p, q, q, view[p])
    OBVIOUS
  <2>4. x \in net' /\ Answers(x, p, q)
    <3>1. x \in ms
      BY <1>2, <1>5, <2>1, <2>3
    <3>2. x.dst = q /\ Answers(x, p, q)
      BY <2>3, PingHas DEF Answers
    <3>3. cut = {} /\ q \in up
      BY <2>1 DEF Steadfast, Reached
    <3>. QED BY <1>2, <1>5, <3>1, <3>2, <3>3, SendAdds
  <2>5. \A z \in net' : (z.type = "JOIN" => z.src # p) /\ (z.type = "JOINREQ" => z.dst # p)
    <3>1. \A z \in net : z.type \in {"PING", "ACK"}
      BY <1>1 DEF Awaited
    <3>. QED BY <1>2, <1>5, <1>6, <3>1, SendAdds
  <2>. QED BY <2>1, <2>2, <2>4, <2>5 DEF Answering, Known, Answers
<1>10. SettledRound(p)
  BY <1>3, <1>4, <1>9 DEF SettledRound
<1>. QED BY <1>1, <1>3, <1>8, <1>10, CalmTimer

LEMMA CalmPingFailed ==
    ASSUME Inv, Steadfast, disturbed \in Seq(Troubles), Calm',
           NEW p \in Procs, NEW q \in Procs, NEW relays \in SUBSET Procs, OnPingFailed(p, q, relays)
    PROVE  Steadfast'
<1>1. /\ Awaited(p) = {} /\ <<"pingfailed", q>> \in timers[p] /\ p \in joined
      /\ UNCHANGED <<joined, view, up, cut>>
  <2>1. Awaited(p) = {} /\ <<"pingfailed", q>> \in timers[p]
    BY CalmDue DEF OnPingFailed
  <2>. QED BY <2>1, CalmOnTimer DEF OnPingFailed
<1>2. q \notin Steady
  BY <1>1, NobodyWaits DEF Steadfast
<1>3. PICK ms : ms = {Ping(p, r, q, view[p]) : r \in relays \ {p}} /\ Send(ms)
  BY DEF OnPingFailed
<1>4. \A x \in ms : x.type = "PING" /\ x.src = p /\ x.view = view[p]
  BY <1>3, PingHas
<1>5. \A x \in ms : Trusted(x.view)'
  BY <1>1, <1>4, TrustOn DEF Steadfast, ViewsTrusted
<1>6. SoundSends(p)
  BY <1>3, <1>4, <1>5, SendAdds DEF SoundSends
<1>7. PICK T : /\ timers' = [timers EXCEPT ![p] = T]
               /\ T = (timers[p] \ {<<"pingfailed", q>>}) \cup {<<"pingthroufailed", q>>}
  BY DEF OnPingFailed
<1>8. timers'[p] = T
  BY <1>7 DEF Inv, TypeOK
<1>9. SettledRound(p)
  BY <1>1, <1>2, <1>7, <1>8, NobodyWaits DEF SettledRound, Steadfast
<1>. QED BY <1>1, <1>6, <1>7, <1>9, CalmTimer

LEMMA CalmPingThrouFailed ==
    ASSUME Inv, Steadfast, NEW p \in Procs, NEW q \in Procs, OnPingThrouFailed(p, q)
    PROVE  Steadfast'
<1>1. <<"pingthroufailed", q>> \in timers[p] /\ UNCHANGED <<joined, net, up, cut>>
  BY DEF OnPingThrouFailed, Due
<1>2. q \notin Steady
  BY <1>1 DEF Steadfast, RoundsAnswered
<1>3. PICK v \in Views : v = view[p] /\ Trusted(v)
  BY DEF Inv, TypeOK, Steadfast, ViewsTrusted
<1>4. PICK w \in Views : w = Suspected(v, q) /\ Grows(v, w) /\ Trusted(w)
  BY <1>2, <1>3, SuspectedIs, TrustSuspected
<1>5. view' = [view EXCEPT ![p] = w] /\ Trusted(w)'
  BY <1>1, <1>3, <1>4, TrustOn DEF OnPingThrouFailed
<1>6. view'[p] = w /\ \A r \in Procs : r # p => view'[r] = view[r]
  BY <1>5 DEF Inv, TypeOK
<1>7. \A r \in Procs : timers'[r] \subseteq timers[r]
  BY DEF OnPingThrouFailed, Inv, TypeOK
<1>8. Reached'
  BY <1>1, <1>7 DEF Steadfast, Reached, Steady
<1>9. ViewsTrusted'
  BY <1>1, <1>5, ViewsTrustedStays DEF Steadfast
<1>10. NetTrusted'
  BY <1>1, NetTrustedStays DEF Steadfast
<1>11. ASSUME NEW r \in Procs, NEW y \in Steady, Answering(r, y) PROVE Answering(r, y)'
  <2>1. Known(view'[r], y)
    BY <1>3, <1>4, <1>6, <1>11, KnownGrows, SteadyAre DEF Answering
  <2>. QED BY <1>1, <1>11, <2>1, AnsweringStays DEF Answering
<1>12. RoundsAnswered'
  BY <1>7, <1>11, RoundsStay DEF Steadfast
<1>. QED BY <1>8, <1>9, <1>10, <1>12 DEF Steadfast

-----------------------------------------------------------------------------

LEMMA CalmInit ==
    Init => CalmInv
<1> SUFFICES ASSUME Init PROVE CalmInv
  OBVIOUS
<1>1. \A p \in Procs : view[p] = Empty /\ timers[p] = {}
  BY DEF Init
<1>2. Reached
  BY <1>1 DEF Init, Reached, Steady
<1>3. ViewsTrusted /\ NetTrusted /\ RoundsAnswered
  BY <1>1, TrustEmpty DEF Init, ViewsTrusted, NetTrusted, RoundsAnswered
<1>4. disturbed \in Seq(Troubles)
  BY DEF Init
<1>. QED BY <1>2, <1>3, <1>4 DEF CalmInv, Steadfast

LEMMA CalmStep ==
    ASSUME Inv, CalmInv, [Next]_vars
    PROVE  CalmInv'
<1>1. disturbed \in Seq(Troubles) /\ disturbed' \in Seq(Troubles) /\ (Calm' => Calm)
  BY CalmBefore DEF CalmInv
<1>2. ASSUME Calm' PROVE Steadfast'
  <2>1. Steadfast
    BY <1>1, <1>2 DEF CalmInv
  <2>2. ASSUME NEW what \in Troubles, Disturb(what) PROVE what \in {"crash", "hasty"}
    BY <1>1, <1>2, <2>2, CalmDisturb
  <2>3. CASE \E m \in net : Receive(m)
    BY <2>1, <2>3, CalmOnJoin, CalmOnLeave, CalmOnJoinReq, CalmOnPing, CalmOnAck DEF Receive
  <2>4. CASE \/ \E p, q \in Procs : OnLocalLeave(p, q)
             \/ \E p \in Procs : Disconnect(p)
             \/ \E m \in net : Lose(m)
    BY <2>2, <2>4 DEF OnLocalLeave, Disconnect, Lose, Troubles
  <2>5. CASE (\E p, s \in Procs : OnLocalJoin(p, s)) \/ \E p \in Procs : Crash(p)
    BY <2>1, <2>5, CalmLocalJoin, CalmCrash
  <2>6. CASE UNCHANGED vars \/ \E p \in Procs : Recover(p) \/ Connect(p)
    BY <2>1, <2>6, CalmEnvironment
  <2>7. CASE \E p, q \in Procs : OnJoinTimer(p, q)
    BY <1>1, <1>2, <2>1, <2>7, CalmJoinTimer
  <2>8. CASE \E p, q, s \in Procs : OnPingTimer(p, q, s)
    BY <1>1, <1>2, <2>1, <2>8, CalmPingTimer
  <2>9. CASE \E p, q \in Procs, R \in SUBSET Procs : OnPingFailed(p, q, R)
    BY <1>1, <1>2, <2>1, <2>9, CalmPingFailed
  <2>10. CASE \E p, q \in Procs : OnPingThrouFailed(p, q)
    BY <2>1, <2>10, CalmPingThrouFailed
  <2>. QED BY <2>3, <2>4, <2>5, <2>6, <2>7, <2>8, <2>9, <2>10 DEF Next
<1>. QED BY <1>1, <1>2 DEF CalmInv

\* As long as no message is lost and none is late, and nobody leaves, no process is
\* suspected that does not crash, in groups of any size, with any number of crashes
\* and of rounds side by side.
THEOREM NoFalseSuspicionHolds == Spec => []NoFalseSuspicion
<1>1. CalmInv => NoFalseSuspicion
  BY DEF CalmInv, Steadfast, ViewsTrusted, Trusted, NoFalseSuspicion, Calm, Steady
<1>2. Inv /\ CalmInv /\ [Next]_vars => CalmInv'
  BY CalmStep
<1>. QED BY CalmInit, InvHolds, <1>1, <1>2, PTL DEF Spec
=============================================================================

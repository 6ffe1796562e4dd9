------------------------ MODULE LifeCycleRegistryProofs ------------------------
(***************************************************************************)
(* Proofs about LifeCycleRegistry, for any observers, groups and orders.   *)
(*                                                                         *)
(* The types hold whatever happens. The rest is proved for bindings that   *)
(* come and go between events and an order of groups that is set before    *)
(* the first event: then the view, when an event is notified, lists what   *)
(* is bound, each observer stands where its binding does, and the groups   *)
(* still to notify, the group at work and the observers told are parts of  *)
(* what is bound that have nothing in common.                              *)
(***************************************************************************)
EXTENDS LifeCycleRegistry, DataFacts, TLAPS

Values == Bindings \cup {Missing}

Groups == [group : 0 .. MaxName, bindings : Seq(Bindings)]

\* The types of the variables.
Shape ==
    /\ bound \in Seq(Bindings) /\ IsInjective(bound)
    /\ pending \in 0 .. MaxPending
    /\ cachedB \in Maybe(Seq(Bindings)) /\ cachedV \in Maybe(Seq(Values))
    /\ parallel \in Modes
    /\ order \in Orders
    /\ event \in Events \cup {"none"}
    /\ pc \in {"idle", "tick", "resolving", "collect", "groups", "notifying"}
    /\ groups \in Seq(Groups)
    /\ obs \in Seq(Values) /\ bnds \in Seq(Bindings) /\ queue \in Seq(Values)
    /\ running \cup told \cup finished \cup members \subseteq Bindings
    /\ outcome \in {"none", "ok", "failed", "unresolved"}

-----------------------------------------------------------------------------
(* The invariant *)

\* What the view lists.
Listed == Sorted(order, bound)

\* While nothing is pending the caches, if there are any, are those of what is bound.
Current ==
    /\ pc # "idle" \/ Changes = "none" => pending = 0
    /\ event = "none" => pc = "idle" /\ cachedB = <<>> /\ cachedV = <<>>
    /\ pending = 0 => cachedB \in {<<>>, <<Listed>>} /\ cachedV \in {<<>>, <<Listed>>}

\* Nobody is told before the observers have been collected.
Collecting ==
    pc \in {"tick", "resolving", "collect"} =>
        /\ cachedB = <<Listed>> /\ groups = GroupsOf(order, Listed)
        /\ members = ToSet(bound)
        /\ told = {} /\ finished = {} /\ running = {} /\ queue = <<>>
        /\ pc # "tick" => obs = Listed

\* A group with all of its bindings.
Whole(g) ==
    /\ IsInjective(g.bindings)
    /\ ToSet(g.bindings) = {b \in ToSet(bound) : GroupOf(order, b) = g.group}

\* The observers that have been told of the event or are next.
Reached == told \cup ToSet(queue)

\* Whoever should be told has been told, is next, or is in a group still to come, in one only.
Going ==
    pc \in {"groups", "notifying"} =>
        /\ obs = Listed /\ bnds = Listed /\ members = ToSet(bound)
        /\ IsInjective(queue) /\ ToSet(queue) \subseteq Bindings \ told
        /\ \A i \in DOMAIN groups : Whole(groups[i])
        /\ \A i, j \in DOMAIN groups : groups[i].group = groups[j].group => i = j
        /\ \A i \in DOMAIN groups, b \in Reached : GroupOf(order, b) # groups[i].group
        /\ \A b \in Reached : GroupOf(order, b) \notin Disabled
        /\ \A b \in Addressed :
              \/ b \in finished \cup running \cup ToSet(queue)
              \/ \E i \in DOMAIN groups : b \in ToSet(groups[i].bindings)
        /\ pc = "groups" => running = {} /\ queue = <<>>

\* How a notification ends.
Ending ==
    /\ pc = "idle" <=> outcome # "none"
    /\ outcome = "ok" => running = {} /\ queue = <<>>
    /\ running \cap finished = {} /\ running \cup finished \subseteq told
    /\ FailsOnlyWithObserver
    /\ EveryObserverTold

RegistryIInv == Shape /\ Current /\ Collecting /\ Going /\ Ending

\* The group g is notified before the group h.
Ahead(g, h) == IF event = "stop" THEN Rank(order, h) < Rank(order, g)
               ELSE Rank(order, g) < Rank(order, h)

\* The observers at work and those that are next are of one group, which is ahead of the
\* groups that are still to notify.
AtWork == running \cup ToSet(queue)

InOrder ==
    /\ pc \in {"groups", "notifying"} =>
          /\ \A i, j \in DOMAIN groups : i < j => Ahead(groups[i].group, groups[j].group)
          /\ \A i \in DOMAIN groups, b \in AtWork : Ahead(GroupOf(order, b), groups[i].group)
          /\ \A a, b \in AtWork : GroupOf(order, a) = GroupOf(order, b)
    /\ GroupsInOrder

-----------------------------------------------------------------------------
(* Groups and their order *)

\* A name has one place in an order; names have different ranks.
LEMMA RankIs ==
    ASSUME NEW o \in Orders, NEW g \in 0 .. MaxName
    PROVE  /\ Place(o, g) \in 0 .. Len(o) /\ Rank(o, g) \in 0 .. MaxName + Len(o)
           /\ \A h \in 0 .. MaxName : Rank(o, g) = Rank(o, h) => g = h
<1>1. o \in Seq(1 .. MaxName) /\ MaxName \in Nat /\ Len(o) \in Nat
  BY ConstantsAssumption
<1>2. \A h : IsFirstPlace(Place(o, h), o, h)
  BY <1>1, FirstPlace DEF Place
<1>3. \A h : Place(o, h) \in 0 .. Len(o) /\ (Place(o, h) # 0 => o[Place(o, h)] = h)
  BY <1>1, <1>2 DEF IsFirstPlace
<1> QED
  BY <1>1, <1>3 DEF Rank

\* The group of an observer.
LEMMA GroupIs ==
    ASSUME NEW o \in Orders, NEW b \in Bindings
    PROVE  GroupOf(o, b) \in 0 .. MaxName
BY ConstantsAssumption DEF GroupOf

Ranks(o) == MaxName + Len(o) + 1

Tier(o, r) == {b \in Bindings : Rank(o, GroupTag[b]) = r - 1}

\* f[r] is what has a rank below r.
Sorting(f, o, bs) ==
    /\ f \in [0 .. Ranks(o) -> Seq(Bindings)]
    /\ f[0] = <<>>
    /\ \A r \in 1 .. Ranks(o) : f[r] = f[r - 1] \o Within(bs, Tier(o, r))

\* The recursion of Sorted has a solution.
LEMMA SortedUnfold ==
    ASSUME NEW o \in Orders, NEW bs \in Seq(Bindings)
    PROVE  \E f : Sorting(f, o, bs) /\ Sorted(o, bs) = f[Ranks(o)]
<1> DEFINE n == Ranks(o)
           part == [r \in 0 .. n |-> Within(bs, Tier(o, r))]
           step == [r \in 1 .. n |-> [w \in Seq(Bindings) |-> w \o part[r]]]
           Sol(h) == h = [r \in 0 .. n |-> IF r = 0 THEN <<>> ELSE h[r - 1] \o part[r]]
           g == CHOOSE h : h = [r \in 0 .. n |-> IF r = 0 THEN <<>>
                                  ELSE h[r - 1] \o Within(bs, {b \in Bindings :
                                                    Rank(o, GroupTag[b]) = r - 1})]
<1>1. n \in Nat /\ Ranks(o) = n
  BY ConstantsAssumption DEF Ranks
<1>2. \A r \in 0 .. n : part[r] \in Seq(Bindings)
  BY WithinType
<1>3. Sorted(o, bs) = g[n]
  BY Zenon DEF Sorted, Ranks
<1>4. \A r \in 0 .. n : part[r] = Within(bs, {b \in Bindings : Rank(o, GroupTag[b]) = r - 1})
  BY Zenon DEF Tier
<1>5. \A h : Sol(h) <=> h = [r \in 0 .. n |-> IF r = 0 THEN <<>>
                                ELSE h[r - 1] \o Within(bs, {b \in Bindings :
                                                  Rank(o, GroupTag[b]) = r - 1})]
  <2> HIDE DEF part, n
  <2> QED
    BY <1>4, Zenon
<1>11. \A r \in 1 .. n : part[r] = Within(bs, Tier(o, r))
  BY <1>1
<1> HIDE DEF n, part
<1>6. PICK f : Recursion(f, Seq(Bindings), <<>>, n, step)
  <2>1. step \in [1 .. n -> [Seq(Bindings) -> Seq(Bindings)]]
    BY <1>1, <1>2
  <2>2. <<>> \in Seq(Bindings)
    OBVIOUS
  <2> HIDE DEF step
  <2> QED
    BY <1>1, <2>1, <2>2, RecursionExists, Zenon
<1>7. /\ f \in [0 .. n -> Seq(Bindings)] /\ f[0] = <<>>
      /\ \A r \in 1 .. n : f[r] = f[r - 1] \o part[r]
  <2>1. \A r \in 1 .. n : r - 1 \in 0 .. n
    BY <1>1
  <2>2. \A r \in 1 .. n, w \in Seq(Bindings) : step[r][w] = w \o part[r]
    BY Zenon
  <2> HIDE DEF step
  <2> QED
    BY <1>6, <2>1, <2>2, Zenon DEF Recursion
<1>8. Sol(g)
  <2>1. Sol(f)
    <3>1. \A r \in 0 .. n : r = 0 \/ r \in 1 .. n
      BY <1>1
    <3>2. \A r \in 0 .. n : f[r] = IF r = 0 THEN <<>> ELSE f[r - 1] \o part[r]
      BY <1>7, <3>1, Zenon
    <3> QED
      BY <1>7, <3>2, Zenon
  <2>2. f = [r \in 0 .. n |-> IF r = 0 THEN <<>>
                ELSE f[r - 1] \o Within(bs, {b \in Bindings : Rank(o, GroupTag[b]) = r - 1})]
    BY <1>5, <2>1
  <2>3. g = [r \in 0 .. n |-> IF r = 0 THEN <<>>
                ELSE g[r - 1] \o Within(bs, {b \in Bindings : Rank(o, GroupTag[b]) = r - 1})]
    BY <2>2, Zenon
  <2> QED
    BY <1>5, <2>3
<1> HIDE DEF g
<1>9. \A r \in 0 .. n : g[r] = IF r = 0 THEN <<>> ELSE g[r - 1] \o part[r]
  BY <1>8, Zenon
<1> HIDE DEF Sol
<1>10. \A r \in 0 .. n : g[r] = f[r]
  <2> DEFINE G == {r \in Nat : r <= n => g[r] = f[r]}
  <2>1. 0 \in G
    BY <1>1, <1>7, <1>9
  <2>2. ASSUME NEW r \in Nat, r \in G PROVE r + 1 \in G
    <3>1. CASE r + 1 <= n
      <4>1. r + 1 \in 1 .. n /\ r + 1 \in 0 .. n /\ (r + 1) - 1 = r /\ r + 1 # 0 /\ g[r] = f[r]
        BY <1>1, <2>2, <3>1
      <4> DEFINE k == r + 1
      <4>2. k \in 1 .. n /\ k \in 0 .. n /\ k - 1 = r /\ k # 0
        BY <4>1
      <4> HIDE DEF k
      <4>3. f[k] = f[r] \o part[k]
        BY <4>2, <1>7
      <4>4. g[k] = g[r] \o part[k]
        BY <4>2, <1>9
      <4>5. g[k] = f[k]
        BY <4>1, <4>3, <4>4, Zenon
      <4> QED
        BY <4>5 DEF k
    <3> QED
      BY <3>1
  <2>3. Nat \subseteq G
    <3> HIDE DEF G
    <3> QED
      BY <2>1, <2>2, Induction
  <2> QED
    BY <1>1, <2>3
<1>12. Sorting(f, o, bs)
  <2>1. \A r \in 1 .. n : f[r] = f[r - 1] \o Within(bs, Tier(o, r))
    BY <1>7, <1>11, Zenon
  <2> QED
    BY <1>1, <1>7, <2>1 DEF Sorting
<1>13. g[n] = f[n]
  BY <1>1, <1>10
<1> QED
  BY <1>1, <1>3, <1>12, <1>13

\* By rank.
Ranked(o, s) ==
    \A i, j \in DOMAIN s : i < j => Rank(o, GroupTag[s[i]]) <= Rank(o, GroupTag[s[j]])

\* What has a rank below r, in order.
SortedBelow(s, o, bs, r) ==
    /\ s \in Seq(Bindings) /\ IsInjective(s) /\ Ranked(o, s)
    /\ ToSet(s) = {b \in ToSet(bs) : Rank(o, GroupTag[b]) < r}
    /\ \A q \in 1 .. Ranks(o) :
          Within(s, Tier(o, q)) = IF q <= r THEN Within(bs, Tier(o, q)) ELSE <<>>

\* The bindings of the next rank come behind those of the ranks before.
LEMMA SortedNext ==
    ASSUME NEW o \in Orders, NEW bs \in Seq(Bindings), IsInjective(bs),
           NEW r \in 1 .. Ranks(o), NEW s, SortedBelow(s, o, bs, r - 1)
    PROVE  SortedBelow(s \o Within(bs, Tier(o, r)), o, bs, r)
<1> DEFINE t == Within(bs, Tier(o, r))
<1>1. r \in Nat /\ Ranks(o) \in Nat /\ s \in Seq(Bindings)
  BY ConstantsAssumption DEF Ranks, SortedBelow
<1>2. t \in Seq(Bindings) /\ ToSet(t) = ToSet(bs) \cap Tier(o, r) /\ IsInjective(t)
  BY WithinType, WithinElements
<1>3. \A b \in Bindings : Rank(o, GroupTag[b]) \in Nat
  <2> TAKE b \in Bindings
  <2>1. GroupTag[b] \in 0 .. MaxName
    BY ConstantsAssumption
  <2> DEFINE g == GroupTag[b]
  <2> HIDE DEF g
  <2>2. g \in 0 .. MaxName => Rank(o, g) \in Nat
    BY RankIs
  <2> QED
    BY <2>1, <2>2 DEF g
<1>4. ToSet(bs) \subseteq Bindings /\ ToSet(s) \subseteq Bindings
  BY <1>1 DEF ToSet
<1>5. /\ s \o t \in Seq(Bindings) /\ ToSet(s \o t) = ToSet(s) \cup ToSet(t)
      /\ IsInjective(s) /\ IsInjective(t) /\ ToSet(s) \cap ToSet(t) = {} => IsInjective(s \o t)
  <2> HIDE DEF t
  <2> QED
    BY <1>1, <1>2, ConcatOnce
<1>6. /\ \A b \in ToSet(s) : b \in Bindings /\ Rank(o, GroupTag[b]) < r - 1
      /\ \A b \in ToSet(t) : b \in Bindings /\ Rank(o, GroupTag[b]) = r - 1
  BY <1>2, <1>4 DEF SortedBelow, Tier
<1>7. IsInjective(s \o t)
  <2>1. ToSet(s) \cap ToSet(t) = {}
    BY <1>1, <1>3, <1>6
  <2> QED
    BY <1>2, <1>5, <2>1 DEF SortedBelow
<1>8. ToSet(s \o t) = {b \in ToSet(bs) : Rank(o, GroupTag[b]) < r}
  <2>1. \A b \in Bindings : Rank(o, GroupTag[b]) < r <=>
                               Rank(o, GroupTag[b]) < r - 1 \/ Rank(o, GroupTag[b]) = r - 1
    BY <1>1, <1>3
  <2>2. ToSet(s) = {b \in ToSet(bs) : Rank(o, GroupTag[b]) < r - 1}
    BY DEF SortedBelow
  <2>3. ToSet(t) = {b \in ToSet(bs) : Rank(o, GroupTag[b]) = r - 1}
    BY <1>2, <1>4 DEF Tier
  <2> HIDE DEF t
  <2> QED
    BY <1>4, <1>5, <2>1, <2>2, <2>3
<1>9. Ranked(o, s \o t)
  <2> DEFINE c == s \o t
  <2> SUFFICES ASSUME NEW i \in DOMAIN c, NEW j \in DOMAIN c, i < j
               PROVE  Rank(o, GroupTag[c[i]]) <= Rank(o, GroupTag[c[j]])
    BY DEF Ranked
  <2> HIDE DEF t
  <2>1. /\ i \in Nat /\ j \in Nat /\ Len(s) \in Nat
        /\ i \in 1 .. Len(s) => c[i] = s[i] /\ i \in DOMAIN s /\ s[i] \in ToSet(s)
        /\ j \in 1 .. Len(s) => c[j] = s[j] /\ j \in DOMAIN s
        /\ i \notin 1 .. Len(s) => c[i] \in ToSet(t) /\ j \notin 1 .. Len(s)
        /\ j \notin 1 .. Len(s) => c[j] \in ToSet(t)
    BY <1>1, <1>2 DEF ToSet
  <2> HIDE DEF c
  <2>2. CASE j \in 1 .. Len(s)
    BY <2>1, <2>2 DEF SortedBelow, Ranked
  <2>3. CASE j \notin 1 .. Len(s)
    <3>1. Rank(o, GroupTag[c[j]]) = r - 1
      BY <1>6, <2>1, <2>3
    <3>2. CASE i \in 1 .. Len(s)
      <4>1. Rank(o, GroupTag[c[i]]) < r - 1 /\ Rank(o, GroupTag[c[i]]) \in Nat
        BY <1>3, <1>6, <2>1, <3>2
      <4> QED
        BY <1>1, <3>1, <4>1
    <3>3. CASE i \notin 1 .. Len(s)
      BY <1>1, <1>6, <2>1, <3>1, <3>3
    <3> QED
      BY <3>2, <3>3
  <2> QED
    BY <2>2, <2>3
<1>10. ASSUME NEW q \in 1 .. Ranks(o)
       PROVE  Within(s \o t, Tier(o, q)) = IF q <= r THEN Within(bs, Tier(o, q)) ELSE <<>>
  <2> DEFINE S == Tier(o, q)
             w == Within(bs, S)
  <2>1. Within(s \o t, S) = Within(s, S) \o Within(t, S)
    <3> HIDE DEF t, S
    <3> QED
      BY <1>1, <1>2, WithinConcat
  <2>2. q \in Nat /\ w \in Seq(Bindings)
    BY <1>1, WithinType
  <2>3. CASE q = r
    <3>1. Within(s, S) = <<>>
      BY <1>1, <2>2, <2>3 DEF SortedBelow
    <3>2. Within(t, S) = t /\ w = t
      <4>1. ToSet(t) \subseteq S
        BY <1>2, <2>3
      <4> HIDE DEF t, S, w
      <4>2. Within(t, S) = t
        BY <1>2, <4>1, WithinAll
      <4> QED
        BY <2>3, <4>2 DEF t, S, w
    <3>3. <<>> \o t = t
      <4> HIDE DEF t
      <4> QED
        BY <1>2
    <3> HIDE DEF t, S, w
    <3>4. Within(s \o t, S) = w
      BY <2>1, <3>1, <3>2, <3>3
    <3> QED
      BY <1>1, <2>3, <3>4 DEF S, w
  <2>4. CASE q # r
    <3>1. Within(t, S) = <<>>
      <4>1. ToSet(t) \cap S = {}
        <5>1. ASSUME NEW b \in ToSet(t), b \in S PROVE FALSE
          <6>1. Rank(o, GroupTag[b]) = r - 1 /\ Rank(o, GroupTag[b]) = q - 1
            BY <1>6, <5>1 DEF Tier
          <6> QED
            BY <1>1, <2>2, <2>4, <6>1
        <5> QED
          BY <5>1
      <4> HIDE DEF t, S
      <4> QED
        BY <1>2, <4>1, WithinAll
    <3>2. Within(s, S) = IF q <= r THEN w ELSE <<>>
      <4>1. q <= r - 1 <=> q <= r
        BY <1>1, <2>2, <2>4
      <4> QED
        BY <4>1 DEF SortedBelow
    <3>3. w \o <<>> = w /\ <<>> \o <<>> = <<>>
      <4> HIDE DEF w
      <4> QED
        BY <2>2
    <3> HIDE DEF t, S, w
    <3>4. Within(s \o t, S) = IF q <= r THEN w ELSE <<>>
      BY <2>1, <3>1, <3>2, <3>3
    <3> QED
      BY <3>4 DEF S, w
  <2> QED
    BY <2>3, <2>4
<1> HIDE DEF t
<1>11. SortedBelow(s \o t, o, bs, r)
  BY <1>5, <1>7, <1>8, <1>9, <1>10 DEF SortedBelow
<1> QED
  BY <1>11 DEF t

\* sortBindingsByPhase() keeps the bindings, orders them by rank and leaves what is in
\* order as it is.
SortsThem(s, o, bs) ==
    /\ s \in Seq(Bindings) /\ IsInjective(s) /\ Ranked(o, s) /\ ToSet(s) = ToSet(bs)
    /\ Sorted(o, s) = s

LEMMA SortedIs ==
    ASSUME NEW o \in Orders, NEW bs \in Seq(Bindings), IsInjective(bs)
    PROVE  SortsThem(Sorted(o, bs), o, bs)
<1> DEFINE n == Ranks(o)
           s == Sorted(o, bs)
<1>1. n \in Nat /\ n = MaxName + Len(o) + 1
  BY ConstantsAssumption DEF Ranks
<1>2. PICK f : Sorting(f, o, bs) /\ s = f[n]
  BY SortedUnfold
<1>3. ASSUME NEW h, NEW c \in Seq(Bindings), IsInjective(c), Sorting(h, o, c)
      PROVE  SortedBelow(h[n], o, c, n)
  <2> DEFINE G == {r \in Nat : r <= n => SortedBelow(h[r], o, c, r)}
  <2>1. 0 \in G
    <3>1. h[0] = <<>> /\ <<>> \in Seq(Bindings) /\ DOMAIN <<>> = {} /\ ToSet(<<>>) = {}
      BY <1>3 DEF Sorting, ToSet
    <3>2. \A b \in ToSet(c) : ~(Rank(o, GroupTag[b]) < 0)
      <4>1. \A b \in ToSet(c) : b \in Bindings
        BY DEF ToSet
      <4>2. \A b \in Bindings : Rank(o, GroupTag[b]) \in Nat
        BY RankIs, ConstantsAssumption
      <4> QED
        BY <4>1, <4>2
    <3>3. {b \in ToSet(c) : Rank(o, GroupTag[b]) < 0} = {}
      BY <3>2
    <3>4. \A q \in 1 .. n : ~(q <= 0)
      BY <1>1
    <3>5. \A S : Within(<<>>, S) = <<>>
      BY <3>1, WithinType
    <3>6. SortedBelow(<<>>, o, c, 0)
      BY <3>1, <3>3, <3>4, <3>5 DEF SortedBelow, IsInjective, Ranked
    <3> QED
      BY <3>1, <3>6
  <2>2. ASSUME NEW r \in Nat, r \in G PROVE r + 1 \in G
    <3>1. SUFFICES ASSUME r + 1 <= n PROVE SortedBelow(h[r + 1], o, c, r + 1)
      OBVIOUS
    <3> DEFINE k == r + 1
    <3>2. k \in 1 .. n /\ k - 1 = r /\ SortedBelow(h[r], o, c, r)
      BY <1>1, <2>2, <3>1
    <3> HIDE DEF k, G
    <3>3. h[k] = h[r] \o Within(c, Tier(o, k))
      BY <1>3, <3>2 DEF Sorting
    <3>4. SortedBelow(h[r] \o Within(c, Tier(o, k)), o, c, k)
      BY <1>3, <3>2, SortedNext
    <3> QED
      BY <3>3, <3>4 DEF k
  <2>3. Nat \subseteq G
    <3> HIDE DEF G
    <3> QED
      BY <2>1, <2>2, Induction
  <2> QED
    BY <1>1, <2>3
<1>4. SortedBelow(s, o, bs, n)
  BY <1>2, <1>3
<1>5. \A b \in Bindings : Rank(o, GroupTag[b]) < n
  <2>1. \A b \in Bindings : Rank(o, GroupTag[b]) \in 0 .. MaxName + Len(o)
    BY RankIs, ConstantsAssumption
  <2>2. MaxName \in Nat /\ Len(o) \in Nat
    BY ConstantsAssumption
  <2> QED
    BY <1>1, <2>1, <2>2
<1>6. ToSet(s) = ToSet(bs)
  <2>1. ToSet(bs) \subseteq Bindings
    BY DEF ToSet
  <2> QED
    BY <1>4, <1>5, <2>1 DEF SortedBelow
<1> HIDE DEF s
<1>7. s \in Seq(Bindings) /\ IsInjective(s) /\ Ranked(o, s)
  BY <1>4 DEF SortedBelow
<1>8. PICK g : Sorting(g, o, s) /\ Sorted(o, s) = g[n]
  BY <1>7, SortedUnfold
<1>9. g[n] = f[n]
  <2> DEFINE G == {r \in Nat : r <= n => g[r] = f[r]}
  <2>1. 0 \in G
    BY <1>2, <1>8 DEF Sorting
  <2>2. ASSUME NEW r \in Nat, r \in G PROVE r + 1 \in G
    <3>1. SUFFICES ASSUME r + 1 <= n PROVE g[r + 1] = f[r + 1]
      OBVIOUS
    <3> DEFINE k == r + 1
    <3>2. k \in 1 .. n /\ k - 1 = r /\ g[r] = f[r] /\ k <= n
      BY <1>1, <2>2, <3>1
    <3> HIDE DEF k, G
    <3>3. Within(s, Tier(o, k)) = Within(bs, Tier(o, k))
      BY <1>4, <3>2 DEF SortedBelow
    <3>4. g[k] = g[r] \o Within(s, Tier(o, k)) /\ f[k] = f[r] \o Within(bs, Tier(o, k))
      BY <1>2, <1>8, <3>2 DEF Sorting
    <3> QED
      BY <3>2, <3>3, <3>4, Zenon DEF k
  <2>3. Nat \subseteq G
    <3> HIDE DEF G
    <3> QED
      BY <2>1, <2>2, Induction
  <2> QED
    BY <1>1, <2>3
<1>10. Sorted(o, s) = s
  BY <1>2, <1>8, <1>9
<1>11. SortsThem(s, o, bs)
  BY <1>6, <1>7, <1>10 DEF SortsThem
<1> QED
  BY <1>11 DEF s

\* How the groups of s are made: h[n] is the place in s where group n begins.
Grouping(gs, h, o, s) ==
    /\ DOMAIN gs = 1 .. Len(gs) /\ Len(gs) \in Nat
    /\ h \in [1 .. Len(gs) -> 1 .. Len(s)]
    /\ \A i, j \in 1 .. Len(gs) : i < j => h[i] < h[j]
    /\ \A i \in 1 .. Len(gs) :
          /\ gs[i] = [group |-> GroupOf(o, s[h[i]]),
                      bindings |-> Within(s, {b \in Bindings :
                                                GroupOf(o, b) = GroupOf(o, s[h[i]])})]
          /\ \A k \in 1 .. Len(s) : k < h[i] => GroupOf(o, s[k]) # GroupOf(o, s[h[i]])
    /\ \A k \in 1 .. Len(s) :
          (\A l \in 1 .. Len(s) : l < k => GroupOf(o, s[l]) # GroupOf(o, s[k]))
             => \E i \in 1 .. Len(gs) : h[i] = k

LEMMA GroupsFound ==
    ASSUME NEW o \in Orders, NEW s \in Seq(Bindings)
    PROVE  \E h : Grouping(GroupsOf(o, s), h, o, s)
<1> DEFINE pos == Positions(s)
           first == {i \in DOMAIN s : \A k \in DOMAIN s :
                        k < i => GroupOf(o, s[k]) # GroupOf(o, s[i])}
           starts == Within(pos, first)
           gs == GroupsOf(o, s)
<1>1. pos \in Seq(Nat) /\ Len(pos) = Len(s) /\ \A i \in 1 .. Len(s) : pos[i] = i
  BY DEF Positions
<1> HIDE DEF pos
<1>2. starts \in Seq(Nat)
  BY <1>1, WithinType
<1>3. PICK h : Places(h, starts, pos, first)
  BY <1>1, WithinPlaces
<1>4. gs = [n \in DOMAIN starts |->
              [group |-> GroupOf(o, s[starts[n]]),
               bindings |-> Within(s, {b \in Bindings :
                                         GroupOf(o, b) = GroupOf(o, s[starts[n]])})]]
  BY Zenon DEF GroupsOf, pos
<1>5. DOMAIN s = 1 .. Len(s)
  OBVIOUS
<1>6. \A i \in 1 .. Len(s) : i \in first <=>
         \A k \in 1 .. Len(s) : k < i => GroupOf(o, s[k]) # GroupOf(o, s[i])
  BY <1>5
<1> HIDE DEF first, starts, gs
<1>7. DOMAIN gs = 1 .. Len(starts) /\ Len(gs) = Len(starts) /\ Len(starts) \in Nat
  <2>1. DOMAIN starts = 1 .. Len(starts) /\ Len(starts) \in Nat
    BY <1>2
  <2>2. DOMAIN gs = 1 .. Len(starts)
    BY <1>4, <2>1, Zenon
  <2>3. gs = [n \in 1 .. Len(starts) |-> gs[n]]
    BY <1>4, <2>1, Zenon
  <2>4. \A m \in Nat : \A f : f = [n \in 1 .. m |-> f[n]] => Len(f) = m
    OBVIOUS
  <2> QED
    BY <2>1, <2>2, <2>3, <2>4
<1>8. /\ h \in [1 .. Len(starts) -> 1 .. Len(s)]
      /\ \A i, j \in 1 .. Len(starts) : i < j => h[i] < h[j]
      /\ \A i \in 1 .. Len(starts) : starts[i] = h[i] /\ h[i] \in first
      /\ \A k \in 1 .. Len(s) : k \in first => \E i \in 1 .. Len(starts) : h[i] = k
  BY <1>1, <1>3 DEF Places
<1>9. \A i \in 1 .. Len(starts) :
         gs[i] = [group |-> GroupOf(o, s[h[i]]),
                  bindings |-> Within(s, {b \in Bindings :
                                            GroupOf(o, b) = GroupOf(o, s[h[i]])})]
  <2>1. \A i \in 1 .. Len(starts) : i \in DOMAIN starts
    BY <1>2
  <2>2. \A i \in 1 .. Len(starts) :
           gs[i] = [group |-> GroupOf(o, s[starts[i]]),
                    bindings |-> Within(s, {b \in Bindings :
                                              GroupOf(o, b) = GroupOf(o, s[starts[i]])})]
    BY <1>4, <2>1, Zenon
  <2>3. \A i \in 1 .. Len(starts) : starts[i] = h[i]
    BY <1>8
  <2> QED
    BY <2>2, <2>3, Zenon
<1>10. Grouping(gs, h, o, s)
  BY <1>6, <1>7, <1>8, <1>9 DEF Grouping
<1> QED
  BY <1>10 DEF gs

\* Each group has the bindings with its name, in their order; there is one for every name,
\* and the groups of what is sorted by the name are in the order of their ranks.
GroupsAre(gs, o, s) ==
    /\ gs \in Seq(Groups)
    /\ \A i \in DOMAIN gs :
          /\ ToSet(gs[i].bindings) = {b \in ToSet(s) : GroupOf(o, b) = gs[i].group}
          /\ IsInjective(s) => IsInjective(gs[i].bindings)
    /\ \A i, j \in DOMAIN gs : gs[i].group = gs[j].group => i = j
    /\ \A b \in ToSet(s) : \E i \in DOMAIN gs : gs[i].group = GroupOf(o, b)
    /\ Ranked(o, s) /\ (\A b \in Bindings : GroupOf(o, b) = GroupTag[b]) =>
          \A i, j \in DOMAIN gs : i < j => Rank(o, gs[i].group) < Rank(o, gs[j].group)

LEMMA GroupsOfThem ==
    ASSUME NEW o \in Orders, NEW s \in Seq(Bindings)
    PROVE  GroupsAre(GroupsOf(o, s), o, s)
<1> DEFINE gs == GroupsOf(o, s)
<1>1. PICK h : Grouping(gs, h, o, s)
  BY GroupsFound
<1> HIDE DEF gs
<1>2. Len(s) \in Nat /\ DOMAIN s = 1 .. Len(s) /\ \A k \in 1 .. Len(s) : s[k] \in Bindings
  OBVIOUS
<1>3. /\ DOMAIN gs = 1 .. Len(gs) /\ Len(gs) \in Nat
      /\ \A i \in DOMAIN gs : h[i] \in 1 .. Len(s) /\ s[h[i]] \in Bindings
      /\ \A i, j \in DOMAIN gs : i < j => h[i] < h[j]
  BY <1>1, <1>2 DEF Grouping
<1>4. ASSUME NEW i \in DOMAIN gs
      PROVE  /\ gs[i] \in Groups /\ gs[i].group = GroupOf(o, s[h[i]])
             /\ ToSet(gs[i].bindings) = {b \in ToSet(s) : GroupOf(o, b) = gs[i].group}
             /\ IsInjective(s) => IsInjective(gs[i].bindings)
  <2> DEFINE g == GroupOf(o, s[h[i]])
             S == {b \in Bindings : GroupOf(o, b) = g}
  <2>1. gs[i] = [group |-> g, bindings |-> Within(s, S)]
    BY <1>1, <1>3 DEF Grouping
  <2>2. g \in 0 .. MaxName
    BY <1>3, GroupIs
  <2>3. /\ Within(s, S) \in Seq(Bindings) /\ ToSet(Within(s, S)) = ToSet(s) \cap S
        /\ IsInjective(s) => IsInjective(Within(s, S))
    <3> HIDE DEF S
    <3> QED
      BY WithinType, WithinElements
  <2>4. ToSet(s) \cap S = {b \in ToSet(s) : GroupOf(o, b) = g}
    BY <1>2 DEF ToSet
  <2> HIDE DEF g, S
  <2>5. gs[i].group = g /\ gs[i].bindings = Within(s, S) /\ gs[i] \in Groups
    BY <2>1, <2>2, <2>3 DEF Groups
  <2> QED
    BY <2>3, <2>4, <2>5 DEF g
<1>5. gs \in Seq(Groups)
  <2>1. gs = [i \in 1 .. Len(gs) |-> gs[i]]
    <3>1. \E f, D : gs = [i \in D |-> f[i]]
      <4>1. \A sq : GroupsOf(o, sq) = [i \in DOMAIN GroupsOf(o, sq) |-> GroupsOf(o, sq)[i]]
        BY Zenon DEF GroupsOf
      <4> QED
        BY <4>1, Zenon DEF gs
    <3> QED
      BY <1>3, <3>1
  <2> QED
    BY <1>3, <1>4, <2>1
<1>6. ASSUME NEW i \in DOMAIN gs, NEW j \in DOMAIN gs, i < j
      PROVE  gs[i].group # gs[j].group
  <2>1. h[i] < h[j]
    BY <1>3, <1>6
  <2>2. GroupOf(o, s[h[i]]) # GroupOf(o, s[h[j]])
    BY <1>1, <1>3, <2>1 DEF Grouping
  <2> QED
    BY <1>4, <2>2
<1>7. \A i, j \in DOMAIN gs : gs[i].group = gs[j].group => i = j
  BY <1>3, <1>6
<1>8. ASSUME NEW b \in ToSet(s) PROVE \E i \in DOMAIN gs : gs[i].group = GroupOf(o, b)
  <2> DEFINE R == {k \in 1 .. Len(s) : GroupOf(o, s[k]) = GroupOf(o, b)}
  <2>1. R \in SUBSET Nat /\ R # {}
    BY <1>2 DEF ToSet
  <2>2. PICK k \in R : \A m \in R : k <= m
    BY <2>1, LeastElement
  <2>3. \A l \in 1 .. Len(s) : l < k => GroupOf(o, s[l]) # GroupOf(o, s[k])
    BY <1>2, <2>2
  <2>4. PICK i \in 1 .. Len(gs) : h[i] = k
    BY <1>1, <2>2, <2>3 DEF Grouping
  <2>5. gs[i].group = GroupOf(o, s[k]) /\ GroupOf(o, s[k]) = GroupOf(o, b)
    BY <1>3, <1>4, <2>2, <2>4
  <2> QED
    BY <1>3, <2>5
<1>9. ASSUME Ranked(o, s), \A b \in Bindings : GroupOf(o, b) = GroupTag[b],
             NEW i \in DOMAIN gs, NEW j \in DOMAIN gs, i < j
      PROVE  Rank(o, gs[i].group) < Rank(o, gs[j].group)
  <2>1. h[i] < h[j] /\ h[i] \in DOMAIN s /\ h[j] \in DOMAIN s
    BY <1>2, <1>3, <1>9
  <2>2. Rank(o, GroupTag[s[h[i]]]) <= Rank(o, GroupTag[s[h[j]]])
    BY <1>9, <2>1 DEF Ranked
  <2>3. gs[i].group = GroupTag[s[h[i]]] /\ gs[j].group = GroupTag[s[h[j]]]
    BY <1>3, <1>4, <1>9
  <2>4. gs[i].group \in 0 .. MaxName /\ gs[j].group \in 0 .. MaxName
    BY <1>3, <1>4, GroupIs
  <2>5. Rank(o, gs[i].group) # Rank(o, gs[j].group)
    BY <1>6, <1>9, <2>4, RankIs
  <2>6. Rank(o, gs[i].group) \in Nat /\ Rank(o, gs[j].group) \in Nat
    <3>1. MaxName + Len(o) \in Nat
      BY ConstantsAssumption
    <3>2. \A g \in 0 .. MaxName : Rank(o, g) \in 0 .. MaxName + Len(o)
      BY RankIs
    <3> QED
      BY <2>4, <3>1, <3>2
  <2> QED
    BY <2>2, <2>3, <2>5, <2>6
<1>10. GroupsAre(gs, o, s)
  BY <1>4, <1>5, <1>7, <1>8, <1>9 DEF GroupsAre
<1> QED
  BY <1>10 DEF gs

-----------------------------------------------------------------------------
(* The types *)

LEMMA SortedType ==
    ASSUME NEW o \in Orders, NEW bs \in Seq(Bindings)
    PROVE  Sorted(o, bs) \in Seq(Bindings)
<1>1. PICK f : Sorting(f, o, bs) /\ Sorted(o, bs) = f[Ranks(o)]
  BY SortedUnfold
<1>2. Ranks(o) \in 0 .. Ranks(o)
  BY ConstantsAssumption DEF Ranks
<1> QED
  BY <1>1, <1>2 DEF Sorting

\* The bindings of the view, and its caches.
LEMMA ViewTypes ==
    ASSUME Shape
    PROVE  /\ ViewBindings \in Seq(Bindings) /\ ViewBindings \in Seq(Values)
           /\ cachedV # <<>> => cachedV[1] \in Seq(Values)
           /\ cachedB # <<>> => cachedB[1] \in Seq(Bindings)
<1>1. cachedB # <<>> => cachedB[1] \in Seq(Bindings)
  BY MaybeOne DEF Shape
<1>2. cachedV # <<>> => cachedV[1] \in Seq(Values)
  BY MaybeOne DEF Shape
<1>3. ViewBindings \in Seq(Bindings)
  BY <1>1 DEF ViewBindings, Shape
<1>4. \A s \in Seq(Bindings) : s \in Seq(Values)
  BY DEF Values
<1> QED
  BY <1>1, <1>2, <1>3, <1>4

\* Each observer stands where its binding does.
LEMMA ObserversAre ==
    ASSUME obs \in Seq(Values), bnds \in Seq(Bindings), NEW b
    PROVE  /\ ObserverOf(b) \in Values
           /\ obs = bnds /\ b \in ToSet(bnds) => ObserverOf(b) = b
<1> DEFINE i == SelectInSeq(bnds, LAMBDA x : x = b)
<1>1. IsFirstPlace(i, bnds, b)
  BY FirstPlace
<1>2. ObserverOf(b) = IF i \in DOMAIN obs THEN obs[i] ELSE Missing
  BY DEF ObserverOf
<1> HIDE DEF i
<1> QED
  BY <1>1, <1>2 DEF IsFirstPlace, Values

\* The observers of a group, in the order in which they are notified.
InTurn(bs) == IF event = "stop" THEN Reverse(bs) ELSE bs

ObserversOf(bs) == [i \in DOMAIN InTurn(bs) |-> ObserverOf(InTurn(bs)[i])]

LEMMA TurnsAre ==
    ASSUME obs \in Seq(Values), bnds \in Seq(Bindings), NEW bs \in Seq(Bindings)
    PROVE  /\ ObserversOf(bs) \in Seq(Values)
           /\ obs = bnds /\ ToSet(bs) \subseteq ToSet(bnds) =>
                 /\ ToSet(ObserversOf(bs)) = ToSet(bs)
                 /\ IsInjective(bs) => IsInjective(ObserversOf(bs))
<1> DEFINE t == InTurn(bs)
           os == ObserversOf(bs)
<1>1. /\ t \in Seq(Bindings) /\ ToSet(t) = ToSet(bs)
      /\ IsInjective(bs) => IsInjective(t)
  BY ReverseIs DEF InTurn, Reversed
<1>2. os = [i \in DOMAIN t |-> ObserverOf(t[i])]
  BY DEF ObserversOf
<1>3. \A b : ObserverOf(b) \in Values
  BY ObserversAre
<1> HIDE DEF t, os
<1>4. os \in Seq(Values)
  BY <1>1, <1>2, <1>3
<1>5. ASSUME obs = bnds, ToSet(bs) \subseteq ToSet(bnds) PROVE os = t
  <2>1. \A i \in DOMAIN t : t[i] \in ToSet(bnds)
    BY <1>1, <1>5 DEF ToSet
  <2>2. \A i \in DOMAIN t : ObserverOf(t[i]) = t[i]
    BY <1>5, <2>1, ObserversAre
  <2>3. t = [i \in DOMAIN t |-> t[i]]
    BY <1>1
  <2> QED
    BY <1>2, <2>2, <2>3
<1> QED
  BY <1>1, <1>4, <1>5 DEF os

LEMMA ShapeInitially == Init => Shape
BY ConstantsAssumption DEF Init, Shape, Maybe, Values, Events

\* Steps of the context and of its view.
LEMMA ShapeOfView ==
    ASSUME Shape,
           \/ \E b \in Bindings : Add(b) \/ Unbind(b)
           \/ Observe
           \/ \E o \in Orders : SetOrderedGroups(o)
    PROVE  Shape'
<1>1. ASSUME NEW b \in Bindings, Add(b) PROVE Shape'
  <2>1. bound' \in Seq(Bindings) /\ IsInjective(bound')
    BY <1>1, AppendedOnce DEF Add, Shape
  <2>2. pending' \in 0 .. MaxPending
    BY <1>1, ConstantsAssumption DEF Add, Shape
  <2> QED
    BY <1>1, <2>1, <2>2 DEF Add, Shape, call, work
<1>2. ASSUME NEW b \in Bindings, Unbind(b) PROVE Shape'
  <2>1. bound' \in Seq(Bindings) /\ IsInjective(bound')
    BY <1>2, RemovedFirst DEF Unbind, Shape
  <2>2. pending' \in 0 .. MaxPending
    BY <1>2, ConstantsAssumption DEF Unbind, Shape
  <2>3. (running \cup told \cup finished \cup members)' \subseteq Bindings
    BY <1>2 DEF Unbind, Shape, work
  <2> QED
    BY <1>2, <2>1, <2>2, <2>3 DEF Unbind, Shape, call, work
<1>3. ASSUME Observe PROVE Shape'
  <2>1. pending' \in 0 .. MaxPending
    BY <1>3, ConstantsAssumption DEF Observe, Shape
  <2>2. <<>> \in Maybe(Seq(Bindings)) /\ <<>> \in Maybe(Seq(Values))
    BY DEF Maybe
  <2> QED
    BY <1>3, <2>1, <2>2 DEF Observe, Shape, call, work
<1>4. ASSUME NEW o \in Orders, SetOrderedGroups(o) PROVE Shape'
  BY <1>4 DEF SetOrderedGroups, Shape, view, work
<1> QED
  BY <1>1, <1>2, <1>3, <1>4

\* A notification begins and collects the observers.
LEMMA ShapeOfBeginning ==
    ASSUME Shape, (\E e \in Events : Notify(e)) \/ ReadValues \/ Resolved \/ ValuesFail \/ Collect
    PROVE  Shape'
<1>1. order \in Orders
  BY DEF Shape
<1>2. ASSUME NEW e \in Events, Notify(e) PROVE Shape'
  <2> DEFINE s == Sorted(order, ViewBindings)
  <2>1. s \in Seq(Bindings)
    BY <1>1, ViewTypes, SortedType
  <2>2. GroupsOf(order, s) \in Seq(Groups) /\ <<s>> \in Maybe(Seq(Bindings))
    BY <1>1, <2>1, GroupsOfThem, MaybeMakes DEF GroupsAre
  <2>3. ToSet(bound) \subseteq Bindings
    BY DEF Shape, ToSet
  <2> HIDE DEF s
  <2>4. cachedB' = <<s>> /\ groups' = GroupsOf(order, s)
    BY <1>2 DEF Notify, s
  <2> QED
    BY <1>2, <2>2, <2>3, <2>4 DEF Notify, Shape
<1>3. ASSUME ReadValues PROVE Shape'
  <2>1. cachedB' = cachedB \/ cachedB' = <<ViewBindings>>
    BY <1>3 DEF ReadValues
  <2>2. cachedV' = cachedV \/ cachedV' = <<ViewBindings>>
    BY <1>3 DEF ReadValues
  <2>3. obs' \in Seq(Values)
    BY <1>3, ViewTypes DEF ReadValues
  <2>4. <<ViewBindings>> \in Maybe(Seq(Bindings)) /\ <<ViewBindings>> \in Maybe(Seq(Values))
    BY ViewTypes, MaybeMakes
  <2>5. pc' \in {"collect", "resolving"}
    BY <1>3 DEF ReadValues
  <2> QED
    BY <1>3, <2>1, <2>2, <2>3, <2>4, <2>5 DEF ReadValues, Shape, call, work
<1>4. ASSUME Resolved PROVE Shape'
  <2>1. cachedB # <<>> => Paired(cachedB[1], obs) \in Seq(Values)
    <3> SUFFICES ASSUME cachedB # <<>> PROVE Paired(cachedB[1], obs) \in Seq(Values)
      OBVIOUS
    <3> DEFINE bs == cachedB[1]
    <3>1. bs \in Seq(Bindings) /\ obs \in Seq(Values)
      BY ViewTypes DEF Shape
    <3> HIDE DEF bs
    <3>2. Paired(bs, obs) \in Seq(Values)
      BY <3>1 DEF Paired, Values
    <3> QED
      BY <3>2 DEF bs
  <2>2. cachedV' \in Maybe(Seq(Values))
    BY <1>4, <2>1, MaybeMakes DEF Resolved, Maybe
  <2> QED
    BY <1>4, <2>2 DEF Resolved, Shape, call, work
<1>5. ASSUME Collect PROVE Shape'
  <2>1. bnds' \in Seq(Bindings) /\ cachedB' \in Maybe(Seq(Bindings))
    BY <1>5, ViewTypes, MaybeMakes DEF Collect
  <2>2. groups' \in Seq(Groups)
    BY <1>5, ReverseIs DEF Collect, Shape, Reversed
  <2>3. pc' \in {"idle", "groups"} /\ outcome' \in {"none", "ok", "failed", "unresolved"}
    BY <1>5 DEF Collect, Ends, Shape
  <2> QED
    BY <1>5, <2>1, <2>2, <2>3 DEF Collect, Shape, work
<1>6. ASSUME ValuesFail PROVE Shape'
  <2>1. cachedB' \in Maybe(Seq(Bindings))
    BY <1>6, ViewTypes, MaybeMakes DEF ValuesFail, Shape
  <2> QED
    BY <1>6, <2>1 DEF ValuesFail, Ends, Shape, call, work
<1> QED
  BY <1>2, <1>3, <1>4, <1>5, <1>6

\* The groups are notified.
LEMMA ShapeOfGroups ==
    ASSUME Shape,
           \/ AllDone \/ SkipDisabled \/ BeginGroup \/ InvokeNext \/ GroupDone
           \/ \E o \in Bindings : ObserverDone(o) \/ ObserverFails(o)
    PROVE  Shape'
<1>1. groups # <<>> => Tail(groups) \in Seq(Groups) /\ Head(groups) \in Groups
  BY DEF Shape
<1>2. CASE AllDone
  BY <1>2 DEF AllDone, Ends, Shape, view, call, work
<1>3. CASE SkipDisabled
  BY <1>1, <1>3 DEF SkipDisabled, Shape, view, work
<1>4. CASE BeginGroup
  <2> DEFINE bs == Head(groups).bindings
             os == ObserversOf(bs)
             called == {o \in ToSet(os) \ {Missing} : event \in Handles[o]}
  <2>1. bs \in Seq(Bindings)
    BY <1>1, <1>4 DEF BeginGroup, Groups
  <2>2. os \in Seq(Values)
    BY <2>1, TurnsAre DEF Shape
  <2>3. called \subseteq Bindings
    BY <2>2 DEF ToSet, Values
  <2>4. <<>> \in Seq(Values)
    OBVIOUS
  <2>5. /\ pc' \in {"idle", "notifying"} /\ outcome' \in {outcome, "failed"}
        /\ queue' \in {os, <<>>} /\ running' \in {running, called}
        /\ told' \in {told, told \cup called} /\ groups' = Tail(groups) /\ groups # <<>>
        /\ UNCHANGED <<view, parallel, order, event, obs, bnds, finished, members>>
    BY <1>4 DEF BeginGroup, Ends, ObserversOf, InTurn
  <2> HIDE DEF bs, os, called
  <2> QED
    BY <1>1, <2>2, <2>3, <2>4, <2>5 DEF Shape, view
<1>5. CASE InvokeNext
  <2>1. Tail(queue) \in Seq(Values) /\ Head(queue) \in Values
    BY <1>5 DEF InvokeNext, Shape
  <2>2. /\ pc' \in {"idle", pc} /\ outcome' \in {outcome, "failed"} /\ queue' = Tail(queue)
        /\ \/ UNCHANGED <<running, told>>
           \/ Head(queue) # Missing /\ running' \in {{}, {Head(queue)}}
                /\ told' = told \cup running'
        /\ UNCHANGED <<view, call, obs, bnds, finished, members>>
    BY <1>5 DEF InvokeNext, Ends
  <2> QED
    BY <2>1, <2>2 DEF Shape, view, call, Values
<1>6. CASE GroupDone
  BY <1>6 DEF GroupDone, Shape, view, call, work
<1>7. ASSUME NEW o \in Bindings, ObserverDone(o) PROVE Shape'
  BY <1>7 DEF ObserverDone, Shape, view, call
<1>8. ASSUME NEW o \in Bindings, ObserverFails(o) PROVE Shape'
  BY <1>8 DEF ObserverFails, Ends, Shape, view, call
<1> QED
  BY <1>2, <1>3, <1>4, <1>5, <1>6, <1>7, <1>8

LEMMA ShapeKept ==
    ASSUME Shape, [Next]_vars
    PROVE  Shape'
<1>1. CASE UNCHANGED vars
  BY <1>1 DEF vars, view, call, work, Shape
<1> QED
  BY <1>1, ShapeOfView, ShapeOfBeginning, ShapeOfGroups DEF Next

\* The view holds what it should, and only observers are told and kept.
THEOREM TypeCorrect == Spec => []TypeOK
<1>1. Shape => TypeOK
  <2>1. ASSUME Shape PROVE \A c \in {cachedB, cachedV} : Len(c) <= 1
    BY <2>1, MaybeOne DEF Shape
  <2>2. ASSUME Shape PROVE ToSet(queue) \subseteq Bindings \cup {Missing}
    BY <2>2 DEF Shape, ToSet, Values
  <2> QED
    BY <2>1, <2>2 DEF Shape, TypeOK
<1> QED
  BY <1>1, ShapeInitially, ShapeKept, PTL DEF Spec

-----------------------------------------------------------------------------
(* The invariant holds *)

\* Observers come and go between events, and the order of the groups is set first.
Orderly == Changes # "anytime" /\ Reorder # "anytime"

\* What is listed and how it is grouped.
LEMMA ListedIs ==
    ASSUME Shape
    PROVE  /\ Listed \in Seq(Bindings) /\ IsInjective(Listed) /\ ToSet(Listed) = ToSet(bound)
           /\ Ranked(order, Listed) /\ Sorted(order, Listed) = Listed
           /\ GroupsAre(GroupsOf(order, Listed), order, Listed)
           /\ ToSet(bound) \subseteq Bindings
<1>1. order \in Orders /\ bound \in Seq(Bindings) /\ IsInjective(bound)
  BY DEF Shape
<1>2. SortsThem(Listed, order, bound)
  BY <1>1, SortedIs DEF Listed
<1>3. Listed \in Seq(Bindings)
  BY <1>2 DEF SortsThem
<1>4. GroupsAre(GroupsOf(order, Listed), order, Listed)
  BY <1>1, <1>3, GroupsOfThem
<1>5. ToSet(bound) \subseteq Bindings
  BY <1>1 DEF ToSet
<1> QED
  BY <1>2, <1>4, <1>5 DEF SortsThem

LEMMA RegistryInitially == Init => RegistryIInv
<1> SUFFICES ASSUME Init PROVE RegistryIInv
  OBVIOUS
<1>1. Shape
  BY ShapeInitially
<1>2. Current /\ Collecting /\ Going
  BY DEF Init, Current, Collecting, Going
<1>3. Ending
  BY DEF Init, Ending, FailsOnlyWithObserver, EveryObserverTold
<1> QED
  BY <1>1, <1>2, <1>3 DEF RegistryIInv

\* A change of what is bound, observed or ordered happens between events.
LEMMA RegistryOfView ==
    ASSUME RegistryIInv, Orderly,
           \/ \E b \in Bindings : Add(b) \/ Unbind(b)
           \/ Observe
           \/ \E o \in Orders : SetOrderedGroups(o)
    PROVE  RegistryIInv'
<1>1. Shape'
  BY ShapeOfView DEF RegistryIInv
<1> USE DEF RegistryIInv
<1>2. ASSUME NEW b \in Bindings, Add(b) PROVE RegistryIInv'
  <2>1. pc = "idle" /\ Changes # "none" /\ pending' # 0
    BY <1>2 DEF Add, MayChange, Orderly, Shape
  <2>2. Current' /\ Collecting' /\ Going'
    BY <1>2, <2>1 DEF Add, Current, Collecting, Going, call
  <2>3. Ending'
    BY <1>2 DEF Add, Ending, FailsOnlyWithObserver, EveryObserverTold, Addressed, call, work
  <2> QED
    BY <1>1, <2>2, <2>3
<1>3. ASSUME NEW b \in Bindings, Unbind(b) PROVE RegistryIInv'
  <2>1. pc = "idle" /\ Changes # "none" /\ pending' # 0
    BY <1>3 DEF Unbind, MayChange, Orderly, Shape
  <2>2. Current' /\ Collecting' /\ Going'
    BY <1>3, <2>1 DEF Unbind, Current, Collecting, Going, call
  <2>3. Ending'
    <3>1. Addressed' \subseteq Addressed
      BY <1>3 DEF Unbind, Addressed, call
    <3> QED
      BY <1>3, <3>1 DEF Unbind, Ending, FailsOnlyWithObserver, EveryObserverTold, call, work
  <2> QED
    BY <1>1, <2>2, <2>3
<1>4. CASE Observe
  <2>1. pc = "idle" /\ Changes # "none"
    BY <1>4 DEF Observe, Current, Shape
  <2>2. Current' /\ Collecting' /\ Going'
    BY <1>4, <2>1 DEF Observe, Current, Collecting, Going, call
  <2>3. Ending'
    BY <1>4 DEF Observe, Ending, FailsOnlyWithObserver, EveryObserverTold, Addressed, call, work
  <2> QED
    BY <1>1, <2>2, <2>3
<1>5. ASSUME NEW o \in Orders, SetOrderedGroups(o) PROVE RegistryIInv'
  <2>1. event = "none" /\ pc = "idle" /\ cachedB = <<>> /\ cachedV = <<>>
    BY <1>5 DEF SetOrderedGroups, Orderly, Current
  <2>2. Current' /\ Collecting' /\ Going'
    BY <1>5, <2>1 DEF SetOrderedGroups, Current, Collecting, Going, view
  <2>3. Ending'
    BY <1>5, <2>1 DEF SetOrderedGroups, Ending, FailsOnlyWithObserver, EveryObserverTold, work
  <2> QED
    BY <1>1, <2>2, <2>3
<1> QED
  BY <1>2, <1>3, <1>4, <1>5

\* An event is notified: what the view lists is sorted, in place.
LEMMA RegistryOfNotify ==
    ASSUME RegistryIInv, Orderly, NEW e \in Events, Notify(e)
    PROVE  RegistryIInv'
<1> USE DEF RegistryIInv
<1>1. Shape'
  BY ShapeOfBeginning
<1>2. pending = 0 /\ pc = "idle" /\ running = {} /\ queue = <<>>
  BY ConstantsAssumption DEF Notify, Orderly, Current, Ending
<1>3. Sorted(order, ViewBindings) = Listed
  <2>1. cachedB = <<>> \/ cachedB = <<Listed>>
    BY <1>2 DEF Current
  <2>2. ViewBindings = bound \/ ViewBindings = Listed
    BY <2>1 DEF ViewBindings
  <2>3. Sorted(order, bound) = Listed /\ Sorted(order, Listed) = Listed
    BY ListedIs DEF Listed
  <2> QED
    BY <2>2, <2>3, Zenon
<1>4. Listed' = Listed
  BY DEF Notify, Listed
<1>5. cachedB' = <<Listed>> /\ groups' = GroupsOf(order, Listed)
  BY <1>3, Zenon DEF Notify
<1>6. /\ event' = e /\ pc' = "tick" /\ outcome' = "none" /\ told' = {} /\ finished' = {}
      /\ members' = ToSet(bound)
      /\ UNCHANGED <<bound, pending, cachedV, order, queue, running>>
  BY DEF Notify
<1>7. Current' /\ Collecting'
  BY <1>2, <1>4, <1>5, <1>6 DEF Current, Collecting, Events
<1>8. Going' /\ Ending'
  BY <1>2, <1>6 DEF Going, Ending, FailsOnlyWithObserver, EveryObserverTold
<1> QED
  BY <1>1, <1>7, <1>8

\* The values are read: each is where its binding is listed.
LEMMA RegistryOfReading ==
    ASSUME RegistryIInv, ReadValues \/ Resolved
    PROVE  RegistryIInv'
<1> USE DEF RegistryIInv
<1>1. Shape'
  BY ShapeOfBeginning
<1>2. /\ pc \in {"tick", "resolving"} /\ pc' \in {"resolving", "collect"} /\ pending = 0
      /\ UNCHANGED <<bound, pending, call, work, outcome, members>>
  BY DEF ReadValues, Resolved, Current
<1>3. cachedB = <<Listed>> /\ ViewBindings = Listed /\ cachedV \in {<<>>, <<Listed>>}
  BY <1>2 DEF Collecting, Current, ViewBindings
<1>4. Listed' = Listed
  BY <1>2 DEF Listed, call
<1>5. cachedB' = <<Listed>> /\ obs' = Listed
  BY <1>2, <1>3 DEF ReadValues, Resolved, Collecting
<1>6. cachedV' \in {<<>>, <<Listed>>}
  <2>1. CASE ReadValues
    BY <1>3, <2>1 DEF ReadValues
  <2>2. CASE Resolved
    <3>1. obs = Listed
      BY <2>2 DEF Resolved, Collecting
    <3>2. Paired(Listed, Listed) = Listed
      <4>1. Listed \in Seq(Bindings)
        BY ListedIs
      <4> DEFINE l == Listed
      <4> HIDE DEF l
      <4>2. l \in Seq(Bindings)
        BY <4>1 DEF l
      <4>3. Paired(l, l) = l
        BY <4>2 DEF Paired
      <4> QED
        BY <4>3 DEF l
    <3> QED
      BY <1>3, <2>2, <3>1, <3>2 DEF Resolved
  <2> QED
    BY <2>1, <2>2
<1>7. Current' /\ Collecting'
  BY <1>2, <1>4, <1>5, <1>6 DEF Current, Collecting, call, work
<1>8. Going' /\ Ending'
  BY <1>2 DEF Going, Ending, FailsOnlyWithObserver, EveryObserverTold, call, work
<1> QED
  BY <1>1, <1>7, <1>8

\* An observer cannot be instantiated: the view lists what it listed, and none is told.
LEMMA RegistryOfFailure ==
    ASSUME RegistryIInv, ValuesFail
    PROVE  RegistryIInv'
<1> USE DEF RegistryIInv
<1>1. Shape'
  BY ShapeOfBeginning
<1>2. /\ pc \in {"tick", "resolving"} /\ pc' = "idle" /\ outcome' = "unresolved"
      /\ pending = 0 /\ UNCHANGED <<bound, pending, cachedV, call, work, members>>
  BY DEF ValuesFail, Ends, Current
<1>3. cachedB = <<Listed>> /\ ViewBindings = Listed
  BY <1>2 DEF Collecting, Current, ViewBindings
<1>4. Listed' = Listed
  BY <1>2 DEF Listed, call
<1>5. cachedB' = <<Listed>>
  BY <1>3 DEF ValuesFail
<1>6. told = {}
  BY <1>2 DEF Collecting
<1>7. Current' /\ Collecting' /\ Going'
  BY <1>2, <1>3, <1>4, <1>5 DEF Current, Collecting, Going, call, work
<1>8. Ending'
  BY <1>2, <1>6 DEF Ending, FailsOnlyWithObserver, EveryObserverTold, call, work
<1> QED
  BY <1>1, <1>7, <1>8

\* Array.find(): the first observer that is undefined or has the method.
IsFirstHandler(first, s, e) ==
    \/ first = 0 /\ \A o \in ToSet(s) : o # Missing /\ e \notin Handles[o]
    \/ first \in DOMAIN s

LEMMA HandlerIs ==
    ASSUME NEW s \in Seq(Values), NEW e
    PROVE  IsFirstHandler(SelectInSeq(s, LAMBDA o : o = Missing \/ e \in Handles[o]), s, e)
<1> DEFINE I == {i \in 1 .. Len(s) : s[i] = Missing \/ e \in Handles[s[i]]}
           first == SelectInSeq(s, LAMBDA o : o = Missing \/ e \in Handles[o])
<1>1. first = IF I # {} THEN CHOOSE x \in I : \A y \in I : x <= y ELSE 0
  BY DEF SelectInSeq, Min
<1>2. Len(s) \in Nat /\ DOMAIN s = 1 .. Len(s) /\ I \in SUBSET Nat /\ I \subseteq DOMAIN s
  OBVIOUS
<1> HIDE DEF first
<1>3. CASE I = {}
  <2>1. first = 0
    BY <1>1, <1>3
  <2>2. \A i \in DOMAIN s : ~(s[i] = Missing \/ e \in Handles[s[i]])
    BY <1>2, <1>3
  <2>3. \A o \in ToSet(s) : \E i \in DOMAIN s : o = s[i]
    BY DEF ToSet
  <2>4. \A o \in ToSet(s) : o # Missing /\ e \notin Handles[o]
    BY <2>2, <2>3
  <2> QED
    BY <2>1, <2>4 DEF IsFirstHandler, first
<1>4. CASE I # {}
  <2> HIDE DEF I
  <2>1. first = CHOOSE x \in I : \A y \in I : x <= y
    BY <1>1, <1>4
  <2>2. \E x \in I : \A y \in I : x <= y
    BY <1>2, <1>4, LeastElement
  <2>3. first \in I
    BY <2>1, <2>2, Zenon
  <2>4. first \in DOMAIN s
    BY <1>2, <2>3
  <2> QED
    BY <2>4 DEF IsFirstHandler, first
<1> QED
  BY <1>3, <1>4

\* In whatever order the groups of what is listed are notified.
LEMMA GroupsListed ==
    ASSUME Shape, NEW gs \in {GroupsOf(order, Listed), Reverse(GroupsOf(order, Listed))}
    PROVE  /\ gs \in Seq(Groups)
           /\ \A i \in DOMAIN gs : Whole(gs[i])
           /\ \A i, j \in DOMAIN gs : gs[i].group = gs[j].group => i = j
           /\ \A b \in ToSet(bound) : \E i \in DOMAIN gs : b \in ToSet(gs[i].bindings)
<1> DEFINE all == GroupsOf(order, Listed)
<1>1. /\ all \in Seq(Groups)
      /\ \A i \in DOMAIN all : Whole(all[i])
      /\ \A i, j \in DOMAIN all : all[i].group = all[j].group => i = j
      /\ \A b \in ToSet(bound) : \E i \in DOMAIN all : all[i].group = GroupOf(order, b)
  <2>1. GroupsAre(all, order, Listed) /\ ToSet(Listed) = ToSet(bound) /\ IsInjective(Listed)
    BY ListedIs
  <2> HIDE DEF all
  <2> QED
    BY <2>1 DEF GroupsAre, Whole
<1> HIDE DEF all
<1>2. \A b \in ToSet(bound) : \E i \in DOMAIN all : b \in ToSet(all[i].bindings)
  BY <1>1 DEF Whole
<1>3. CASE gs = all
  BY <1>1, <1>2, <1>3
<1>4. CASE gs = Reverse(all)
  <2>1. /\ gs \in Seq(Groups) /\ DOMAIN gs = 1 .. Len(all) /\ DOMAIN all = 1 .. Len(all)
        /\ Len(all) \in Nat
        /\ \A i \in 1 .. Len(all) :
              gs[i] = all[(Len(all) - i) + 1] /\ (Len(all) - i) + 1 \in 1 .. Len(all)
    BY <1>1, <1>4, ReverseIs DEF Reversed
  <2>2. \A i \in 1 .. Len(all) : i = (Len(all) - ((Len(all) - i) + 1)) + 1
    BY <2>1
  <2>3. \A i \in DOMAIN all : \E j \in DOMAIN gs : gs[j] = all[i]
    BY <2>1, <2>2
  <2>4. \A i, j \in DOMAIN gs : gs[i].group = gs[j].group => i = j
    <3>1. SUFFICES ASSUME NEW i \in DOMAIN gs, NEW j \in DOMAIN gs, gs[i].group = gs[j].group
                   PROVE  i = j
      OBVIOUS
    <3>2. (Len(all) - i) + 1 = (Len(all) - j) + 1
      BY <1>1, <2>1, <3>1
    <3> QED
      BY <2>1, <2>2, <3>2
  <2>5. \A i \in DOMAIN gs : Whole(gs[i])
    BY <1>1, <2>1
  <2>6. \A b \in ToSet(bound) : \E j \in DOMAIN gs : b \in ToSet(gs[j].bindings)
    <3>1. SUFFICES ASSUME NEW b \in ToSet(bound)
                   PROVE  \E j \in DOMAIN gs : b \in ToSet(gs[j].bindings)
      OBVIOUS
    <3>2. PICK i \in DOMAIN all : b \in ToSet(all[i].bindings)
      BY <1>2
    <3>3. PICK j \in DOMAIN gs : gs[j] = all[i]
      BY <2>3
    <3> QED
      BY <3>2, <3>3
  <2> QED
    BY <2>1, <2>4, <2>5, <2>6
<1> QED
  BY <1>3, <1>4 DEF all

\* The observers have been collected.
LEMMA RegistryOfCollect ==
    ASSUME RegistryIInv, Collect
    PROVE  RegistryIInv'
<1> USE DEF RegistryIInv
<1>1. Shape'
  BY ShapeOfBeginning
<1> DEFINE first == SelectInSeq(obs, LAMBDA o : o = Missing \/ event \in Handles[o])
<1>2. /\ pc = "collect" /\ cachedB = <<Listed>> /\ obs = Listed /\ ViewBindings = Listed
      /\ groups = GroupsOf(order, Listed) /\ members = ToSet(bound) /\ pending = 0
      /\ told = {} /\ finished = {} /\ running = {} /\ queue = <<>> /\ event # "none"
  BY DEF Collect, Collecting, Current, ViewBindings
<1>3. /\ cachedB' = <<Listed>> /\ bnds' = Listed
      /\ groups' \in {GroupsOf(order, Listed), Reverse(GroupsOf(order, Listed))}
      /\ UNCHANGED <<bound, pending, cachedV, order, event, obs, work, members>>
  BY <1>2 DEF Collect
<1>4. Listed' = Listed
  BY <1>3 DEF Listed
<1>5. obs \in Seq(Values) /\ Missing \notin ToSet(obs)
      /\ ToSet(obs) = ToSet(bound) /\ ToSet(bound) \subseteq Bindings
  BY <1>2, ListedIs, ConstantsAssumption DEF Shape
<1>6. \/ first = 0 /\ \A o \in ToSet(obs) : o # Missing /\ event \notin Handles[o]
      \/ first \in DOMAIN obs
  <2>1. IsFirstHandler(first, obs, event)
    BY <1>5, HandlerIs
  <2> QED
    BY <2>1 DEF IsFirstHandler
<1>7. \/ first = 0 /\ Ends("ok")
      \/ first # 0 /\ obs[first] = Missing /\ Ends("failed")
      \/ first # 0 /\ obs[first] # Missing /\ pc' = "groups" /\ UNCHANGED outcome
  BY DEF Collect
<1> HIDE DEF first
<1>8. Current' /\ Collecting'
  BY <1>2, <1>3, <1>4, <1>7 DEF Current, Collecting, Ends
<1>9. obs[first] # Missing \/ first = 0
  <2>1. first \in DOMAIN obs => obs[first] \in ToSet(obs)
    BY DEF ToSet
  <2> QED
    BY <1>5, <1>6, <2>1
<1>10. CASE first = 0 /\ Ends("ok")
  <2>1. Addressed' = {}
    <3>1. 0 \notin DOMAIN obs
      BY <1>5
    <3> QED
      BY <1>2, <1>3, <1>5, <1>6, <1>10, <3>1 DEF Addressed
  <2>2. Going' /\ Ending'
    BY <1>2, <1>3, <1>10, <2>1
    DEF Going, Ending, Ends, FailsOnlyWithObserver, EveryObserverTold, work
  <2> QED
    BY <1>1, <1>8, <2>2
<1>11. CASE pc' = "groups" /\ UNCHANGED outcome
  <2>1. Ending'
    BY <1>2, <1>3, <1>11 DEF Ending, FailsOnlyWithObserver, EveryObserverTold, work
  <2>2. /\ \A i \in DOMAIN groups' : Whole(groups'[i])
        /\ \A i, j \in DOMAIN groups' : groups'[i].group = groups'[j].group => i = j
        /\ \A b \in ToSet(bound) : \E i \in DOMAIN groups' : b \in ToSet(groups'[i].bindings)
    BY <1>3, GroupsListed
  <2>3. Addressed' \subseteq ToSet(bound)
    BY <1>2, <1>3 DEF Addressed
  <2>4. ToSet(queue') = {} /\ IsInjective(queue') /\ queue' = <<>> /\ told' = {} /\ running' = {}
    BY <1>2, <1>3 DEF work, ToSet, IsInjective
  <2>5. \A g : Whole(g) => Whole(g)'
    BY <1>3 DEF Whole
  <2>6. Going'
    BY <1>2, <1>3, <1>4, <2>2, <2>3, <2>4, <2>5 DEF Going, Reached
  <2> QED
    BY <1>1, <1>8, <2>1, <2>6
<1> QED
  BY <1>7, <1>9, <1>10, <1>11

-----------------------------------------------------------------------------
(* One group after the other *)

\* The next group and those after it.
LEMMA NextGroup ==
    ASSUME Shape, groups # <<>>
    PROVE  /\ 1 \in DOMAIN groups /\ Head(groups) = groups[1] /\ groups[1] \in Groups
           /\ \A i \in DOMAIN Tail(groups) :
                 i + 1 \in DOMAIN groups /\ Tail(groups)[i] = groups[i + 1] /\ i + 1 # 1
           /\ \A i \in DOMAIN groups : i # 1 =>
                 i - 1 \in DOMAIN Tail(groups) /\ Tail(groups)[i - 1] = groups[i]
BY DEF Shape

\* What the groups after the next one are to what has been reached and to what is left.
LeftTo(left) ==
    /\ \A i \in DOMAIN left : Whole(left[i])
    /\ \A i, j \in DOMAIN left : left[i].group = left[j].group => i = j
    /\ \A i \in DOMAIN left, b \in Reached \cup ToSet(Head(groups).bindings) :
          GroupOf(order, b) # left[i].group
    /\ \A b \in Addressed :
          \/ b \in finished \cup running \cup ToSet(queue)
          \/ b \in ToSet(Head(groups).bindings)
          \/ \E i \in DOMAIN left : b \in ToSet(left[i].bindings)

LEMMA GroupsLeft ==
    ASSUME RegistryIInv, pc \in {"groups", "notifying"}, groups # <<>>
    PROVE  LeftTo(Tail(groups))
<1> USE DEF RegistryIInv
<1> DEFINE left == Tail(groups)
<1>1. /\ 1 \in DOMAIN groups /\ Head(groups) = groups[1]
      /\ \A i \in DOMAIN left : i + 1 \in DOMAIN groups /\ left[i] = groups[i + 1] /\ i + 1 # 1
      /\ \A i \in DOMAIN groups : i # 1 => i - 1 \in DOMAIN left /\ left[i - 1] = groups[i]
  BY NextGroup
<1>2. left \in Seq(Groups)
  BY DEF Shape
<1> HIDE DEF left
<1>3. \A i \in DOMAIN left : Whole(left[i])
  BY <1>1 DEF Going
<1>4. ASSUME NEW i \in DOMAIN left, NEW j \in DOMAIN left, left[i].group = left[j].group
      PROVE  i = j
  <2>1. i + 1 = j + 1
    BY <1>1, <1>4 DEF Going
  <2> QED
    BY <1>2, <2>1
<1>5. ASSUME NEW i \in DOMAIN left, NEW b \in ToSet(groups[1].bindings)
      PROVE  GroupOf(order, b) # left[i].group
  <2>1. Whole(groups[1]) /\ groups[i + 1].group # groups[1].group
    BY <1>1 DEF Going
  <2> QED
    BY <1>1, <2>1 DEF Whole
<1>6. \A i \in DOMAIN left, b \in Reached : GroupOf(order, b) # left[i].group
  BY <1>1 DEF Going
<1>7. ASSUME NEW b \in Addressed, b \notin finished \cup running \cup ToSet(queue)
      PROVE  \/ b \in ToSet(groups[1].bindings)
             \/ \E i \in DOMAIN left : b \in ToSet(left[i].bindings)
  <2>1. PICK i \in DOMAIN groups : b \in ToSet(groups[i].bindings)
    BY <1>7 DEF Going
  <2> QED
    BY <1>1, <2>1
<1>8. LeftTo(left)
  BY <1>1, <1>3, <1>4, <1>5, <1>6, <1>7 DEF LeftTo
<1> QED
  BY <1>8 DEF left

\* A group is taken off the list.
LEMMA GroupTaken ==
    ASSUME RegistryIInv, pc \in {"groups", "notifying"}, groups # <<>>, groups' = Tail(groups),
           UNCHANGED <<view, order, event, obs, bnds, members>>
    PROVE  /\ Current /\ pc' # "idle" => Current'
           /\ (obs = Listed /\ bnds = Listed /\ members = ToSet(bound))'
           /\ (\A i \in DOMAIN groups : Whole(groups[i]))'
           /\ (\A i, j \in DOMAIN groups : groups[i].group = groups[j].group => i = j)'
           /\ Addressed' = Addressed
           /\ LeftTo(groups')
           /\ \A b : GroupOf(order, b)' = GroupOf(order, b)
<1> USE DEF RegistryIInv
<1>1. Listed' = Listed /\ Addressed' = Addressed /\ \A g : Whole(g)' <=> Whole(g)
  BY DEF Listed, Addressed, Whole, view
<1>2. LeftTo(groups')
  <2>1. LeftTo(Tail(groups))
    BY GroupsLeft
  <2> QED
    BY <2>1, Zenon
<1>3. (\A i \in DOMAIN groups : Whole(groups[i]))'
  BY <1>1, <1>2 DEF LeftTo
<1>4. (\A i, j \in DOMAIN groups : groups[i].group = groups[j].group => i = j)'
  BY <1>2 DEF LeftTo
<1>5. (obs = Listed /\ bnds = Listed /\ members = ToSet(bound))'
  BY <1>1 DEF Going, view
<1>6. Current /\ pc' # "idle" => Current'
  BY <1>1 DEF Current, view
<1> QED
  BY <1>1, <1>2, <1>3, <1>4, <1>5, <1>6

\* A disabled group is passed over: none of its observers is addressed.
LEMMA RegistryOfSkip ==
    ASSUME RegistryIInv, Shape', SkipDisabled
    PROVE  RegistryIInv'
<1> USE DEF RegistryIInv
<1>1. /\ pc = "groups" /\ groups # <<>> /\ groups' = Tail(groups)
      /\ Head(groups).group \in Disabled
      /\ UNCHANGED <<view, order, event, pc, obs, bnds, work, outcome, members>>
  BY DEF SkipDisabled
<1>2. /\ Current /\ pc' # "idle" => Current'
      /\ (obs = Listed /\ bnds = Listed /\ members = ToSet(bound))'
      /\ (\A i \in DOMAIN groups : Whole(groups[i]))'
      /\ (\A i, j \in DOMAIN groups : groups[i].group = groups[j].group => i = j)'
      /\ Addressed' = Addressed
      /\ LeftTo(groups')
  BY <1>1, GroupTaken
<1>3. \A b \in Addressed : b \notin ToSet(Head(groups).bindings)
  <2>1. Whole(Head(groups))
    BY <1>1, NextGroup DEF Going
  <2> QED
    BY <1>1, <2>1 DEF Whole, Addressed
<1>4. Reached' = Reached
  BY <1>1 DEF Reached, work
<1>5. Going'
  <2>1. (IsInjective(queue) /\ ToSet(queue) \subseteq Bindings \ told)'
    BY <1>1 DEF Going, work
  <2>2. \A b \in Addressed' :
           \/ b \in (finished \cup running \cup ToSet(queue))'
           \/ \E i \in DOMAIN groups' : b \in ToSet(groups'[i].bindings)
    BY <1>1, <1>2, <1>3 DEF LeftTo, work
  <2>3. \A i \in DOMAIN groups', b \in Reached' : GroupOf(order, b)' # groups'[i].group
    BY <1>1, <1>2, <1>4 DEF LeftTo
  <2>4. \A b \in Reached' : GroupOf(order, b)' \notin Disabled
    BY <1>1, <1>4 DEF Going
  <2>5. pc' = "groups" => running' = {} /\ queue' = <<>>
    BY <1>1 DEF Going, work
  <2> QED
    BY <1>2, <2>1, <2>2, <2>3, <2>4, <2>5 DEF Going
<1>6. Current' /\ Collecting'
  BY <1>1, <1>2 DEF Collecting
<1>7. Ending'
  BY <1>1, <1>2 DEF Ending, FailsOnlyWithObserver, EveryObserverTold, work
<1> QED
  BY <1>5, <1>6, <1>7

\* The observers of the next group are all there, and none of them has been told.
LEMMA NextObservers ==
    ASSUME RegistryIInv, pc = "groups", groups # <<>>, NEW os,
           os = ObserversOf(Head(groups).bindings)
    PROVE  /\ os \in Seq(Values) /\ IsInjective(os)
           /\ ToSet(os) = ToSet(Head(groups).bindings)
           /\ ToSet(os) \subseteq Bindings \ told /\ Missing \notin ToSet(os)
           /\ \A b \in ToSet(os) : GroupOf(order, b) = Head(groups).group
<1> USE DEF RegistryIInv
<1> DEFINE bs == Head(groups).bindings
<1>1. /\ Whole(Head(groups)) /\ bs \in Seq(Bindings)
      /\ \A b \in Reached : GroupOf(order, b) # Head(groups).group
  BY NextGroup DEF Going, Groups
<1>2. /\ obs \in Seq(Values) /\ bnds \in Seq(Bindings) /\ obs = bnds
      /\ ToSet(bs) \subseteq ToSet(bnds) /\ ToSet(bound) \subseteq Bindings
  BY <1>1, ListedIs DEF Going, Shape, Whole
<1> HIDE DEF bs
<1>3. /\ os \in Seq(Values) /\ ToSet(os) = ToSet(bs)
      /\ IsInjective(bs) => IsInjective(os)
  <2>1. os = ObserversOf(bs)
    BY DEF bs
  <2> QED
    BY <1>1, <1>2, <2>1, TurnsAre
<1>4. \A b \in ToSet(bs) : b \in ToSet(bound) /\ GroupOf(order, b) = Head(groups).group
  BY <1>1 DEF Whole, bs
<1>5. IsInjective(os)
  BY <1>1, <1>3 DEF Whole, bs
<1>6. ToSet(os) \subseteq Bindings \ told
  BY <1>1, <1>2, <1>3, <1>4 DEF Reached
<1> QED
  BY <1>3, <1>4, <1>5, <1>6, ConstantsAssumption DEF bs

\* A group begins: its observers are told, or are next.
LEMMA RegistryOfBegin ==
    ASSUME RegistryIInv, Shape', BeginGroup
    PROVE  RegistryIInv'
<1> USE DEF RegistryIInv
<1> DEFINE os == ObserversOf(Head(groups).bindings)
           called == {o \in ToSet(os) \ {Missing} : event \in Handles[o]}
<1>1. /\ pc = "groups" /\ groups # <<>> /\ Head(groups).group \notin Disabled
      /\ groups' = Tail(groups)
      /\ \/ /\ parallel # "true" /\ queue' = os /\ pc' = "notifying"
            /\ UNCHANGED <<running, told, outcome>>
         \/ /\ parallel = "true" /\ queue' = <<>>
            /\ running' = called /\ told' = told \cup called
            /\ IF Missing \in ToSet(os) THEN Ends("failed")
               ELSE pc' = "notifying" /\ UNCHANGED outcome
      /\ UNCHANGED <<view, parallel, order, event, obs, bnds, finished, members>>
  BY Zenon DEF BeginGroup, ObserversOf, InTurn
<1>2. /\ Current /\ pc' # "idle" => Current'
      /\ (obs = Listed /\ bnds = Listed /\ members = ToSet(bound))'
      /\ (\A i \in DOMAIN groups : Whole(groups[i]))'
      /\ (\A i, j \in DOMAIN groups : groups[i].group = groups[j].group => i = j)'
      /\ Addressed' = Addressed
      /\ LeftTo(groups')
  BY <1>1, GroupTaken
<1>3. /\ os \in Seq(Values) /\ IsInjective(os)
      /\ ToSet(os) = ToSet(Head(groups).bindings)
      /\ ToSet(os) \subseteq Bindings \ told /\ Missing \notin ToSet(os)
      /\ \A b \in ToSet(os) : GroupOf(order, b) = Head(groups).group
  BY <1>1, NextObservers
<1>4. running = {} /\ queue = <<>> /\ ToSet(queue) = {} /\ outcome = "none" /\ event # "none"
  BY <1>1 DEF Going, Ending, ToSet, Current
<1>5. pc' = "notifying" /\ outcome' = "none"
  BY <1>1, <1>3, <1>4
<1> HIDE DEF os
<1>6. Current' /\ Collecting'
  BY <1>1, <1>2, <1>5 DEF Collecting
<1>7. Reached' \subseteq Reached \cup ToSet(os) /\ told' \subseteq told \cup ToSet(os)
  BY <1>1, <1>4 DEF Reached, ToSet
<1>8. \A b \in Addressed : b \in ToSet(os) => b \in running' \cup ToSet(queue')
  BY <1>1, <1>3 DEF Addressed
<1>9. Going'
  <2>1. (IsInjective(queue) /\ ToSet(queue) \subseteq Bindings \ told)'
    <3>1. IsInjective(<<>>) /\ ToSet(<<>>) = {}
      BY DEF IsInjective, ToSet
    <3> QED
      BY <1>1, <1>3, <3>1
  <2>2. \A b \in Addressed' :
           \/ b \in (finished \cup running \cup ToSet(queue))'
           \/ \E i \in DOMAIN groups' : b \in ToSet(groups'[i].bindings)
    BY <1>1, <1>2, <1>3, <1>4, <1>8 DEF LeftTo
  <2>3. \A i \in DOMAIN groups', b \in Reached' : GroupOf(order, b)' # groups'[i].group
    BY <1>1, <1>2, <1>3, <1>7 DEF LeftTo
  <2>4. \A b \in Reached' : GroupOf(order, b)' \notin Disabled
    BY <1>1, <1>3, <1>7 DEF Going
  <2> QED
    BY <1>2, <1>5, <2>1, <2>2, <2>3, <2>4 DEF Going
<1>10. Ending'
  <2>1. (running \cap finished = {} /\ running \cup finished \subseteq told)'
    BY <1>1, <1>3, <1>4 DEF Ending
  <2> QED
    BY <1>5, <2>1 DEF Ending, FailsOnlyWithObserver, EveryObserverTold
<1> QED
  BY <1>6, <1>9, <1>10

\* The next observer of the group is told.
LEMMA RegistryOfInvoke ==
    ASSUME RegistryIInv, Shape', InvokeNext
    PROVE  RegistryIInv'
<1> USE DEF RegistryIInv
<1> DEFINE o == Head(queue)
           called == IF event \in Handles[o] THEN {o} ELSE {}
<1>1. /\ pc = "notifying" /\ running = {} /\ queue # <<>> /\ queue' = Tail(queue)
      /\ \/ o = Missing /\ Ends("failed") /\ UNCHANGED <<running, told>>
         \/ /\ o # Missing /\ running' = called /\ told' = told \cup called
            /\ UNCHANGED <<pc, outcome>>
      /\ UNCHANGED <<view, call, obs, bnds, finished, members>>
  BY DEF InvokeNext
<1>2. /\ queue \in Seq(Values) /\ IsInjective(queue) /\ ToSet(queue) \subseteq Bindings \ told
  BY <1>1 DEF Going, Shape
<1>3. /\ IsInjective(Tail(queue)) /\ o \notin ToSet(Tail(queue))
      /\ ToSet(queue) = {o} \cup ToSet(Tail(queue))
  BY <1>1, <1>2, TailOnce
<1> HIDE DEF o
<1>4. o \in Bindings /\ o \notin told /\ o # Missing
  BY <1>2, <1>3, ConstantsAssumption
<1>5. /\ running' = called /\ told' = told \cup called /\ UNCHANGED <<pc, outcome>>
      /\ called \subseteq {o} /\ ToSet(queue') = ToSet(Tail(queue))
  BY <1>1, <1>4
<1>6. Listed' = Listed /\ Addressed' = Addressed /\ \A g : Whole(g)' <=> Whole(g)
  BY <1>1 DEF Listed, Addressed, Whole, view, call
<1>7. Current' /\ Collecting'
  BY <1>1, <1>5, <1>6 DEF Current, Collecting, view, call
<1>8. Reached' \subseteq Reached
  BY <1>3, <1>5 DEF Reached
<1>9. \A b \in Addressed : b \in ToSet(queue) => b \in (running \cup ToSet(queue))'
  BY <1>3, <1>5 DEF Addressed
<1>10. Going'
  <2>1. (IsInjective(queue) /\ ToSet(queue) \subseteq Bindings \ told)'
    BY <1>1, <1>2, <1>3, <1>5
  <2>2. \A b \in Addressed' :
           \/ b \in (finished \cup running \cup ToSet(queue))'
           \/ \E i \in DOMAIN groups' : b \in ToSet(groups'[i].bindings)
    BY <1>1, <1>6, <1>9 DEF Going, call
  <2>3. (obs = Listed /\ bnds = Listed /\ members = ToSet(bound))'
    BY <1>1, <1>6 DEF Going, view
  <2>4. (\A i \in DOMAIN groups : Whole(groups[i]))'
    BY <1>1, <1>6 DEF Going, call
  <2>5. /\ (\A i, j \in DOMAIN groups : groups[i].group = groups[j].group => i = j)'
        /\ \A i \in DOMAIN groups', b \in Reached' : GroupOf(order, b)' # groups'[i].group
        /\ \A b \in Reached' : GroupOf(order, b)' \notin Disabled
    BY <1>1, <1>8 DEF Going, call
  <2> QED
    BY <1>1, <1>5, <2>1, <2>2, <2>3, <2>4, <2>5 DEF Going
<1>11. Ending'
  <2>1. (running \cap finished = {} /\ running \cup finished \subseteq told)'
    BY <1>1, <1>4, <1>5 DEF Ending
  <2>2. outcome' = "none" /\ pc' = "notifying"
    BY <1>1, <1>5 DEF Ending
  <2> QED
    BY <2>1, <2>2 DEF Ending, FailsOnlyWithObserver, EveryObserverTold
<1> QED
  BY <1>7, <1>10, <1>11

\* An observer settles: the first one that fails ends the notification.
LEMMA RegistryOfObserver ==
    ASSUME RegistryIInv, Shape', NEW o \in Bindings, ObserverDone(o) \/ ObserverFails(o)
    PROVE  RegistryIInv'
<1> USE DEF RegistryIInv
<1>1. /\ o \in running /\ running' = running \ {o}
      /\ UNCHANGED <<view, call, obs, bnds, queue, told, members>>
  BY DEF ObserverDone, ObserverFails
<1>2. pc \in {"idle", "notifying"} /\ outcome # "ok"
  BY <1>1 DEF Collecting, Going, Ending, Shape
<1>3. Listed' = Listed /\ Addressed' = Addressed /\ \A g : Whole(g)' <=> Whole(g)
  BY <1>1 DEF Listed, Addressed, Whole, view, call
<1>4. CASE ObserverDone(o)
  <2>1. finished' = finished \cup {o} /\ UNCHANGED <<pc, outcome>>
    BY <1>4 DEF ObserverDone
  <2>2. Current' /\ Collecting'
    BY <1>1, <1>2, <1>3, <2>1 DEF Current, Collecting, view, call
  <2>3. (finished \cup running)' = finished \cup running
    BY <1>1, <2>1
  <2>4. Ending'
    <3>1. (running \cap finished = {} /\ running \cup finished \subseteq told)'
      BY <1>1, <2>1 DEF Ending
    <3>2. FailsOnlyWithObserver'
      BY <1>1, <2>1, <2>3 DEF Ending, FailsOnlyWithObserver
    <3>3. (pc = "idle" <=> outcome # "none")' /\ outcome' # "ok"
      BY <1>2, <2>1 DEF Ending
    <3> QED
      BY <3>1, <3>2, <3>3 DEF Ending, EveryObserverTold
  <2>5. Going'
    <3>1. SUFFICES ASSUME pc' = "notifying" PROVE Going'
      BY <1>2, <2>1 DEF Going
    <3>2. Reached' = Reached
      BY <1>1 DEF Reached
    <3>3. \A b \in Addressed' :
             \/ b \in (finished \cup running \cup ToSet(queue))'
             \/ \E i \in DOMAIN groups' : b \in ToSet(groups'[i].bindings)
      BY <1>1, <1>3, <2>1, <2>3, <3>1 DEF Going, call
    <3>4. (obs = Listed /\ bnds = Listed /\ members = ToSet(bound))'
      BY <1>1, <1>3, <2>1, <3>1 DEF Going, view
    <3>5. (\A i \in DOMAIN groups : Whole(groups[i]))'
      BY <1>1, <1>3, <2>1, <3>1 DEF Going, call
    <3>6. /\ (\A i, j \in DOMAIN groups : groups[i].group = groups[j].group => i = j)'
          /\ \A i \in DOMAIN groups', b \in Reached' : GroupOf(order, b)' # groups'[i].group
          /\ \A b \in Reached' : GroupOf(order, b)' \notin Disabled
          /\ (IsInjective(queue) /\ ToSet(queue) \subseteq Bindings \ told)'
      BY <1>1, <2>1, <3>1, <3>2 DEF Going, call
    <3> QED
      BY <3>1, <3>3, <3>4, <3>5, <3>6 DEF Going
  <2> QED
    BY <2>2, <2>4, <2>5
<1>5. CASE ObserverFails(o)
  <2> o \in told /\ outcome # "unresolved"
    BY <1>5 DEF ObserverFails, Ending, FailsOnlyWithObserver
  <2>1. /\ finished' = finished /\ pc' = "idle" /\ outcome' = "failed"
    BY <1>2, <1>5 DEF ObserverFails, Ends, Ending, Shape
  <2>2. Current' /\ Collecting' /\ Going'
    BY <1>1, <1>2, <1>3, <2>1 DEF Current, Collecting, Going, view, call
  <2>3. o \in (told \ (finished \cup running))'
    BY <1>1, <2>1 DEF Ending
  <2>4. (running \cap finished = {} /\ running \cup finished \subseteq told)'
    BY <1>1, <2>1 DEF Ending
  <2> QED
    BY <2>1, <2>2, <2>3, <2>4 DEF Ending, FailsOnlyWithObserver, EveryObserverTold
<1> QED
  BY <1>4, <1>5

\* A group is done when its observers have finished, and the event when all groups are.
LEMMA RegistryOfDone ==
    ASSUME RegistryIInv, Shape', AllDone \/ GroupDone
    PROVE  RegistryIInv'
<1> USE DEF RegistryIInv
<1>1. /\ pc \in {"groups", "notifying"} /\ running = {} /\ queue = <<>> /\ ToSet(queue) = {}
      /\ UNCHANGED <<view, call, obs, bnds, work, members>>
  BY DEF AllDone, GroupDone, Going, ToSet
<1>2. Listed' = Listed /\ Addressed' = Addressed /\ \A g : Whole(g)' <=> Whole(g)
  BY <1>1 DEF Listed, Addressed, Whole, view, call
<1>3. outcome = "none"
  BY <1>1 DEF Ending
<1>4. CASE AllDone
  <2>1. pc' = "idle" /\ outcome' = "ok" /\ groups = <<>>
    BY <1>4 DEF AllDone, Ends
  <2>2. Current' /\ Collecting' /\ Going'
    BY <1>1, <1>2, <2>1 DEF Current, Collecting, Going, view, call
  <2>3. Addressed \subseteq finished /\ \A b \in told : GroupOf(order, b) \notin Disabled
    BY <1>1, <2>1 DEF Going, Reached
  <2>4. EveryObserverTold'
    BY <1>1, <1>2, <2>3 DEF EveryObserverTold, call, work
  <2> QED
    BY <1>1, <2>1, <2>2, <2>4 DEF Ending, FailsOnlyWithObserver, work
<1>5. CASE GroupDone
  <2>1. pc' = "groups" /\ outcome' = outcome
    BY <1>5 DEF GroupDone
  <2>2. Current' /\ Collecting'
    BY <1>1, <1>2, <2>1 DEF Current, Collecting, view, call
  <2>3. Reached' = Reached
    BY <1>1 DEF Reached, work
  <2>4. Going'
    <3>1. (\A i \in DOMAIN groups : Whole(groups[i]))'
      BY <1>1, <1>2 DEF Going, call
    <3>2. (obs = Listed /\ bnds = Listed /\ members = ToSet(bound))'
      BY <1>1, <1>2 DEF Going, view
    <3>3. /\ (\A i, j \in DOMAIN groups : groups[i].group = groups[j].group => i = j)'
          /\ \A i \in DOMAIN groups', b \in Reached' : GroupOf(order, b)' # groups'[i].group
          /\ \A b \in Reached' : GroupOf(order, b)' \notin Disabled
          /\ (IsInjective(queue) /\ ToSet(queue) \subseteq Bindings \ told)'
      BY <1>1, <2>3 DEF Going, call, work
    <3>4. \A b \in Addressed' :
             \/ b \in (finished \cup running \cup ToSet(queue))'
             \/ \E i \in DOMAIN groups' : b \in ToSet(groups'[i].bindings)
      BY <1>1, <1>2 DEF Going, call, work
    <3> QED
      BY <1>1, <3>1, <3>2, <3>3, <3>4 DEF Going, work
  <2>5. Ending'
    BY <1>1, <1>3, <2>1 DEF Ending, FailsOnlyWithObserver, EveryObserverTold, work
  <2> QED
    BY <2>2, <2>4, <2>5
<1> QED
  BY <1>4, <1>5

LEMMA RegistryKept == ASSUME Orderly PROVE RegistryIInv /\ [Next]_vars => RegistryIInv'
<1> SUFFICES ASSUME RegistryIInv, [Next]_vars PROVE RegistryIInv'
  OBVIOUS
<1>1. Shape'
  BY ShapeKept DEF RegistryIInv
<1>2. CASE \/ \E b \in Bindings : Add(b) \/ Unbind(b)
           \/ Observe
           \/ \E o \in Orders : SetOrderedGroups(o)
  BY <1>2, RegistryOfView
<1>3. ASSUME NEW e \in Events, Notify(e) PROVE RegistryIInv'
  BY <1>3, RegistryOfNotify
<1>4. CASE ReadValues \/ Resolved
  BY <1>4, RegistryOfReading
<1>5. CASE Collect
  BY <1>5, RegistryOfCollect
<1>12. CASE ValuesFail
  BY <1>12, RegistryOfFailure
<1>6. CASE SkipDisabled
  BY <1>1, <1>6, RegistryOfSkip
<1>7. CASE BeginGroup
  BY <1>1, <1>7, RegistryOfBegin
<1>8. CASE InvokeNext
  BY <1>1, <1>8, RegistryOfInvoke
<1>9. ASSUME NEW o \in Bindings, ObserverDone(o) \/ ObserverFails(o) PROVE RegistryIInv'
  BY <1>1, <1>9, RegistryOfObserver
<1>10. CASE AllDone \/ GroupDone
  BY <1>1, <1>10, RegistryOfDone
<1>11. CASE UNCHANGED vars
  <2>1. UNCHANGED <<view, call, pc, obs, bnds, work, outcome, members>>
    BY <1>11 DEF vars
  <2>2. Listed' = Listed /\ Addressed' = Addressed /\ Reached' = Reached
    BY <2>1 DEF Listed, Addressed, Reached, view, call, work
  <2>3. \A g : Whole(g)' <=> Whole(g)
    BY <2>1 DEF Whole, view, call
  <2>4. Current' /\ Collecting'
    BY <2>1, <2>2 DEF RegistryIInv, Current, Collecting, view, call, work
  <2>5. Going'
    BY <2>1, <2>2, <2>3 DEF RegistryIInv, Going, view, call, work
  <2>6. Ending'
    BY <2>1, <2>2 DEF RegistryIInv, Ending, FailsOnlyWithObserver, EveryObserverTold, call, work
  <2> QED
    BY <1>1, <2>4, <2>5, <2>6 DEF RegistryIInv
<1> QED
  BY <1>2, <1>3, <1>4, <1>5, <1>6, <1>7, <1>8, <1>9, <1>10, <1>11, <1>12 DEF Next

\* How the observers of a group are at work together, whatever happens: with the option
\* true none of them waits, with the option false one is at work at a time.
Alongside == (parallel = "true" => queue = <<>>) /\ GroupInSeries

LEMMA AlongsideKept ==
    (Init => Alongside) /\ (Alongside /\ [Next]_vars => Alongside')
<1>1. Init => Alongside
  BY DEF Init, Alongside, GroupInSeries
<1>2. ASSUME Alongside, [Next]_vars PROVE Alongside'
  <2>1. parallel' = parallel
    BY <1>2 DEF Next, vars, call, Add, Unbind, Observe, SetOrderedGroups, Notify, ReadValues,
       Resolved, ValuesFail, Collect, AllDone, SkipDisabled, BeginGroup, InvokeNext, ObserverDone,
       ObserverFails, GroupDone
  <2>2. CASE BeginGroup
    <3>1. \/ parallel # "true" /\ running' = running
          \/ parallel = "true" /\ queue' = <<>>
      BY <2>2 DEF BeginGroup
    <3> QED
      BY <1>2, <2>1, <3>1 DEF Alongside, GroupInSeries
  <2>3. CASE InvokeNext
    <3>1. queue # <<>> /\ (running' = running \/ running' \subseteq {Head(queue)})
      BY <2>3 DEF InvokeNext
    <3> QED
      BY <1>2, <2>1, <3>1 DEF Alongside, GroupInSeries
  <2>4. CASE \E o \in Bindings : ObserverDone(o) \/ ObserverFails(o)
    BY <1>2, <2>1, <2>4 DEF Alongside, GroupInSeries, ObserverDone, ObserverFails
  <2>5. CASE UNCHANGED <<queue, running>>
    BY <1>2, <2>1, <2>5 DEF Alongside, GroupInSeries
  <2>6. \/ UNCHANGED <<queue, running>> \/ BeginGroup \/ InvokeNext
        \/ \E o \in Bindings : ObserverDone(o) \/ ObserverFails(o)
    BY <1>2 DEF Next, vars, work, Add, Unbind, Observe, SetOrderedGroups, Notify, ReadValues,
       Resolved, ValuesFail, Collect, AllDone, SkipDisabled, GroupDone
  <2> QED
    BY <2>2, <2>3, <2>4, <2>5, <2>6
<1> QED
  BY <1>1, <1>2

\* When init(), start() or stop() returns, the observers that were bound when it was called
\* have been told and have finished, save those of the disabled groups, which have not been
\* told; the observers of a group are told together or one by one as options.parallel says.
\* Bindings must not change during an event, nor the order of groups after the first one,
\* and options.parallel must be set: notifyObservers() takes undefined for false.
THEOREM RegistryInvariant ==
    ASSUME Orderly, "unset" \notin Modes
    PROVE  Spec => []RegistryInv
<1>1. RegistryIInv => EveryObserverTold
  BY DEF RegistryIInv, Ending
<1>2. TypeOK /\ Alongside => GroupInParallel /\ GroupInSeries
  BY ConstantsAssumption DEF TypeOK, Alongside, GroupInParallel
<1>3. TypeOK /\ EveryObserverTold /\ GroupInParallel /\ GroupInSeries => RegistryInv
  BY DEF RegistryInv
<1>4. Init => Alongside
  BY AlongsideKept
<1>5. Alongside /\ [Next]_vars => Alongside'
  BY AlongsideKept
<1> QED
  BY <1>1, <1>2, <1>3, <1>4, <1>5, TypeCorrect, RegistryInitially, RegistryKept, PTL DEF Spec

\* Where its observers could be instantiated, an event fails only when one that was told of
\* it does: notifyObservers() finds the observer of every binding of a group. Where one
\* could not (ContextView.values() rejects), none is told.
THEOREM FailureIsAnObservers == ASSUME Orderly PROVE Spec => []FailsOnlyWithObserver
<1>1. RegistryIInv => FailsOnlyWithObserver
  BY DEF RegistryIInv, Ending
<1> QED
  BY <1>1, RegistryInitially, RegistryKept, PTL DEF Spec

-----------------------------------------------------------------------------
(* Groups are notified in their order *)

\* The groups the observers are sorted by, GroupTag, are those they are notified in.
Tagged == \A o \in Orders, b \in Bindings : GroupOf(o, b) = GroupTag[b]

\* Of two groups at most one is ahead of the other.
LEMMA AheadIsOrder ==
    ASSUME order \in Orders, NEW g \in 0 .. MaxName, NEW h \in 0 .. MaxName, Ahead(g, h)
    PROVE  g # h /\ ~Ahead(h, g)
<1>1. Rank(order, g) \in 0 .. MaxName + Len(order) /\ Rank(order, h) \in 0 .. MaxName + Len(order)
  BY RankIs
<1>2. MaxName + Len(order) \in Nat
  BY ConstantsAssumption
<1>3. Rank(order, g) \in Nat /\ Rank(order, h) \in Nat
  BY <1>1, <1>2
<1> QED
  BY <1>3 DEF Ahead

\* Nothing is told, and what is at work stays so or finishes.
LEMMA InOrderStays ==
    ASSUME Shape, GroupsInOrder, UNCHANGED <<order, event>>,
           running' \subseteq running, Addressed' \subseteq Addressed,
           \A o \in finished : o \in finished'
    PROVE  GroupsInOrder'
<1>1. \A a, b : Before(a, b)' <=> Before(a, b)
  BY DEF Before
<1> QED
  BY <1>1 DEF GroupsInOrder

\* The groups are collected in the order of the event.
LEMMA InOrderOfCollect ==
    ASSUME Tagged, RegistryIInv, InOrder, Collect
    PROVE  InOrder'
<1> DEFINE all == GroupsOf(order, Listed)
<1>1. /\ all \in Seq(Groups)
      /\ \A i, j \in DOMAIN all : i < j => Rank(order, all[i].group) < Rank(order, all[j].group)
  <2>1. GroupsAre(all, order, Listed) /\ Ranked(order, Listed) /\ order \in Orders
    BY ListedIs DEF RegistryIInv, Shape
  <2> HIDE DEF all
  <2> QED
    BY <2>1 DEF GroupsAre, Tagged
<1>2. /\ groups = all /\ running = {} /\ queue = <<>>
      /\ groups' = (IF event = "stop" THEN Reverse(groups) ELSE groups)
      /\ UNCHANGED <<order, event, work>>
  BY DEF RegistryIInv, Collecting, Collect
<1> HIDE DEF all
<1>3. AtWork' = {} /\ running' = {}
  BY <1>2 DEF AtWork, work, ToSet
<1>4. ASSUME NEW i \in DOMAIN groups', NEW j \in DOMAIN groups', i < j
      PROVE  Ahead(groups'[i].group, groups'[j].group)
  <2>1. CASE event = "stop"
    <3>1. Reversed(Reverse(all), all, Groups)
      BY <1>1, ReverseIs
    <3>2. groups' = Reverse(all) /\ Len(all) \in Nat /\ DOMAIN all = 1 .. Len(all)
      BY <1>1, <1>2, <2>1
    <3>3. /\ i \in 1 .. Len(all) /\ j \in 1 .. Len(all)
          /\ groups'[i] = all[(Len(all) - i) + 1] /\ (Len(all) - i) + 1 \in DOMAIN all
          /\ groups'[j] = all[(Len(all) - j) + 1] /\ (Len(all) - j) + 1 \in DOMAIN all
      BY <3>1, <3>2 DEF Reversed
    <3>4. (Len(all) - j) + 1 < (Len(all) - i) + 1
      BY <1>4, <3>2, <3>3
    <3> QED
      BY <1>1, <1>2, <2>1, <3>3, <3>4 DEF Ahead
  <2>2. CASE event # "stop"
    BY <1>1, <1>2, <1>4, <2>2 DEF Ahead
  <2> QED
    BY <2>1, <2>2
<1>5. \A g, h : Ahead(g, h)' <=> Ahead(g, h)
  BY <1>2 DEF Ahead
<1>6. (\A i, j \in DOMAIN groups : i < j => Ahead(groups[i].group, groups[j].group))'
  BY <1>4, <1>5
<1> QED
  BY <1>3, <1>6 DEF InOrder, GroupsInOrder

\* The groups after the next one are behind it, in their order.
LEMMA AheadOfLeft ==
    ASSUME RegistryIInv, InOrder, pc \in {"groups", "notifying"}, groups # <<>>
    PROVE  /\ \A i, j \in DOMAIN Tail(groups) :
                 i < j => Ahead(Tail(groups)[i].group, Tail(groups)[j].group)
           /\ \A i \in DOMAIN Tail(groups) :
                 Ahead(Head(groups).group, Tail(groups)[i].group)
<1> DEFINE left == Tail(groups)
<1>1. /\ 1 \in DOMAIN groups /\ Head(groups) = groups[1]
      /\ \A i \in DOMAIN left : i + 1 \in DOMAIN groups /\ left[i] = groups[i + 1]
  BY NextGroup DEF RegistryIInv
<1>2. left \in Seq(Groups)
  BY DEF RegistryIInv, Shape
<1>3. \A i \in DOMAIN left : i \in Nat /\ 1 < i + 1 /\ \A j \in DOMAIN left : i < j => i + 1 < j + 1
  BY <1>2
<1> HIDE DEF left
<1>4. /\ \A i, j \in DOMAIN left : i < j => Ahead(left[i].group, left[j].group)
      /\ \A i \in DOMAIN left : Ahead(Head(groups).group, left[i].group)
  BY <1>1, <1>3 DEF InOrder
<1> QED
  BY <1>4 DEF left

\* An observer is told when those of the groups before its own have finished.
LEMMA InOrderOfTelling ==
    ASSUME RegistryIInv, InOrder, BeginGroup \/ InvokeNext
    PROVE  InOrder'
<1> USE DEF RegistryIInv
<1>1. /\ pc \in {"groups", "notifying"} /\ running = {} /\ order \in Orders
      /\ UNCHANGED <<order, event, finished, members>>
  BY DEF BeginGroup, InvokeNext, Going, Shape, view, call
<1>2. Addressed' = Addressed /\ \A a, b : Before(a, b)' <=> Before(a, b)
  BY <1>1 DEF Addressed, Before
<1>3. \A g, h : Ahead(g, h)' <=> Ahead(g, h)
  BY <1>1 DEF Ahead
<1>4. ASSUME NEW a \in Addressed, NEW b \in Bindings, Before(a, b)
      PROVE  /\ Ahead(GroupOf(order, a), GroupOf(order, b))
             /\ GroupOf(order, a) # GroupOf(order, b)
             /\ ~Ahead(GroupOf(order, b), GroupOf(order, a))
  <2>1. a \in Bindings
    BY DEF Addressed, Shape
  <2>2. GroupOf(order, a) \in 0 .. MaxName /\ GroupOf(order, b) \in 0 .. MaxName
    BY <1>1, <2>1, GroupIs
  <2>3. Ahead(GroupOf(order, a), GroupOf(order, b))
    BY <1>4 DEF Before, Ahead
  <2> QED
    BY <1>1, <2>2, <2>3, AheadIsOrder
<1>5. \A i \in DOMAIN groups : \A b \in ToSet(groups[i].bindings) :
                                  GroupOf(order, b) = groups[i].group
  BY <1>1 DEF Going, Whole
<1>6. CASE BeginGroup
  <2> DEFINE os == ObserversOf(Head(groups).bindings)
  <2>1. /\ pc = "groups" /\ groups # <<>> /\ groups' = Tail(groups) /\ queue = <<>>
        /\ \/ queue' = os /\ running' = running
           \/ queue' = <<>> /\ running' \subseteq ToSet(os)
    BY <1>6, Zenon DEF BeginGroup, ObserversOf, InTurn, Going
  <2>2. /\ ToSet(os) \subseteq Bindings
        /\ \A b \in ToSet(os) : GroupOf(order, b) = Head(groups).group
    BY <2>1, NextObservers
  <2> HIDE DEF os
  <2>3. AtWork' \subseteq ToSet(os) /\ running' \subseteq ToSet(os) /\ ToSet(queue) = {}
    BY <1>1, <2>1 DEF AtWork, ToSet
  <2>4. /\ (\A i, j \in DOMAIN groups : i < j => Ahead(groups[i].group, groups[j].group))'
        /\ \A i \in DOMAIN groups' : Ahead(Head(groups).group, groups'[i].group)
    BY <1>3, <2>1, AheadOfLeft
  <2>5. \A i \in DOMAIN groups', b \in AtWork' : Ahead(GroupOf(order, b), groups[i].group)'
    BY <1>1, <1>3, <2>2, <2>3, <2>4
  <2>6. ASSUME NEW b \in running', NEW a \in Addressed, Before(a, b) PROVE a \in finished
    <3>1. /\ b \in Bindings /\ GroupOf(order, b) = Head(groups).group
          /\ GroupOf(order, a) # Head(groups).group
          /\ ~Ahead(Head(groups).group, GroupOf(order, a))
      BY <1>4, <2>2, <2>3, <2>6
    <3>2. a \notin ToSet(Head(groups).bindings)
      BY <1>5, <2>1, <3>1, NextGroup
    <3>3. \A i \in DOMAIN Tail(groups) : a \notin ToSet(Tail(groups)[i].bindings)
      <4>1. \A i \in DOMAIN Tail(groups) : /\ i + 1 \in DOMAIN groups
                                           /\ Tail(groups)[i] = groups[i + 1]
        BY <2>1, NextGroup
      <4>2. \A i \in DOMAIN Tail(groups) : \A c \in ToSet(Tail(groups)[i].bindings) :
               GroupOf(order, c) = Tail(groups)[i].group
        BY <1>5, <4>1
      <4>3. \A i \in DOMAIN Tail(groups) : Ahead(Head(groups).group, Tail(groups)[i].group)
        BY <2>1, AheadOfLeft
      <4> QED
        BY <3>1, <4>2, <4>3
    <3>4. LeftTo(Tail(groups))
      BY <2>1, GroupsLeft
    <3> QED
      BY <1>1, <2>3, <3>2, <3>3, <3>4 DEF LeftTo
  <2>7. GroupsInOrder'
    BY <1>1, <1>2, <2>6 DEF GroupsInOrder
  <2>8. (\A a, b \in AtWork : GroupOf(order, a) = GroupOf(order, b))'
    BY <1>1, <2>2, <2>3
  <2> QED
    BY <2>4, <2>5, <2>7, <2>8 DEF InOrder
<1>7. CASE InvokeNext
  <2>1. /\ pc = "notifying" /\ queue # <<>> /\ queue' = Tail(queue) /\ groups' = groups
        /\ running' \subseteq {Head(queue)}
    BY <1>1, <1>7 DEF InvokeNext, call
  <2>2. /\ ToSet(queue) = {Head(queue)} \cup ToSet(Tail(queue)) /\ ToSet(queue) \subseteq Bindings
    BY <2>1, TailOnce DEF Going, Shape
  <2>3. AtWork' \subseteq AtWork /\ running' \subseteq ToSet(queue) /\ AtWork = ToSet(queue)
    BY <1>1, <2>1, <2>2 DEF AtWork
  <2>4. /\ (\A i, j \in DOMAIN groups : i < j => Ahead(groups[i].group, groups[j].group))'
        /\ (\A i \in DOMAIN groups, b \in AtWork : Ahead(GroupOf(order, b), groups[i].group))'
        /\ (\A a, b \in AtWork : GroupOf(order, a) = GroupOf(order, b))'
    BY <1>1, <1>3, <2>1, <2>3 DEF InOrder
  <2>5. ASSUME NEW b \in running', NEW a \in Addressed, Before(a, b) PROVE a \in finished
    <3>1. /\ b \in AtWork /\ b \in Bindings
      BY <2>2, <2>3
    <3>2. a \notin ToSet(queue)
      BY <1>1, <1>4, <2>3, <2>5, <3>1 DEF InOrder
    <3>3. \A i \in DOMAIN groups : a \notin ToSet(groups[i].bindings)
      BY <1>1, <1>4, <1>5, <2>5, <3>1 DEF InOrder
    <3> QED
      BY <1>1, <3>2, <3>3 DEF Going
  <2>6. GroupsInOrder'
    BY <1>1, <1>2, <2>5 DEF GroupsInOrder
  <2> QED
    BY <2>4, <2>6 DEF InOrder
<1> QED
  BY <1>6, <1>7

LEMMA InOrderKept ==
    ASSUME Orderly, Tagged
    PROVE  RegistryIInv /\ InOrder /\ [Next]_vars => InOrder'
<1> SUFFICES ASSUME RegistryIInv, InOrder, [Next]_vars PROVE InOrder'
  OBVIOUS
<1> USE DEF RegistryIInv
<1>1. CASE \/ \E b \in Bindings : Add(b) \/ Unbind(b)
           \/ Observe
           \/ \E o \in Orders : SetOrderedGroups(o)
  <2>1. pc = "idle" /\ pc' = "idle" /\ UNCHANGED <<event, running, finished>>
    BY <1>1 DEF Add, Unbind, Observe, SetOrderedGroups, MayChange, Orderly, Current, Shape,
       call, work
  <2>2. CASE order' = order
    <3>1. Addressed' \subseteq Addressed
      BY <1>1, <2>1, <2>2 DEF Addressed, Add, Unbind, Observe, SetOrderedGroups
    <3>2. GroupsInOrder'
      BY <2>1, <2>2, <3>1, InOrderStays DEF InOrder
    <3> QED
      BY <2>1, <3>2 DEF InOrder
  <2>3. CASE order' # order
    <3>1. event = "none"
      BY <1>1, <2>3 DEF Add, Unbind, Observe, SetOrderedGroups, Orderly, call
    <3>2. \A b \in Bindings : "none" \notin Handles[b]
      BY ConstantsAssumption DEF Events
    <3>3. members' \subseteq Bindings
      BY <1>1, ShapeOfView DEF Shape
    <3>4. Addressed' = {}
      BY <2>1, <3>1, <3>2, <3>3 DEF Addressed
    <3> QED
      BY <2>1, <3>4 DEF InOrder, GroupsInOrder
  <2> QED
    BY <2>2, <2>3
<1>2. CASE (\E e \in Events : Notify(e)) \/ ReadValues \/ Resolved \/ ValuesFail
  <2>1. pc' \notin {"groups", "notifying"} /\ running' = {}
    BY <1>2 DEF Notify, ReadValues, Resolved, ValuesFail, Ends, Ending, Collecting, work
  <2> QED
    BY <2>1 DEF InOrder, GroupsInOrder
<1>3. CASE Collect
  BY <1>3, InOrderOfCollect
<1>4. CASE SkipDisabled
  <2>1. /\ pc = "groups" /\ groups # <<>> /\ groups' = Tail(groups) /\ running = {}
        /\ AtWork = {} /\ UNCHANGED <<order, event, work>>
    BY <1>4 DEF SkipDisabled, Going, AtWork, ToSet
  <2>2. (\A i, j \in DOMAIN groups : i < j => Ahead(groups[i].group, groups[j].group))'
    BY <2>1, AheadOfLeft DEF Ahead
  <2>3. AtWork' = {} /\ running' = {}
    BY <2>1 DEF AtWork, work
  <2> QED
    BY <2>2, <2>3 DEF InOrder, GroupsInOrder
<1>5. CASE BeginGroup \/ InvokeNext
  BY <1>5, InOrderOfTelling
<1>6. CASE \/ \E o \in Bindings : ObserverDone(o) \/ ObserverFails(o)
           \/ AllDone \/ GroupDone \/ UNCHANGED vars
  <2>1. /\ running' \subseteq running /\ UNCHANGED <<order, event, groups, queue, members>>
        /\ \A o \in finished : o \in finished'
        /\ pc' \in {"groups", "notifying"} => pc \in {"groups", "notifying"}
    BY <1>6 DEF ObserverDone, ObserverFails, AllDone, GroupDone, Ends, vars, view, call, work
  <2>2. Addressed' = Addressed
    BY <2>1 DEF Addressed
  <2>3. GroupsInOrder'
    BY <2>1, <2>2, InOrderStays DEF InOrder
  <2>4. AtWork' \subseteq AtWork /\ \A g, h : Ahead(g, h)' <=> Ahead(g, h)
    BY <2>1 DEF AtWork, Ahead
  <2> QED
    BY <2>1, <2>3, <2>4 DEF InOrder
<1> QED
  BY <1>1, <1>2, <1>3, <1>4, <1>5, <1>6 DEF Next

\* An observer is at work only when those of the groups before its own have finished,
\* before being reversed for stop. The bindings are sorted by the tag lifeCycleObserverGroup
\* but grouped by any tag that names a group (getObserverGroup()), so the theorem takes the
\* two to agree: where they do not, a run shows a server started before a group it follows.
THEOREM GroupsTakeTurns ==
    ASSUME Orderly, Tagged
    PROVE  Spec => []GroupsInOrder
<1>1. Init => InOrder
  BY DEF Init, InOrder, GroupsInOrder
<1>2. InOrder => GroupsInOrder
  BY DEF InOrder
<1> QED
  BY <1>1, <1>2, InOrderKept, RegistryInitially, RegistryKept, PTL DEF Spec
=============================================================================

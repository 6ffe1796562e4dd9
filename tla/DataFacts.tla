------------------------------ MODULE DataFacts ------------------------------
(***************************************************************************)
(* Facts about numbers and sequences that the proofs about LoopBack need:   *)
(* a set of numbers has a least one and, if it is bounded, a greatest one;  *)
(* recursive functions on 0 .. n exist and are what they say; what holds of *)
(* the empty sequence and of every longer one holds of all; and what        *)
(* filtering (Within), appending, removing and reversing do to a sequence.  *)
(* All of it rests on one fact of the library, that the strict order of     *)
(* finite sets is well-founded.  A property of numbers or of sequences is   *)
(* given as the set of those that have it.                                  *)
(***************************************************************************)
EXTENDS Selection, Integers, SequencesExt, FiniteSetTheorems, WellFoundedInduction,
        SequenceTheorems, TLAPS

\* Of some natural numbers one is the least: where an invocation was called first.
LEMMA LeastElement ==
    ASSUME NEW R \in SUBSET Nat, R # {}
    PROVE  \E n \in R : \A m \in R : n <= m
<1> DEFINE T == {1 .. n : n \in R}
<1>1. T \subseteq FiniteSubsetsOf(Nat) /\ T # {}
  <2>1. ASSUME NEW n \in R PROVE 1 .. n \in FiniteSubsetsOf(Nat)
    <3>1. n \in Int /\ 1 \in Int /\ 1 .. n \in SUBSET Nat
      OBVIOUS
    <3> QED
      BY <3>1, FS_Interval DEF FiniteSubsetsOf
  <2>2. PICK n \in R : TRUE
    OBVIOUS
  <2>3. 1 .. n \in T
    BY <2>2
  <2> QED
    BY <2>1, <2>3
<1>2. PICK x \in T : \A y \in T : <<y, x>> \notin StrictSubsetOrdering(Nat)
  <2> HIDE DEF T
  <2> QED
    BY <1>1, WFMin, FS_StrictSubsetOrderingWellFounded
<1>3. PICK n \in R : x = 1 .. n
  OBVIOUS
<1>4. ASSUME NEW m \in R, m < n PROVE <<1 .. m, 1 .. n>> \in StrictSubsetOrdering(Nat)
  <2>1. 1 .. m \subseteq 1 .. n /\ n \in 1 .. n /\ n \notin 1 .. m
    BY <1>4
  <2>2. 1 .. m \in SUBSET Nat /\ 1 .. n \in SUBSET Nat
    OBVIOUS
  <2> QED
    BY <2>1, <2>2 DEF StrictSubsetOrdering
<1>5. \A m \in R : ~(m < n)
  BY <1>2, <1>3, <1>4
<1>6. \A m \in R : m \in Nat /\ n \in Nat
  OBVIOUS
<1> QED
  BY <1>3, <1>5, <1>6

\* Of some positions in a sequence one is the last: that of the controller whose route
\* replaces those of the others.
LEMMA GreatestElement ==
    ASSUME NEW n \in Nat, NEW R \in SUBSET (1 .. n), R # {}
    PROVE  \E p \in R : \A q \in R : q <= p
<1> DEFINE T == {n - p : p \in R}
<1>1. T \in SUBSET Nat /\ T # {}
  <2>1. \A p \in R : p \in 1 .. n /\ n - p \in Nat
    OBVIOUS
  <2>2. PICK p \in R : TRUE
    OBVIOUS
  <2>3. n - p \in T
    BY <2>2
  <2> QED
    BY <2>1, <2>3
<1>2. PICK m \in T : \A k \in T : m <= k
  <2> HIDE DEF T
  <2> QED
    BY <1>1, LeastElement
<1>3. PICK p \in R : m = n - p
  OBVIOUS
<1>4. ASSUME NEW q \in R PROVE q <= p
  <2>1. n - q \in T
    OBVIOUS
  <2>2. n - p <= n - q
    BY <2>1, <1>2, <1>3
  <2> QED
    BY <2>2
<1> QED
  BY <1>3, <1>4

---------------------------------------------------------------------------
(* Recursion *)

\* A set of naturals with 0 and the successor of each of its elements has them all.
LEMMA Induction ==
    ASSUME NEW G, 0 \in G, \A n \in Nat : n \in G => n + 1 \in G
    PROVE  Nat \subseteq G
<1> DEFINE R == Nat \ G
<1>1. SUFFICES ASSUME R # {} PROVE FALSE
  OBVIOUS
<1>2. PICK n \in R : \A m \in R : n <= m
  <2> HIDE DEF R
  <2>1. R \in SUBSET Nat
    BY DEF R
  <2> QED
    BY <1>1, <2>1, LeastElement
<1>3. n # 0 /\ n - 1 \in Nat /\ n = (n - 1) + 1
  BY <1>2
<1>4. n - 1 \in G
  BY <1>2, <1>3
<1> QED
  BY <1>2, <1>3, <1>4

\* The values of f are in V, the first is v and each is made of the one before it.
Recursion(f, V, v, n, step) ==
    f \in [0 .. n -> V] /\ f[0] = v /\ \A i \in 1 .. n : f[i] = step[i][f[i - 1]]

\* A function may be defined by its value at 0 and by that at n from that at n - 1.
LEMMA RecursionExists ==
    ASSUME NEW V, NEW v \in V, NEW n \in Nat, NEW step \in [1 .. n -> [V -> V]]
    PROVE  \E f : Recursion(f, V, v, n, step)
<1> DEFINE Good(m, f) == f[0] = v /\ \A i \in 1 .. m : f[i] = step[i][f[i - 1]]
           G == {m \in Nat : m <= n => \E f \in [0 .. m -> V] : Good(m, f)}
<1>1. 0 \in G
  <2> DEFINE f == [i \in 0 .. 0 |-> v]
  <2>1. f \in [0 .. 0 -> V] /\ Good(0, f)
    OBVIOUS
  <2> QED
    BY <2>1
<1>2. ASSUME NEW m \in Nat, m \in G PROVE m + 1 \in G
  <2>1. SUFFICES ASSUME m + 1 <= n
                 PROVE  \E f \in [0 .. m + 1 -> V] : Good(m + 1, f)
    OBVIOUS
  <2>2. PICK f \in [0 .. m -> V] : Good(m, f)
    BY <1>2, <2>1
  <2> DEFINE g == [i \in 0 .. m + 1 |-> IF i = m + 1 THEN step[m + 1][f[m]] ELSE f[i]]
  <2>3. step[m + 1] \in [V -> V] /\ f[m] \in V
    BY <2>1
  <2>4. g \in [0 .. m + 1 -> V]
    BY <2>3
  <2>5. \A i \in 0 .. m : g[i] = f[i]
    OBVIOUS
  <2>6. g[m + 1] = step[m + 1][g[m]]
    BY <2>5
  <2>7. g[0] = v
    BY <2>2, <2>5
  <2>8. ASSUME NEW i \in 1 .. m + 1 PROVE g[i] = step[i][g[i - 1]]
    <3>1. CASE i = m + 1
      BY <3>1, <2>6
    <3>2. CASE i # m + 1
      <4>1. i \in 1 .. m /\ i \in 0 .. m /\ i - 1 \in 0 .. m
        BY <3>2
      <4> QED
        BY <4>1, <2>2, <2>5
    <3> QED
      BY <3>1, <3>2
  <2> HIDE DEF g
  <2> QED
    BY <2>4, <2>7, <2>8
<1> HIDE DEF Good
<1>3. Nat \subseteq G
  <2> HIDE DEF G
  <2> QED
    BY <1>1, <1>2, Induction
<1>4. n \in G
  BY <1>3
<1> QED
  BY <1>4 DEF Good, Recursion

\* A set of sequences with the empty one and all that are one longer has them all.
LEMMA SequenceInduction ==
    ASSUME NEW T, NEW G, <<>> \in G,
           \A s \in Seq(T), x \in T : s \in G => Append(s, x) \in G
    PROVE  Seq(T) \subseteq G
<1> DEFINE H == {n \in Nat : \A s \in Seq(T) : Len(s) = n => s \in G}
<1>1. 0 \in H
  <2>1. \A s \in Seq(T) : Len(s) = 0 => s = <<>>
    OBVIOUS
  <2> QED
    BY <2>1
<1>2. ASSUME NEW n \in Nat, n \in H PROVE n + 1 \in H
  <2>1. SUFFICES ASSUME NEW s \in Seq(T), Len(s) = n + 1 PROVE s \in G
    OBVIOUS
  <2>2. s # <<>>
    BY <2>1
  <2>3. PICK r \in Seq(T), x \in T : s = Append(r, x)
    BY <2>2, SequenceEmptyOrAppend
  <2>4. Len(r) = n
    BY <2>1, <2>3
  <2> QED
    BY <1>2, <2>3, <2>4
<1>3. Nat \subseteq H
  <2> HIDE DEF H
  <2> QED
    BY <1>1, <1>2, Induction
<1> QED
  <2> SUFFICES ASSUME NEW s \in Seq(T) PROVE s \in G
    OBVIOUS
  <2>1. Len(s) \in H
    BY <1>3
  <2> QED
    BY <2>1

---------------------------------------------------------------------------
(* Selection of elements *)

\* f[n] is what is selected from the first n elements of s.
Selecting(f, s, S, T) ==
    /\ f \in [0 .. Len(s) -> Seq(T)]
    /\ f[0] = <<>>
    /\ \A n \in 1 .. Len(s) :
          f[n] = IF s[n] \in S THEN Append(f[n - 1], s[n]) ELSE f[n - 1]

\* The recursion of Within has a solution.
LEMMA WithinUnfold ==
    ASSUME NEW T, NEW S, NEW s \in Seq(T)
    PROVE  \E f : Selecting(f, s, S, T) /\ Within(s, S) = f[Len(s)]
<1> DEFINE step == [n \in 1 .. Len(s) |->
                      [w \in Seq(T) |-> IF s[n] \in S THEN Append(w, s[n]) ELSE w]]
           Sol(f) == f = [n \in 0 .. Len(s) |->
                            IF n = 0 THEN <<>>
                            ELSE IF s[n] \in S THEN Append(f[n - 1], s[n]) ELSE f[n - 1]]
<1>1. step \in [1 .. Len(s) -> [Seq(T) -> Seq(T)]]
  OBVIOUS
<1>2. PICK f \in [0 .. Len(s) -> Seq(T)] :
         f[0] = <<>> /\ \A n \in 1 .. Len(s) : f[n] = step[n][f[n - 1]]
  <2>1. <<>> \in Seq(T) /\ Len(s) \in Nat
    OBVIOUS
  <2> HIDE DEF step
  <2>2. \E f : Recursion(f, Seq(T), <<>>, Len(s), step)
    BY <1>1, <2>1, RecursionExists, Zenon
  <2> QED
    BY <2>2, Zenon DEF Recursion
<1>3. \A n \in 1 .. Len(s) :
         f[n] = IF s[n] \in S THEN Append(f[n - 1], s[n]) ELSE f[n - 1]
  <2>1. \A n \in 1 .. Len(s) : n - 1 \in 0 .. Len(s) /\ f[n - 1] \in Seq(T)
    OBVIOUS
  <2>2. \A n \in 1 .. Len(s), w \in Seq(T) :
           step[n][w] = IF s[n] \in S THEN Append(w, s[n]) ELSE w
    OBVIOUS
  <2> HIDE DEF step
  <2> QED
    BY <1>2, <2>1, <2>2
<1>4. Sol(f)
  <2>1. \A n \in 0 .. Len(s) :
           f[n] = IF n = 0 THEN <<>>
                  ELSE IF s[n] \in S THEN Append(f[n - 1], s[n]) ELSE f[n - 1]
    <3>1. \A n \in 0 .. Len(s) : n = 0 \/ n \in 1 .. Len(s)
      OBVIOUS
    <3> QED
      BY <3>1, <1>2, <1>3, Zenon
  <2> QED
    BY <2>1
<1> DEFINE g == CHOOSE h : h = [n \in 0 .. Len(s) |->
                            IF n = 0 THEN <<>>
                            ELSE IF s[n] \in S THEN Append(h[n - 1], s[n]) ELSE h[n - 1]]
<1>5. Sol(g)
  <2> HIDE <1>2, <1>3
  <2> QED
    BY <1>4, Zenon
<1>7. Within(s, S) = g[Len(s)]
  BY Zenon DEF Within
<1> HIDE DEF g
<1>6. DOMAIN g = 0 .. Len(s) /\ g[0] = <<>>
      /\ \A n \in 1 .. Len(s) :
            g[n] = IF s[n] \in S THEN Append(g[n - 1], s[n]) ELSE g[n - 1]
  <2>1. DOMAIN g = 0 .. Len(s)
    BY <1>5, Zenon
  <2>2. \A n \in 0 .. Len(s) :
           g[n] = IF n = 0 THEN <<>>
                  ELSE IF s[n] \in S THEN Append(g[n - 1], s[n]) ELSE g[n - 1]
    BY <1>5, Zenon
  <2>3. 0 \in 0 .. Len(s) /\ \A n \in 1 .. Len(s) : n \in 0 .. Len(s) /\ n # 0
    OBVIOUS
  <2> QED
    BY <2>1, <2>2, <2>3, Zenon
<1> HIDE DEF Sol
<1>8. \A n \in 0 .. Len(s) : g[n] = f[n]
  <2> DEFINE G == {n \in Nat : n <= Len(s) => g[n] = f[n]}
  <2>1. 0 \in G
    BY <1>2, <1>6
  <2>2. ASSUME NEW n \in Nat, n \in G PROVE n + 1 \in G
    <3>1. CASE n + 1 <= Len(s)
      <4>1. n + 1 \in 1 .. Len(s) /\ (n + 1) - 1 = n /\ g[n] = f[n]
        BY <2>2, <3>1
      <4> QED
        BY <4>1, <1>3, <1>6
    <3> QED
      BY <3>1
  <2>3. Nat \subseteq G
    <3> HIDE DEF G
    <3> QED
      BY <2>1, <2>2, Induction
  <2> QED
    BY <2>3
<1>9. Selecting(f, s, S, T)
  BY <1>2, <1>3 DEF Selecting
<1> QED
  BY <1>7, <1>8, <1>9

\* What is selected is again a sequence of the same kind; nothing is selected from nothing.
LEMMA WithinType ==
    ASSUME NEW T, NEW S, NEW s \in Seq(T)
    PROVE  Within(s, S) \in Seq(T) /\ Within(<<>>, S) = <<>>
<1>1. PICK f : Selecting(f, s, S, T) /\ Within(s, S) = f[Len(s)]
  BY WithinUnfold, Zenon
<1>2. <<>> \in Seq(T) /\ Len(<<>>) = 0
  OBVIOUS
<1>3. PICK g : Selecting(g, <<>>, S, T) /\ Within(<<>>, S) = g[Len(<<>>)]
  BY <1>2, WithinUnfold, Zenon
<1> QED
  BY <1>1, <1>2, <1>3 DEF Selecting

\* A further element is selected or not.
LEMMA WithinAppend ==
    ASSUME NEW T, NEW S, NEW s \in Seq(T), NEW x \in T
    PROVE  Within(Append(s, x), S) = IF x \in S THEN Append(Within(s, S), x) ELSE Within(s, S)
<1> DEFINE m == Len(s)
           t == Append(s, x)
<1>1. /\ m \in Nat /\ t \in Seq(T) /\ Len(t) = m + 1 /\ t[m + 1] = x
      /\ \A n \in 1 .. m : t[n] = s[n]
  OBVIOUS
<1>2. PICK f : Selecting(f, s, S, T) /\ Within(s, S) = f[m]
  BY WithinUnfold, Zenon
<1> HIDE DEF t
<1>3. PICK g : Selecting(g, t, S, T) /\ Within(t, S) = g[Len(t)]
  BY <1>1, WithinUnfold, Zenon
<1>4. \A n \in 0 .. m : g[n] = f[n]
  <2> DEFINE G == {n \in Nat : n <= m => g[n] = f[n]}
  <2>1. 0 \in G
    BY <1>2, <1>3 DEF Selecting
  <2>2. ASSUME NEW n \in Nat, n \in G PROVE n + 1 \in G
    <3>1. CASE n + 1 <= m
      <4>1. n + 1 \in 1 .. m /\ n + 1 \in 1 .. Len(t) /\ (n + 1) - 1 = n /\ g[n] = f[n]
        BY <2>2, <3>1, <1>1
      <4>2. f[n + 1] = IF s[n + 1] \in S THEN Append(f[n], s[n + 1]) ELSE f[n]
        BY <4>1, <1>2 DEF Selecting
      <4>3. g[n + 1] = IF t[n + 1] \in S THEN Append(g[n], t[n + 1]) ELSE g[n]
        BY <4>1, <1>3 DEF Selecting
      <4>4. t[n + 1] = s[n + 1]
        BY <4>1, <1>1
      <4>5. g[n + 1] = f[n + 1]
        <5>1. CASE s[n + 1] \in S
          BY <4>1, <4>2, <4>3, <4>4, <5>1
        <5>2. CASE s[n + 1] \notin S
          BY <4>1, <4>2, <4>3, <4>4, <5>2
        <5> QED
          BY <5>1, <5>2
      <4> QED
        BY <4>5
    <3> QED
      BY <3>1, <1>1
  <2>3. Nat \subseteq G
    <3> HIDE DEF G
    <3> QED
      BY <2>1, <2>2, Induction
  <2> QED
    BY <2>3, <1>1
<1>5. g[m + 1] = IF x \in S THEN Append(g[m], x) ELSE g[m]
  <2>1. m + 1 \in 1 .. Len(t) /\ (m + 1) - 1 = m
    BY <1>1
  <2> QED
    BY <2>1, <1>1, <1>3 DEF Selecting
<1>6. m \in 0 .. m /\ Len(t) = m + 1
  BY <1>1
<1> QED
  BY <1>2, <1>3, <1>4, <1>5, <1>6 DEF t

\* How the elements of w are found in s: h leads to those in S, from left to right.
Places(h, w, s, S) ==
    /\ h \in [1 .. Len(w) -> 1 .. Len(s)]
    /\ \A i, j \in 1 .. Len(w) : i < j => h[i] < h[j]
    /\ \A i \in 1 .. Len(w) : w[i] = s[h[i]] /\ s[h[i]] \in S
    /\ \A k \in 1 .. Len(s) : s[k] \in S => \E i \in 1 .. Len(w) : h[i] = k

\* The elements selected are those in S, in their order.
LEMMA WithinPlaces ==
    ASSUME NEW T, NEW S, NEW s \in Seq(T)
    PROVE  \E h : Places(h, Within(s, S), s, S)
<1> DEFINE G == {r \in Seq(T) : \E h : Places(h, Within(r, S), r, S)}
<1>1. <<>> \in G
  <2>1. <<>> \in Seq(T) /\ Len(<<>>) = 0
    OBVIOUS
  <2>3. Within(<<>>, S) = <<>>
    BY <2>1, WithinType, Zenon
  <2>2. Places(<<>>, <<>>, <<>>, S)
    BY DEF Places
  <2> QED
    BY <2>1, <2>2, <2>3
<1>2. ASSUME NEW r \in Seq(T), NEW x \in T, r \in G PROVE Append(r, x) \in G
  <2> DEFINE w == Within(r, S)
             q == Append(r, x)
             n == Len(w)
             m == Len(r)
  <2>1. PICK h : Places(h, w, r, S)
    BY <1>2
  <2>2. /\ w \in Seq(T) /\ n \in Nat /\ m \in Nat /\ q \in Seq(T) /\ Len(q) = m + 1
        /\ q[m + 1] = x /\ \A k \in 1 .. m : q[k] = r[k]
    BY WithinType
  <2>3. Within(q, S) = IF x \in S THEN Append(w, x) ELSE w
    BY WithinAppend
  <2> HIDE DEF w, q
  <2>4. \E g : Places(g, Within(q, S), q, S)
    <3>1. CASE x \notin S
      <4>1. h \in [1 .. n -> 1 .. m] /\ h \in [1 .. n -> 1 .. Len(q)]
        BY <2>1, <2>2 DEF Places
      <4>2. \A i \in 1 .. n : w[i] = q[h[i]] /\ q[h[i]] \in S
        BY <4>1, <2>1, <2>2 DEF Places
      <4>3. \A k \in 1 .. Len(q) : q[k] \in S => k \in 1 .. m /\ r[k] \in S
        BY <3>1, <2>2
      <4>4. \A k \in 1 .. Len(q) : q[k] \in S => \E i \in 1 .. n : h[i] = k
        BY <4>3, <2>1 DEF Places
      <4>5. Places(h, w, q, S)
        BY <4>1, <4>2, <4>4, <2>1 DEF Places
      <4> QED
        BY <4>5, <3>1, <2>3
    <3>2. CASE x \in S
      <4> DEFINE v == Append(w, x)
                 g == [i \in 1 .. n + 1 |-> IF i = n + 1 THEN m + 1 ELSE h[i]]
      <4>1. /\ Len(v) = n + 1 /\ v[n + 1] = x /\ \A i \in 1 .. n : v[i] = w[i]
            /\ g[n + 1] = m + 1 /\ \A i \in 1 .. n : g[i] = h[i]
        BY <2>2
      <4>2. h \in [1 .. n -> 1 .. m]
        BY <2>1 DEF Places
      <4>3. g \in [1 .. Len(v) -> 1 .. Len(q)]
        BY <2>2, <4>1, <4>2
      <4> HIDE DEF v, g, n, m
      <4>4. \A i, j \in 1 .. Len(v) : i < j => g[i] < g[j]
        <5>1. ASSUME NEW i \in 1 .. Len(v), NEW j \in 1 .. Len(v), i < j PROVE g[i] < g[j]
          <6>1. i \in 1 .. n /\ h[i] \in 1 .. m /\ (j = n + 1 \/ j \in 1 .. n)
            BY <5>1, <4>1, <4>2, <2>2
          <6>2. CASE j = n + 1
            BY <6>1, <6>2, <4>1, <2>2
          <6>3. CASE j \in 1 .. n
            BY <5>1, <6>1, <6>3, <4>1, <2>1 DEF Places, n
          <6> QED
            BY <6>1, <6>2, <6>3
        <5> QED
          BY <5>1
      <4>5. \A i \in 1 .. Len(v) : v[i] = q[g[i]] /\ q[g[i]] \in S
        <5>1. ASSUME NEW i \in 1 .. n PROVE v[i] = q[g[i]] /\ q[g[i]] \in S
          <6>1. h[i] \in 1 .. m /\ w[i] = r[h[i]] /\ r[h[i]] \in S
            BY <4>2, <2>1 DEF Places, n
          <6> QED
            BY <6>1, <4>1, <2>2
        <5>2. v[n + 1] = q[g[n + 1]] /\ q[g[n + 1]] \in S
          BY <4>1, <2>2, <3>2
        <5>3. \A i \in 1 .. Len(v) : i = n + 1 \/ i \in 1 .. n
          BY <4>1, <2>2
        <5> QED
          BY <5>1, <5>2, <5>3
      <4>6. \A k \in 1 .. Len(q) : q[k] \in S => \E i \in 1 .. Len(v) : g[i] = k
        <5>1. ASSUME NEW k \in 1 .. m, q[k] \in S PROVE \E i \in 1 .. Len(v) : g[i] = k
          <6>1. PICK i \in 1 .. n : h[i] = k
            BY <5>1, <2>1, <2>2 DEF Places, n, m
          <6>2. i \in 1 .. Len(v)
            BY <4>1, <2>2
          <6> QED
            BY <6>1, <6>2, <4>1
        <5>2. n + 1 \in 1 .. Len(v)
          BY <4>1, <2>2
        <5>3. \A k \in 1 .. Len(q) : k = m + 1 \/ k \in 1 .. m
          BY <2>2
        <5> QED
          BY <5>1, <5>2, <5>3, <4>1
      <4>7. Places(g, v, q, S)
        BY <4>3, <4>4, <4>5, <4>6 DEF Places
      <4> QED
        BY <4>7, <3>2, <2>3 DEF v
    <3> QED
      BY <3>1, <3>2
  <2> QED
    BY <2>2, <2>4 DEF q
<1>3. Seq(T) \subseteq G
  <2> HIDE DEF G
  <2> QED
    BY <1>1, <1>2, SequenceInduction
<1> QED
  BY <1>3

\* There are as many numbers in 1 .. n as the name says.
LEMMA FiniteInterval ==
    ASSUME NEW n \in Nat
    PROVE  IsFiniteSet(1 .. n) /\ Cardinality(1 .. n) = n
<1>1. 1 \in Int /\ n \in Int
  OBVIOUS
<1>2. IsFiniteSet(1 .. n) /\ Cardinality(1 .. n) = IF 1 > n THEN 0 ELSE n - 1 + 1
  BY <1>1, FS_Interval
<1>3. (IF 1 > n THEN 0 ELSE n - 1 + 1) = n
  OBVIOUS
<1> QED
  BY <1>2, <1>3

\* Append() adds one element.
LEMMA AppendedElement ==
    ASSUME NEW T, NEW s \in Seq(T), NEW e \in T
    PROVE  ToSet(Append(s, e)) = ToSet(s) \cup {e}
<1> DEFINE a == Append(s, e)
<1>1. /\ DOMAIN a = 1 .. Len(s) + 1 /\ DOMAIN s = 1 .. Len(s) /\ Len(s) \in Nat
      /\ a[Len(s) + 1] = e /\ \A i \in 1 .. Len(s) : a[i] = s[i]
  OBVIOUS
<1> HIDE DEF a
<1>2. \A i \in DOMAIN a : i = Len(s) + 1 \/ i \in 1 .. Len(s)
  BY <1>1
<1>3. Len(s) + 1 \in DOMAIN a /\ \A i \in 1 .. Len(s) : i \in DOMAIN a
  BY <1>1
<1>4. ToSet(a) = ToSet(s) \cup {e}
  BY <1>1, <1>2, <1>3 DEF ToSet
<1> QED
  BY <1>4 DEF a

\* Exactly the elements in S are selected, and none twice that s has once.
LEMMA WithinElements ==
    ASSUME NEW T, NEW S, NEW s \in Seq(T)
    PROVE  /\ ToSet(Within(s, S)) = ToSet(s) \cap S
           /\ IsInjective(s) => IsInjective(Within(s, S))
           /\ Len(Within(s, S)) <= Len(s)
<1> DEFINE w == Within(s, S)
<1>1. PICK h : Places(h, w, s, S)
  BY WithinPlaces
<1>2. w \in Seq(T) /\ DOMAIN w = 1 .. Len(w) /\ DOMAIN s = 1 .. Len(s)
      /\ Len(w) \in Nat /\ Len(s) \in Nat
  BY WithinType
<1> HIDE DEF w
<1>3. h \in [1 .. Len(w) -> 1 .. Len(s)]
  BY <1>1 DEF Places
<1>4. ToSet(w) = ToSet(s) \cap S
  <2>1. ASSUME NEW x \in ToSet(w) PROVE x \in ToSet(s) \cap S
    BY <2>1, <1>1, <1>2, <1>3 DEF Places, ToSet
  <2>2. ASSUME NEW x \in ToSet(s) \cap S PROVE x \in ToSet(w)
    <3>1. PICK k \in 1 .. Len(s) : s[k] = x
      BY <1>2 DEF ToSet
    <3>2. PICK i \in 1 .. Len(w) : h[i] = k
      BY <3>1, <1>1 DEF Places
    <3> QED
      BY <3>1, <3>2, <1>1, <1>2 DEF Places, ToSet
  <2> QED
    BY <2>1, <2>2
<1>5. ASSUME IsInjective(s), NEW i \in 1 .. Len(w), NEW j \in 1 .. Len(w), w[i] = w[j]
      PROVE  i = j
  <2>1. h[i] = h[j]
    BY <1>1, <1>2, <1>3, <1>5 DEF Places, IsInjective
  <2>2. h[i] \in 1 .. Len(s) /\ ~(i < j) /\ ~(j < i)
    BY <2>1, <1>1, <1>2, <1>3 DEF Places
  <2> QED
    BY <2>2, <1>2
<1>6. Len(w) <= Len(s)
  <2>1. \A i, j \in 1 .. Len(w) : h[i] = h[j] => i = j
    <3>1. SUFFICES ASSUME NEW i \in 1 .. Len(w), NEW j \in 1 .. Len(w), h[i] = h[j]
                   PROVE  i = j
      OBVIOUS
    <3>2. h[i] \in 1 .. Len(s) /\ ~(i < j) /\ ~(j < i)
      BY <3>1, <1>1, <1>2, <1>3 DEF Places
    <3> QED
      BY <3>2, <1>2
  <2>2. h \in Injection(1 .. Len(w), 1 .. Len(s))
    BY <2>1, <1>3 DEF Injection, IsInjective
  <2>3. /\ IsFiniteSet(1 .. Len(s)) /\ Cardinality(1 .. Len(s)) = Len(s)
        /\ IsFiniteSet(1 .. Len(w)) /\ Cardinality(1 .. Len(w)) = Len(w)
    BY <1>2, FiniteInterval, Zenon
  <2> QED
    BY <2>2, <2>3, FS_Injection
<1> QED
  BY <1>4, <1>5, <1>6, <1>2 DEF w, IsInjective

\* Only the elements that s has matter to what is selected from it.
LEMMA WithinSame ==
    ASSUME NEW T, NEW S, NEW R, NEW s \in Seq(T),
           \A x \in ToSet(s) : x \in S <=> x \in R
    PROVE  Within(s, S) = Within(s, R)
<1> DEFINE G == {r \in Seq(T) : (\A x \in ToSet(r) : x \in S <=> x \in R)
                                   => Within(r, S) = Within(r, R)}
<1>1. <<>> \in G
  <2>1. <<>> \in Seq(T)
    OBVIOUS
  <2> QED
    BY <2>1, WithinType, Zenon
<1>2. ASSUME NEW r \in Seq(T), NEW y \in T, r \in G PROVE Append(r, y) \in G
  <2>1. ToSet(Append(r, y)) = ToSet(r) \cup {y} /\ Append(r, y) \in Seq(T)
    BY AppendedElement
  <2>2. \A Q : Within(Append(r, y), Q) = IF y \in Q THEN Append(Within(r, Q), y)
                                         ELSE Within(r, Q)
    BY WithinAppend
  <2>3. SUFFICES ASSUME \A x \in ToSet(r) \cup {y} : x \in S <=> x \in R
                 PROVE  Within(Append(r, y), S) = Within(Append(r, y), R)
    BY <2>1
  <2>4. Within(r, S) = Within(r, R) /\ (y \in S <=> y \in R)
    BY <1>2, <2>3
  <2> QED
    BY <2>2, <2>4, Zenon
<1>3. Seq(T) \subseteq G
  <2> HIDE DEF G
  <2> QED
    BY <1>1, <1>2, SequenceInduction
<1> QED
  BY <1>3

\* All of it or nothing.
LEMMA WithinAll ==
    ASSUME NEW T, NEW S, NEW s \in Seq(T)
    PROVE  /\ ToSet(s) \subseteq S => Within(s, S) = s
           /\ ToSet(s) \cap S = {} => Within(s, S) = <<>>
<1> DEFINE G == {r \in Seq(T) : ToSet(r) \subseteq S => Within(r, S) = r}
<1>1. <<>> \in G
  <2>1. <<>> \in Seq(T)
    OBVIOUS
  <2> QED
    BY <2>1, WithinType, Zenon
<1>2. ASSUME NEW r \in Seq(T), NEW y \in T, r \in G PROVE Append(r, y) \in G
  <2>1. ToSet(Append(r, y)) = ToSet(r) \cup {y} /\ Append(r, y) \in Seq(T)
    BY AppendedElement
  <2>2. Within(Append(r, y), S) = IF y \in S THEN Append(Within(r, S), y) ELSE Within(r, S)
    BY WithinAppend
  <2> QED
    BY <1>2, <2>1, <2>2
<1>3. Seq(T) \subseteq G
  <2> HIDE DEF G
  <2> QED
    BY <1>1, <1>2, SequenceInduction
<1>4. ASSUME ToSet(s) \cap S = {} PROVE Within(s, S) = <<>>
  <2>1. Within(s, S) \in Seq(T) /\ ToSet(Within(s, S)) = {}
    BY <1>4, WithinType, WithinElements
  <2> DEFINE w == Within(s, S)
  <2> HIDE DEF w
  <2>2. w \in Seq(T) /\ ToSet(w) = {}
    BY <2>1 DEF w
  <2>3. ASSUME w # <<>> PROVE FALSE
    <3>1. 1 \in DOMAIN w
      BY <2>2, <2>3
    <3>2. w[1] \in ToSet(w)
      BY <3>1 DEF ToSet
    <3> QED
      BY <2>2, <3>2
  <2> QED
    BY <2>3 DEF w
<1> QED
  BY <1>3, <1>4

\* What becomes of three sequences in a row does not depend on where one begins.
Associative(r, s, t) == (r \o s) \o t = r \o (s \o t)

LEMMA ThreeInARow ==
    ASSUME NEW T, NEW r \in Seq(T), NEW s \in Seq(T), NEW t \in Seq(T)
    PROVE  Associative(r, s, t)
BY ConcatAssociative DEF Associative

\* The first of two sequences in a row begins the whole.
LEMMA FirstPart ==
    ASSUME NEW T, NEW s \in Seq(T), NEW t \in Seq(T)
    PROVE  Len(s) \in 0 .. Len(s \o t) /\ SubSeq(s \o t, 1, Len(s)) = s
<1> DEFINE w == s \o t
<1>1. /\ w \in Seq(T) /\ Len(w) = Len(s) + Len(t) /\ Len(s) \in Nat /\ Len(t) \in Nat
      /\ \A i \in 1 .. Len(s) : w[i] = s[i]
  BY ConcatProperties
<1> HIDE DEF w
<1>2. /\ SubSeq(w, 1, Len(s)) \in Seq(T) /\ Len(SubSeq(w, 1, Len(s))) = Len(s)
      /\ \A i \in 1 .. Len(s) : SubSeq(w, 1, Len(s))[i] = s[i]
  BY <1>1
<1>3. SubSeq(w, 1, Len(s)) = s
  BY <1>2, SeqEqual
<1> QED
  BY <1>1, <1>3 DEF w

\* An element put at the end of the second of two sequences in a row.
LEMMA ConcatAppend ==
    ASSUME NEW T, NEW s \in Seq(T), NEW r \in Seq(T), NEW y \in T
    PROVE  s \o Append(r, y) = Append(s \o r, y)
<1>1. <<y>> \in Seq(T)
  OBVIOUS
<1>2. Append(r, y) = r \o <<y>>
  BY AppendIsConcat
<1>3. s \o r \in Seq(T)
  BY ConcatProperties
<1>4. Append(s \o r, y) = (s \o r) \o <<y>>
  BY <1>3, AppendIsConcat
<1>5. (s \o r) \o <<y>> = s \o (r \o <<y>>)
  BY <1>1, ConcatAssociative
<1> QED
  BY <1>2, <1>4, <1>5, Zenon

\* From two sequences in a row it is selected from the one and then from the other.
LEMMA WithinConcat ==
    ASSUME NEW T, NEW S, NEW s \in Seq(T), NEW t \in Seq(T)
    PROVE  Within(s \o t, S) = Within(s, S) \o Within(t, S)
<1> DEFINE G == {r \in Seq(T) : Within(s \o r, S) = Within(s, S) \o Within(r, S)}
<1>1. <<>> \in G
  <2>1. <<>> \in Seq(T) /\ s \o <<>> = s
    OBVIOUS
  <2>2. Within(s, S) \in Seq(T) /\ Within(<<>>, S) = <<>>
    BY WithinType
  <2>3. Within(s, S) \o <<>> = Within(s, S)
    BY <2>2
  <2> QED
    BY <2>1, <2>2, <2>3
<1>2. ASSUME NEW r \in Seq(T), NEW y \in T, r \in G PROVE Append(r, y) \in G
  <2> DEFINE w == Within(s, S)
             q == Within(r, S)
  <2>1. s \o r \in Seq(T) /\ s \o Append(r, y) = Append(s \o r, y) /\ Append(r, y) \in Seq(T)
    BY ConcatAppend, ConcatProperties, AppendProperties
  <2>2. Within(s \o Append(r, y), S) = IF y \in S THEN Append(Within(s \o r, S), y)
                                       ELSE Within(s \o r, S)
    <3> DEFINE a == s \o r
    <3>2. a \in Seq(T)
      BY <2>1
    <3> HIDE DEF a
    <3>3. Within(Append(a, y), S) = IF y \in S THEN Append(Within(a, S), y) ELSE Within(a, S)
      BY <3>2, WithinAppend
    <3>1. Within(Append(s \o r, y), S) = IF y \in S THEN Append(Within(s \o r, S), y)
                                         ELSE Within(s \o r, S)
      BY <3>3 DEF a
    <3> QED
      BY <3>1, <2>1, Zenon
  <2>3. Within(Append(r, y), S) = IF y \in S THEN Append(q, y) ELSE q
    BY WithinAppend
  <2>4. w \in Seq(T) /\ q \in Seq(T) /\ Within(s \o r, S) = w \o q
    BY <1>2, WithinType
  <2> HIDE DEF w, q
  <2>5. Append(w \o q, y) = w \o Append(q, y)
    <3>1. w \in Seq(T) /\ q \in Seq(T)
      BY <2>4
    <3>2. w \o Append(q, y) = Append(w \o q, y)
      BY <3>1, ConcatAppend
    <3> QED
      BY <3>2, Zenon
  <2>6. Within(s \o Append(r, y), S) = w \o Within(Append(r, y), S)
    BY <2>2, <2>3, <2>4, <2>5, Zenon
  <2> QED
    BY <2>1, <2>6 DEF w
<1>3. Seq(T) \subseteq G
  <2> HIDE DEF G
  <2> QED
    BY <1>1, <1>2, SequenceInduction
<1> QED
  BY <1>3

\* Of a single element.
LEMMA WithinSingle ==
    ASSUME NEW T, NEW S, NEW x \in T
    PROVE  Within(<<x>>, S) = IF x \in S THEN <<x>> ELSE <<>>
<1> DEFINE y == <<x>>
<1>1. y \in Seq(T) /\ Len(y) = 1 /\ y[1] = x
  OBVIOUS
<1> HIDE DEF y
<1>2. PICK f : Selecting(f, y, S, T) /\ Within(y, S) = f[Len(y)]
  BY <1>1, WithinUnfold, Zenon
<1>3. f[0] = <<>> /\ f[1] = IF x \in S THEN Append(f[0], x) ELSE f[0]
  BY <1>1, <1>2 DEF Selecting
<1>4. f[1] = IF x \in S THEN <<x>> ELSE <<>>
  BY <1>3
<1> QED
  BY <1>1, <1>2, <1>4 DEF y

\* The first element is selected first or left out.
LEMMA WithinFirst ==
    ASSUME NEW T, NEW S, NEW s \in Seq(T), s # <<>>
    PROVE  Within(s, S) = IF Head(s) \in S THEN <<Head(s)>> \o Within(Tail(s), S)
                          ELSE Within(Tail(s), S)
<1> DEFINE x == Head(s)
           r == Tail(s)
<1>1. x \in T /\ r \in Seq(T) /\ s = <<x>> \o r /\ <<x>> \in Seq(T) /\ <<>> \in Seq(T)
      /\ <<x>> = Append(<<>>, x)
  OBVIOUS
<1> HIDE DEF x, r
<1>2. Within(s, S) = Within(<<x>>, S) \o Within(r, S)
  BY <1>1, WithinConcat
<1>3. Within(<<>>, S) = <<>> /\ Within(r, S) \in Seq(T)
  BY <1>1, WithinType
<1>4. Within(<<x>>, S) = IF x \in S THEN <<x>> ELSE <<>>
  BY <1>1, WithinSingle, Zenon
<1>5. <<>> \o Within(r, S) = Within(r, S)
  BY <1>3
<1> QED
  BY <1>2, <1>4, <1>5 DEF x, r

\* The sequence of what f makes of the elements of s.
Mapped(f, s) == [i \in DOMAIN s |-> f[s[i]]]

\* Mapping goes element by element.
Mapping(f, s, T, U) ==
    /\ Mapped(f, s) \in Seq(U)
    /\ Len(Mapped(f, s)) = Len(s)
    /\ \A i \in 1 .. Len(s) : Mapped(f, s)[i] = f[s[i]]
    /\ Mapped(f, <<>>) = <<>>
    /\ \A x \in T : Mapped(f, Append(s, x)) = Append(Mapped(f, s), f[x])
    /\ \A t \in Seq(T) : Mapped(f, s \o t) = Mapped(f, s) \o Mapped(f, t)
    /\ \A n \in 0 .. Len(s) : Mapped(f, SubSeq(s, 1, n)) = SubSeq(Mapped(f, s), 1, n)

\* A sequence is mapped along with what is put behind it and what it begins with.
LEMMA MappedAppend ==
    ASSUME NEW T, NEW U, NEW f \in [T -> U], NEW s \in Seq(T)
    PROVE  Mapping(f, s, T, U)
<1>1. \A r \in Seq(T) : /\ Mapped(f, r) \in Seq(U) /\ Len(Mapped(f, r)) = Len(r)
                        /\ \A i \in 1 .. Len(r) : Mapped(f, r)[i] = f[r[i]]
  BY DEF Mapped
<1>2. Mapped(f, <<>>) = <<>>
  BY DEF Mapped
<1>3. ASSUME NEW x \in T PROVE Mapped(f, Append(s, x)) = Append(Mapped(f, s), f[x])
  <2> DEFINE a == Append(s, x)
             b == Append(Mapped(f, s), f[x])
  <2>1. /\ a \in Seq(T) /\ Len(a) = Len(s) + 1 /\ a[Len(s) + 1] = x
        /\ \A i \in 1 .. Len(s) : a[i] = s[i]
    BY AppendProperties
  <2>2. f[x] \in U /\ Mapped(f, s) \in Seq(U) /\ Len(Mapped(f, s)) = Len(s)
    BY <1>1
  <2>3. /\ b \in Seq(U) /\ Len(b) = Len(s) + 1 /\ b[Len(s) + 1] = f[x]
        /\ \A i \in 1 .. Len(s) : b[i] = Mapped(f, s)[i]
    <3> DEFINE m == Mapped(f, s)
    <3>1. m \in Seq(U) /\ f[x] \in U /\ Len(m) = Len(s)
      BY <2>2
    <3> HIDE DEF m
    <3>2. /\ Append(m, f[x]) \in Seq(U) /\ Len(Append(m, f[x])) = Len(m) + 1
          /\ Append(m, f[x])[Len(m) + 1] = f[x]
          /\ \A i \in 1 .. Len(m) : Append(m, f[x])[i] = m[i]
      BY <3>1, AppendProperties
    <3> QED
      BY <3>1, <3>2 DEF m
  <2> HIDE DEF a, b
  <2>4. \A i \in 1 .. Len(s) : Mapped(f, a)[i] = b[i]
    <3>1. \A i \in 1 .. Len(s) : i \in 1 .. Len(a)
      BY <2>1
    <3>2. \A i \in 1 .. Len(s) : Mapped(f, a)[i] = f[s[i]]
      BY <3>1, <2>1, <1>1
    <3>3. \A i \in 1 .. Len(s) : b[i] = f[s[i]]
      BY <2>3, <1>1
    <3> QED
      BY <3>2, <3>3
  <2>5. Mapped(f, a)[Len(s) + 1] = b[Len(s) + 1]
    BY <2>1, <2>3, <1>1
  <2>6. Mapped(f, a) \in Seq(U) /\ Len(Mapped(f, a)) = Len(b)
    BY <2>1, <2>3, <1>1
  <2>7. \A i \in 1 .. Len(b) : Mapped(f, a)[i] = b[i]
    BY <2>3, <2>4, <2>5
  <2>8. Mapped(f, a) = b
    BY <2>3, <2>6, <2>7, SeqEqual
  <2> QED
    BY <2>8 DEF a, b
<1>4. ASSUME NEW t \in Seq(T) PROVE Mapped(f, s \o t) = Mapped(f, s) \o Mapped(f, t)
  <2> DEFINE a == s \o t
             b == Mapped(f, s) \o Mapped(f, t)
             n == Len(s) + Len(t)
  <2>1. /\ a \in Seq(T) /\ Len(a) = n
        /\ \A i \in 1 .. n : a[i] = IF i <= Len(s) THEN s[i] ELSE t[i - Len(s)]
    BY ConcatProperties
  <2>2. /\ Mapped(f, s) \in Seq(U) /\ Len(Mapped(f, s)) = Len(s)
        /\ Mapped(f, t) \in Seq(U) /\ Len(Mapped(f, t)) = Len(t)
    BY <1>1
  <2>3. /\ b \in Seq(U) /\ Len(b) = n
        /\ \A i \in 1 .. n : b[i] = IF i <= Len(s) THEN Mapped(f, s)[i]
                                      ELSE Mapped(f, t)[i - Len(s)]
    <3> DEFINE u == Mapped(f, s)
               v == Mapped(f, t)
    <3>1. u \in Seq(U) /\ v \in Seq(U) /\ Len(u) = Len(s) /\ Len(v) = Len(t)
      BY <2>2
    <3> HIDE DEF u, v
    <3>2. /\ u \o v \in Seq(U) /\ Len(u \o v) = Len(u) + Len(v)
          /\ \A i \in 1 .. Len(u) + Len(v) : (u \o v)[i] =
                 IF i <= Len(u) THEN u[i] ELSE v[i - Len(u)]
      BY <3>1, ConcatProperties
    <3> QED
      BY <3>1, <3>2, Zenon DEF u, v
  <2>4. Len(s) \in Nat /\ Len(t) \in Nat
    OBVIOUS
  <2> HIDE DEF a, b
  <2>5. ASSUME NEW i \in 1 .. n PROVE Mapped(f, a)[i] = b[i]
    <3>1. Mapped(f, a)[i] = f[a[i]]
      BY <2>1, <1>1
    <3>2. CASE i <= Len(s)
      <4>1. i \in 1 .. Len(s)
        BY <3>2, <2>4
      <4> QED
        BY <4>1, <3>1, <3>2, <2>1, <2>3, <1>1
    <3>3. CASE ~(i <= Len(s))
      <4>1. i - Len(s) \in 1 .. Len(t)
        BY <3>3, <2>4
      <4> QED
        BY <4>1, <3>1, <3>3, <2>1, <2>3, <1>1
    <3> QED
      BY <3>2, <3>3
  <2>6. Mapped(f, a) \in Seq(U) /\ Len(Mapped(f, a)) = n
    BY <2>1, <1>1
  <2>7. Mapped(f, a) = b
    <3> HIDE DEF n
    <3> QED
      BY <2>3, <2>5, <2>6, SeqEqual
  <2> QED
    BY <2>7 DEF a, b
<1>5. ASSUME NEW n \in 0 .. Len(s)
      PROVE  Mapped(f, SubSeq(s, 1, n)) = SubSeq(Mapped(f, s), 1, n)
  <2> DEFINE a == SubSeq(s, 1, n)
             b == SubSeq(Mapped(f, s), 1, n)
  <2>1. a \in Seq(T) /\ Len(a) = n /\ \A i \in 1 .. n : a[i] = s[i]
    OBVIOUS
  <2>2. Mapped(f, s) \in Seq(U) /\ Len(Mapped(f, s)) = Len(s)
    BY <1>1
  <2>3. b \in Seq(U) /\ Len(b) = n /\ \A i \in 1 .. n : b[i] = Mapped(f, s)[i]
    BY <2>2
  <2> HIDE DEF a, b
  <2>4. \A i \in 1 .. n : i \in 1 .. Len(s)
    OBVIOUS
  <2>5. /\ Mapped(f, a) \in Seq(U) /\ Len(Mapped(f, a)) = n
        /\ \A i \in 1 .. n : Mapped(f, a)[i] = b[i]
    <3>1. Mapped(f, a) \in Seq(U) /\ Len(Mapped(f, a)) = n
      BY <2>1, <1>1
    <3>2. \A i \in 1 .. n : Mapped(f, a)[i] = f[s[i]]
      BY <2>1, <1>1
    <3>3. \A i \in 1 .. n : b[i] = f[s[i]]
      BY <2>3, <2>4, <1>1
    <3> QED
      BY <3>1, <3>2, <3>3
  <2>6. Mapped(f, a) = b
    BY <2>3, <2>5, SeqEqual
  <2> QED
    BY <2>6 DEF a, b
<1> QED
  BY <1>1, <1>2, <1>3, <1>4, <1>5 DEF Mapping

\* It is the same to select from s and to map then, and to map s and to select then.
Commuting(f, s, S, R) == Mapped(f, Within(s, S)) = Within(Mapped(f, s), R)

\* Selecting commutes with a mapping that tells what is selected from what is not.
LEMMA WithinMapped ==
    ASSUME NEW T, NEW U, NEW S, NEW R, NEW f \in [T -> U], NEW s \in Seq(T),
           \A x \in ToSet(s) : x \in S <=> f[x] \in R
    PROVE  Commuting(f, s, S, R)
<1> DEFINE G == {r \in Seq(T) : (\A x \in ToSet(r) : x \in S <=> f[x] \in R)
                                   => Mapped(f, Within(r, S)) = Within(Mapped(f, r), R)}
<1>1. <<>> \in G
  <2>1. <<>> \in Seq(T) /\ <<>> \in Seq(U)
    OBVIOUS
  <2>2. Within(<<>>, S) = <<>> /\ Within(<<>>, R) = <<>> /\ Mapped(f, <<>>) = <<>>
    BY <2>1, WithinType, MappedAppend DEF Mapping
  <2> QED
    BY <2>1, <2>2
<1>2. ASSUME NEW r \in Seq(T), NEW y \in T, r \in G PROVE Append(r, y) \in G
  <2>1. ToSet(Append(r, y)) = ToSet(r) \cup {y} /\ Append(r, y) \in Seq(T) /\ f[y] \in U
    <3>1. ToSet(Append(r, y)) = ToSet(r) \cup {y}
      BY AppendedElement
    <3> QED
      BY <3>1
  <2>2. SUFFICES ASSUME \A x \in ToSet(r) \cup {y} : x \in S <=> f[x] \in R
                 PROVE  Mapped(f, Within(Append(r, y), S)) = Within(Mapped(f, Append(r, y)), R)
    BY <2>1
  <2>3. Mapped(f, Within(r, S)) = Within(Mapped(f, r), R) /\ (y \in S <=> f[y] \in R)
    BY <1>2, <2>2
  <2> DEFINE w == Within(r, S)
             q == Mapped(f, r)
  <2>4. w \in Seq(T) /\ q \in Seq(U)
    BY WithinType, MappedAppend DEF Mapping
  <2>5. Within(Append(r, y), S) = IF y \in S THEN Append(Within(r, S), y) ELSE Within(r, S)
    BY WithinAppend
  <2>6. Mapped(f, Append(r, y)) = Append(Mapped(f, r), f[y])
    <3>1. Mapping(f, r, T, U)
      BY MappedAppend, Zenon
    <3> QED
      BY <3>1, Zenon DEF Mapping
  <2> HIDE DEF w, q
  <2>7. Within(Append(q, f[y]), R) =
           IF f[y] \in R THEN Append(Within(q, R), f[y]) ELSE Within(q, R)
    BY <2>1, <2>4, WithinAppend
  <2>8. Mapped(f, Append(w, y)) = Append(Mapped(f, w), f[y])
    <3>1. w \in Seq(T)
      BY <2>4
    <3>2. Mapping(f, w, T, U)
      BY <3>1, MappedAppend, Zenon
    <3> QED
      BY <3>2, Zenon DEF Mapping
  <2>9. CASE y \in S
    BY <2>9, <2>3, <2>5, <2>6, <2>7, <2>8, Zenon DEF w, q
  <2>10. CASE y \notin S
    BY <2>10, <2>3, <2>5, <2>6, <2>7, Zenon DEF w, q
  <2> QED
    BY <2>9, <2>10
<1>3. Seq(T) \subseteq G
  <2> HIDE DEF G
  <2> QED
    BY <1>1, <1>2, SequenceInduction
<1> QED
  BY <1>3 DEF Commuting

\* Array.includes()
LEMMA ContainsIs ==
    ASSUME NEW T, NEW s \in Seq(T), NEW e
    PROVE  Contains(s, e) <=> e \in ToSet(s)
<1>1. DOMAIN s = 1 .. Len(s)
  OBVIOUS
<1> QED
  BY <1>1 DEF Contains, ToSet

---------------------------------------------------------------------------
(* Sequences without repetition *)

\* p is the first place of e in s, 0 if it has none.
IsFirstPlace(p, s, e) ==
    \/ p = 0 /\ e \notin ToSet(s)
    \/ p \in 1 .. Len(s) /\ s[p] = e /\ \A i \in 1 .. p - 1 : s[i] # e

\* Array.indexOf() finds it.
LEMMA FirstPlace ==
    ASSUME NEW T, NEW s \in Seq(T), NEW e
    PROVE  IsFirstPlace(SelectInSeq(s, LAMBDA v : v = e), s, e)
<1> DEFINE I == {i \in 1 .. Len(s) : s[i] = e}
           p == SelectInSeq(s, LAMBDA v : v = e)
<1>1. p = IF I # {} THEN Min(I) ELSE 0
  BY DEF SelectInSeq
<1>2. CASE I = {}
  <2>1. e \notin ToSet(s)
    BY <1>2 DEF ToSet
  <2> QED
    BY <2>1, <1>1, <1>2 DEF IsFirstPlace
<1>3. CASE I # {}
  <2>1. I \in SUBSET Nat
    OBVIOUS
  <2>2. \E n \in I : \A m \in I : n <= m
    <3> HIDE DEF I
    <3> QED
      BY <2>1, <1>3, LeastElement
  <2>3. Min(I) \in I /\ \A m \in I : Min(I) <= m
    <3> HIDE DEF I
    <3> QED
      BY <2>2 DEF Min
  <2>4. p \in I /\ \A m \in I : p <= m
    BY <2>3, <1>1, <1>3
  <2> HIDE DEF p
  <2>5. p \in 1 .. Len(s) /\ s[p] = e /\ \A i \in 1 .. p - 1 : s[i] # e
    BY <2>4
  <2> QED
    BY <2>5 DEF p, IsFirstPlace
<1> QED
  BY <1>2, <1>3

\* r is s without its element at place p.
TakenOut(r, s, p, T) ==
    /\ r \in Seq(T) /\ Len(r) = Len(s) - 1
    /\ \A i \in 1 .. Len(r) : r[i] = IF i < p THEN s[i] ELSE s[i + 1]

\* What is before the place and what is after it.
LEMMA TakingOut ==
    ASSUME NEW T, NEW s \in Seq(T), NEW p \in 1 .. Len(s)
    PROVE  TakenOut(SubSeq(s, 1, p - 1) \o SubSeq(s, p + 1, Len(s)), s, p, T)
<1> DEFINE a == SubSeq(s, 1, p - 1)
           b == SubSeq(s, p + 1, Len(s))
<1>1. Len(s) \in Nat
  OBVIOUS
<1>2. a \in Seq(T) /\ Len(a) = p - 1 /\ \A i \in 1 .. p - 1 : a[i] = s[i]
  OBVIOUS
<1>3. b \in Seq(T) /\ Len(b) = Len(s) - p /\ \A i \in 1 .. Len(s) - p : b[i] = s[i + p]
  OBVIOUS
<1> HIDE DEF a, b
<1>4. /\ a \o b \in Seq(T) /\ Len(a \o b) = Len(a) + Len(b)
      /\ \A i \in 1 .. Len(a) + Len(b) :
            (a \o b)[i] = IF i <= Len(a) THEN a[i] ELSE b[i - Len(a)]
  BY <1>2, <1>3, ConcatProperties
<1> DEFINE r == a \o b
<1>5. /\ r \in Seq(T) /\ Len(r) = Len(s) - 1
      /\ \A i \in 1 .. Len(r) : r[i] = IF i <= p - 1 THEN a[i] ELSE b[i - (p - 1)]
  BY <1>1, <1>2, <1>3, <1>4
<1> HIDE DEF r
<1>6. ASSUME NEW i \in 1 .. Len(r), i < p PROVE r[i] = s[i]
  BY <1>1, <1>2, <1>5, <1>6
<1>7. ASSUME NEW i \in 1 .. Len(r), ~(i < p) PROVE r[i] = s[i + 1]
  <2>1. i - (p - 1) \in 1 .. Len(s) - p /\ (i - (p - 1)) + p = i + 1 /\ ~(i <= p - 1)
    BY <1>1, <1>5, <1>7
  <2>2. r[i] = b[i - (p - 1)]
    BY <2>1, <1>5
  <2> QED
    BY <2>1, <2>2, <1>3
<1> QED
  BY <1>5, <1>6, <1>7 DEF TakenOut, r, a, b

\* The first occurrence of e is taken out: of a sequence that has it once, the only one.
LEMMA RemovedFirst ==
    ASSUME NEW T, NEW s \in Seq(T), IsInjective(s), NEW e
    PROVE  /\ RemoveFirst(s, e) \in Seq(T) /\ IsInjective(RemoveFirst(s, e))
           /\ ToSet(RemoveFirst(s, e)) = ToSet(s) \ {e}
<1>1. DOMAIN s = 1 .. Len(s) /\ Len(s) \in Nat
  OBVIOUS
<1>2. CASE e \notin ToSet(s)
  <2>1. RemoveFirst(s, e) = s
    BY <1>1, <1>2 DEF RemoveFirst, ToSet
  <2> QED
    BY <2>1, <1>2
<1>3. CASE e \in ToSet(s)
  <2> DEFINE p == SelectInSeq(s, LAMBDA v : v = e)
             r == SubSeq(s, 1, p - 1) \o SubSeq(s, p + 1, Len(s))
  <2>1. \E i \in 1 .. Len(s) : s[i] = e
    BY <1>1, <1>3 DEF ToSet
  <2>2. p \in 1 .. Len(s) /\ s[p] = e
    <3>1. IsFirstPlace(p, s, e)
      BY FirstPlace, Zenon
    <3> HIDE DEF p
    <3> QED
      BY <3>1, <1>3 DEF IsFirstPlace
  <2>3. RemoveFirst(s, e) = r
    BY <2>1 DEF RemoveFirst, RemoveAt
  <2> HIDE DEF p
  <2>4. TakenOut(r, s, p, T)
    BY <2>2, TakingOut, Zenon
  <2> HIDE DEF r
  <2>8. /\ r \in Seq(T) /\ Len(r) = Len(s) - 1
        /\ \A i \in 1 .. Len(r) : r[i] = IF i < p THEN s[i] ELSE s[i + 1]
    BY <2>4 DEF TakenOut
  <2>5. DOMAIN r = 1 .. Len(r)
    BY <2>8
  <2>6. ASSUME NEW i \in 1 .. Len(r), NEW j \in 1 .. Len(r), r[i] = r[j] PROVE i = j
    <3> DEFINE k(n) == IF n < p THEN n ELSE n + 1
    <3>1. k(i) \in 1 .. Len(s) /\ k(j) \in 1 .. Len(s)
      BY <2>8, <2>2, <1>1
    <3>2. s[k(i)] = s[k(j)]
      BY <2>6, <2>8
    <3>3. k(i) = k(j)
      BY <3>1, <3>2, <1>1 DEF IsInjective
    <3> QED
      BY <3>3, <2>8, <2>2, <1>1
  <2>7. ToSet(r) = ToSet(s) \ {e}
    <3>1. ASSUME NEW x \in ToSet(r) PROVE x \in ToSet(s) \ {e}
      <4>1. PICK i \in 1 .. Len(r) : r[i] = x
        BY <2>5 DEF ToSet
      <4>2. PICK k \in 1 .. Len(s) : s[k] = x /\ k # p
        BY <4>1, <2>8, <2>2, <1>1
      <4> QED
        BY <4>2, <2>2, <1>1 DEF ToSet, IsInjective
    <3>2. ASSUME NEW x \in ToSet(s) \ {e} PROVE x \in ToSet(r)
      <4>1. PICK k \in 1 .. Len(s) : s[k] = x
        BY <1>1 DEF ToSet
      <4>2. k # p
        BY <4>1, <2>2
      <4>3. CASE k < p
        <5>1. k \in 1 .. Len(r) /\ r[k] = x
          BY <4>1, <4>3, <2>8, <2>2, <1>1
        <5> QED
          BY <5>1, <2>5 DEF ToSet
      <4>4. CASE k > p
        <5>1. k - 1 \in 1 .. Len(r) /\ r[k - 1] = x
          BY <4>1, <4>4, <2>8, <2>2, <1>1
        <5> QED
          BY <5>1, <2>5 DEF ToSet
      <4> QED
        BY <4>2, <4>3, <4>4, <4>1, <2>2
    <3> QED
      BY <3>1, <3>2
  <2> QED
    BY <2>3, <2>8, <2>5, <2>6, <2>7 DEF IsInjective
<1> QED
  BY <1>2, <1>3

\* A further element that s does not have yet leaves it without repetition.
LEMMA AppendedOnce ==
    ASSUME NEW T, NEW s \in Seq(T), IsInjective(s), NEW e \in T, e \notin ToSet(s)
    PROVE  /\ Append(s, e) \in Seq(T) /\ IsInjective(Append(s, e))
           /\ ToSet(Append(s, e)) = ToSet(s) \cup {e}
<1>1. DOMAIN s = 1 .. Len(s) /\ Len(s) \in Nat
      /\ DOMAIN Append(s, e) = 1 .. Len(s) + 1 /\ Append(s, e)[Len(s) + 1] = e
      /\ \A i \in 1 .. Len(s) : Append(s, e)[i] = s[i]
  OBVIOUS
<1>2. \A i \in 1 .. Len(s) : s[i] # e
  BY <1>1 DEF ToSet
<1>3. ASSUME NEW i \in 1 .. Len(s) + 1, NEW j \in 1 .. Len(s) + 1,
             Append(s, e)[i] = Append(s, e)[j]
      PROVE  i = j
  BY <1>1, <1>2, <1>3 DEF IsInjective
<1>4. ToSet(Append(s, e)) = ToSet(s) \cup {e}
  BY DEF ToSet
<1> QED
  BY <1>1, <1>3, <1>4 DEF IsInjective

\* Two sequences in a row have the elements of both, each once if they have none in common.
LEMMA ConcatOnce ==
    ASSUME NEW T, NEW s \in Seq(T), NEW t \in Seq(T)
    PROVE  /\ s \o t \in Seq(T) /\ ToSet(s \o t) = ToSet(s) \cup ToSet(t)
           /\ IsInjective(s) /\ IsInjective(t) /\ ToSet(s) \cap ToSet(t) = {}
                 => IsInjective(s \o t)
<1> DEFINE c == s \o t
<1>1. /\ c \in Seq(T) /\ Len(c) = Len(s) + Len(t) /\ Len(s) \in Nat /\ Len(t) \in Nat
      /\ DOMAIN c = 1 .. Len(s) + Len(t) /\ DOMAIN s = 1 .. Len(s) /\ DOMAIN t = 1 .. Len(t)
      /\ \A i \in 1 .. Len(s) : c[i] = s[i]
      /\ \A i \in 1 .. Len(t) : c[Len(s) + i] = t[i]
      /\ \A i \in DOMAIN c : i \in 1 .. Len(s) \/ i - Len(s) \in 1 .. Len(t)
      /\ \A i \in DOMAIN c : i - Len(s) \in 1 .. Len(t) => c[i] = t[i - Len(s)]
  OBVIOUS
<1> HIDE DEF c
<1>2. ToSet(c) = ToSet(s) \cup ToSet(t)
  <2>1. ASSUME NEW x \in ToSet(c) PROVE x \in ToSet(s) \cup ToSet(t)
    <3>1. PICK i \in DOMAIN c : c[i] = x
      BY DEF ToSet
    <3> QED
      BY <1>1, <3>1 DEF ToSet
  <2>2. ASSUME NEW x \in ToSet(s) PROVE x \in ToSet(c)
    <3>1. PICK i \in 1 .. Len(s) : s[i] = x
      BY <1>1 DEF ToSet
    <3>2. i \in DOMAIN c /\ c[i] = x
      BY <1>1, <3>1
    <3> QED
      BY <3>2 DEF ToSet
  <2>3. ASSUME NEW x \in ToSet(t) PROVE x \in ToSet(c)
    <3>1. PICK i \in 1 .. Len(t) : t[i] = x
      BY <1>1 DEF ToSet
    <3>2. Len(s) + i \in DOMAIN c /\ c[Len(s) + i] = x
      BY <1>1, <3>1
    <3> QED
      BY <3>2 DEF ToSet
  <2> QED
    BY <2>1, <2>2, <2>3
<1>3. ASSUME IsInjective(s), IsInjective(t), ToSet(s) \cap ToSet(t) = {},
             NEW i \in DOMAIN c, NEW j \in DOMAIN c, c[i] = c[j]
      PROVE  i = j
  <2>1. \A k \in 1 .. Len(s) : c[k] \in ToSet(s)
    BY <1>1 DEF ToSet
  <2>2. \A k \in DOMAIN c : k - Len(s) \in 1 .. Len(t) => c[k] \in ToSet(t)
    BY <1>1 DEF ToSet
  <2>3. CASE i \in 1 .. Len(s) /\ j \in 1 .. Len(s)
    BY <1>1, <1>3, <2>3 DEF IsInjective
  <2>4. CASE i - Len(s) \in 1 .. Len(t) /\ j - Len(s) \in 1 .. Len(t)
    <3>1. t[i - Len(s)] = t[j - Len(s)]
      BY <1>1, <1>3, <2>4
    <3>2. i - Len(s) = j - Len(s)
      BY <1>1, <1>3, <2>4, <3>1 DEF IsInjective
    <3> QED
      BY <1>1, <3>2
  <2> QED
    BY <1>1, <1>3, <2>1, <2>2, <2>3, <2>4
<1> QED
  BY <1>1, <1>2, <1>3 DEF c, IsInjective

\* Array.reverse()
Reversed(r, s, T) ==
    /\ r \in Seq(T) /\ Len(r) = Len(s) /\ ToSet(r) = ToSet(s) /\ DOMAIN r = DOMAIN s
    /\ IsInjective(s) => IsInjective(r)
    /\ \A i \in 1 .. Len(s) : r[i] = s[(Len(s) - i) + 1] /\ (Len(s) - i) + 1 \in 1 .. Len(s)

LEMMA ReverseIs ==
    ASSUME NEW T, NEW s \in Seq(T)
    PROVE  Reversed(Reverse(s), s, T)
<1> DEFINE r == Reverse(s)
           n == Len(s)
<1>1. /\ n \in Nat /\ r \in Seq(T) /\ Len(r) = n /\ DOMAIN r = 1 .. n /\ DOMAIN s = 1 .. n
      /\ \A i \in 1 .. n : r[i] = s[(n - i) + 1] /\ (n - i) + 1 \in 1 .. n
      /\ \A i \in 1 .. n : (n - ((n - i) + 1)) + 1 = i
  BY DEF Reverse
<1> HIDE DEF r, n
<1>2. ToSet(r) = ToSet(s)
  <2>1. \A x \in ToSet(r) : x \in ToSet(s)
    BY <1>1 DEF ToSet
  <2>2. ASSUME NEW x \in ToSet(s) PROVE x \in ToSet(r)
    <3>1. PICK i \in 1 .. n : s[i] = x
      BY <1>1 DEF ToSet
    <3>2. r[(n - i) + 1] = x /\ (n - i) + 1 \in DOMAIN r
      BY <1>1, <3>1
    <3> QED
      BY <3>2 DEF ToSet
  <2> QED
    BY <2>1, <2>2
<1>3. ASSUME IsInjective(s), NEW i \in 1 .. n, NEW j \in 1 .. n, r[i] = r[j] PROVE i = j
  <2>1. s[(n - i) + 1] = s[(n - j) + 1]
    BY <1>1, <1>3
  <2>2. (n - i) + 1 = (n - j) + 1
    BY <1>1, <1>3, <2>1 DEF IsInjective
  <2> QED
    BY <1>1, <2>2
<1> QED
  BY <1>1, <1>2, <1>3 DEF Reversed, IsInjective, r, n

\* Array.shift() of a sequence without repetition.
LEMMA TailOnce ==
    ASSUME NEW T, NEW s \in Seq(T), IsInjective(s), s # <<>>
    PROVE  /\ Tail(s) \in Seq(T) /\ IsInjective(Tail(s)) /\ Head(s) \notin ToSet(Tail(s))
           /\ Head(s) \in T /\ ToSet(s) = {Head(s)} \cup ToSet(Tail(s))
<1> DEFINE r == Tail(s)
<1>1. /\ Len(s) \in Nat \ {0} /\ DOMAIN s = 1 .. Len(s) /\ Head(s) = s[1] /\ Head(s) \in T
      /\ r \in Seq(T) /\ Len(r) = Len(s) - 1 /\ DOMAIN r = 1 .. Len(s) - 1
      /\ \A i \in 1 .. Len(s) - 1 : r[i] = s[i + 1]
  OBVIOUS
<1> HIDE DEF r
<1>2. IsInjective(r)
  <2>1. ASSUME NEW i \in DOMAIN r, NEW j \in DOMAIN r, r[i] = r[j] PROVE i = j
    <3>1. i + 1 \in DOMAIN s /\ j + 1 \in DOMAIN s /\ s[i + 1] = s[j + 1]
      BY <2>1, <1>1
    <3> QED
      BY <3>1, <1>1 DEF IsInjective
  <2> QED
    BY <2>1 DEF IsInjective
<1>3. \A i \in DOMAIN r : r[i] # s[1]
  <2>1. ASSUME NEW i \in DOMAIN r, r[i] = s[1] PROVE FALSE
    <3>1. i + 1 \in DOMAIN s /\ 1 \in DOMAIN s /\ s[i + 1] = s[1] /\ i + 1 # 1
      BY <2>1, <1>1
    <3> QED
      BY <3>1 DEF IsInjective
  <2> QED
    BY <2>1
<1>4. ToSet(s) = {Head(s)} \cup ToSet(r)
  <2>1. ASSUME NEW i \in DOMAIN s PROVE s[i] \in {Head(s)} \cup ToSet(r)
    <3>1. CASE i = 1
      BY <3>1, <1>1
    <3>2. CASE i # 1
      <4>1. i - 1 \in DOMAIN r /\ r[i - 1] = s[i]
        BY <3>2, <1>1
      <4> QED
        BY <4>1 DEF ToSet
    <3> QED
      BY <3>1, <3>2
  <2>2. ASSUME NEW i \in DOMAIN r PROVE r[i] \in ToSet(s)
    <3>1. i + 1 \in DOMAIN s /\ r[i] = s[i + 1]
      BY <1>1
    <3> QED
      BY <3>1 DEF ToSet
  <2>3. Head(s) \in ToSet(s)
    BY <1>1 DEF ToSet
  <2> QED
    BY <2>1, <2>2, <2>3 DEF ToSet
<1> QED
  BY <1>1, <1>2, <1>3, <1>4 DEF r, ToSet

\* The elements of a finite set in some order, each once.
LEMMA SetAsSequence ==
    ASSUME NEW S, IsFiniteSet(S)
    PROVE  /\ SetToSeq(S) \in Seq(S) /\ Len(SetToSeq(S)) = Cardinality(S)
           /\ IsInjective(SetToSeq(S)) /\ ToSet(SetToSeq(S)) = S
<1> DEFINE n == Cardinality(S)
           f == SetToSeq(S)
<1>1. n \in Nat /\ Bijection(1 .. n, S) # {}
  BY FS_CardinalityType DEF ExistsBijection
<1>2. \E g \in [1 .. n -> S] : IsInjective(g)
  BY <1>1 DEF Bijection, Injection
<1>3. f \in [1 .. n -> S] /\ IsInjective(f)
  BY <1>2 DEF SetToSeq
<1>4. IsFiniteSet(1 .. n) /\ Cardinality(1 .. n) = n
  BY <1>1, FiniteInterval
<1> HIDE DEF n, f
<1>5. f \in Injection(1 .. n, S)
  BY <1>3 DEF Injection
<1>6. f \in Surjection(1 .. n, S)
  <2>1. Cardinality(1 .. n) = Cardinality(S)
    BY <1>4 DEF n
  <2> QED
    BY <2>1, <1>5, FS_Injection
<1>7. ToSet(f) = S
  BY <1>3, <1>6 DEF Surjection, ToSet
<1>8. f \in Seq(S) /\ Len(f) = n
  BY <1>1, <1>3
<1> QED
  BY <1>3, <1>7, <1>8 DEF n, f
---------------------------------------------------------------------------
(* Values that may be undefined *)

\* Nothing or one element of S.
Maybe(S) == {<<>>} \cup {<<x>> : x \in S}

\* There is at most one.
LEMMA MaybeOne ==
    ASSUME NEW S, NEW s \in Maybe(S)
    PROVE  /\ s \in Seq(S) /\ Len(s) <= 1 /\ DOMAIN s = 1 .. Len(s)
           /\ s # <<>> => s = <<s[1]>> /\ s[1] \in S /\ Len(s) = 1 /\ Head(s) = s[1]
<1>1. CASE s = <<>>
  BY <1>1
<1>2. CASE s # <<>>
  <2>1. PICK x \in S : s = <<x>>
    BY <1>2 DEF Maybe
  <2>2. <<x>> \in Seq(S) /\ Len(<<x>>) = 1 /\ <<x>>[1] = x /\ Head(<<x>>) = x
        /\ DOMAIN <<x>> = 1 .. 1
    OBVIOUS
  <2> QED
    BY <2>1, <2>2
<1> QED
  BY <1>1, <1>2

\* What is there and what is not.
LEMMA MaybeMakes == ASSUME NEW T, NEW x \in T PROVE <<x>> \in Maybe(T) /\ <<>> \in Maybe(T)
BY DEF Maybe

\* A cache that is set.
LEMMA CacheSet ==
    ASSUME NEW S, NEW T, NEW f \in [S -> Maybe(T)], NEW x \in S, NEW y \in Maybe(T)
    PROVE  [f EXCEPT ![x] = y] \in [S -> Maybe(T)]
OBVIOUS

\* Distinct() has the elements of s, each once.
LEMMA DistinctIs ==
    ASSUME NEW T, NEW s \in Seq(T)
    PROVE  /\ Distinct(s) \in Seq(T) /\ IsInjective(Distinct(s))
           /\ ToSet(Distinct(s)) = ToSet(s)
           /\ IsInjective(s) => Distinct(s) = s
<1> DEFINE pos == Positions(s)
           first == {i \in DOMAIN s : \A k \in DOMAIN s : k < i => s[k] # s[i]}
           places == Within(pos, first)
           d == Distinct(s)
<1>1. pos \in Seq(Nat) /\ Len(pos) = Len(s) /\ \A i \in 1 .. Len(s) : pos[i] = i
  BY DEF Positions
<1>2. /\ DOMAIN s = 1 .. Len(s) /\ Len(s) \in Nat
      /\ \A i \in 1 .. Len(s) : s[i] \in T
  OBVIOUS
<1>3. d = [n \in DOMAIN places |-> s[places[n]]]
  BY Zenon DEF Distinct
<1>4. \A i \in 1 .. Len(s) : i \in first <=> \A k \in 1 .. Len(s) : k < i => s[k] # s[i]
  BY <1>2
<1>5. IsInjective(s) => first = 1 .. Len(s)
  BY <1>2 DEF IsInjective
<1> HIDE DEF pos, first, d
<1>6. places \in Seq(Nat)
  BY <1>1, WithinType
<1>7. PICK h : Places(h, places, pos, first)
  BY <1>1, WithinPlaces
<1>8. (ToSet(pos) \subseteq first) => places = pos
  BY <1>1, WithinAll
<1> HIDE DEF places
<1>9. /\ h \in [1 .. Len(places) -> 1 .. Len(s)]
      /\ \A i, j \in 1 .. Len(places) : i < j => h[i] < h[j]
      /\ \A i \in 1 .. Len(places) : places[i] = h[i] /\ h[i] \in first
      /\ \A k \in 1 .. Len(s) : k \in first => \E i \in 1 .. Len(places) : h[i] = k
  BY <1>1, <1>7 DEF Places
<1>10. DOMAIN places = 1 .. Len(places) /\ Len(places) \in Nat
  BY <1>6
<1>11. \A i \in 1 .. Len(places) : d[i] = s[h[i]]
  BY <1>3, <1>9, <1>10
<1>12. d \in Seq(T) /\ Len(d) = Len(places) /\ DOMAIN d = 1 .. Len(places)
  BY <1>2, <1>3, <1>9, <1>10
<1>13. IsInjective(d)
  <2> SUFFICES ASSUME NEW i \in 1 .. Len(places), NEW j \in 1 .. Len(places), d[i] = d[j], i < j
               PROVE  FALSE
    BY <1>10, <1>12 DEF IsInjective
  <2>1. h[i] < h[j] /\ h[i] \in 1 .. Len(s) /\ h[j] \in 1 .. Len(s) /\ h[j] \in first
    BY <1>9
  <2> QED
    BY <1>4, <1>11, <2>1
<1>14. ToSet(d) \subseteq ToSet(s)
  BY <1>2, <1>9, <1>11, <1>12 DEF ToSet
<1>15. ASSUME NEW x \in ToSet(s) PROVE x \in ToSet(d)
  <2> DEFINE P == {i \in 1 .. Len(s) : s[i] = x}
  <2>1. P \in SUBSET Nat /\ P # {}
    BY <1>2 DEF ToSet
  <2>2. PICK k \in P : \A m \in P : k <= m
    BY <2>1, LeastElement
  <2>3. k \in first
    BY <1>4, <2>2
  <2>4. PICK i \in 1 .. Len(places) : h[i] = k
    BY <1>9, <2>2, <2>3
  <2> QED
    BY <1>11, <1>12, <2>2, <2>4 DEF ToSet
<1>16. ASSUME IsInjective(s) PROVE d = s
  <2>1. ToSet(pos) \subseteq first
    BY <1>1, <1>5, <1>16 DEF ToSet
  <2>2. places = pos
    BY <1>8, <2>1
  <2>3. \A i \in 1 .. Len(s) : d[i] = s[i]
    BY <1>1, <1>3, <1>10, <2>2
  <2> QED
    BY <1>1, <1>2, <1>12, <2>2, <2>3
<1> QED
  BY <1>12, <1>13, <1>14, <1>15, <1>16 DEF d

---------------------------------------------------------------------------
(* Sequences of sequences *)

\* f[i] is what the first i of ss are in a row.
Flattening(f, ss, T) ==
    /\ f \in [1 .. Len(ss) -> Seq(T)]
    /\ \A i \in 1 .. Len(ss) : f[i] = IF i = 1 THEN ss[i] ELSE f[i - 1] \o ss[i]

LEMMA FlattenValue ==
    ASSUME NEW T, NEW ss \in Seq(Seq(T)), ss # <<>>
    PROVE  \E f : Flattening(f, ss, T) /\ FlattenSeq(ss) = f[Len(ss)]
<1> DEFINE n == Len(ss)
           V == Seq(T)
           step == [i \in 1 .. n - 1 |-> [q \in V |-> q \o ss[i + 1]]]
           Sol(f) == f = [i \in 1 .. n |-> IF i = 1 THEN ss[i] ELSE f[i - 1] \o ss[i]]
           g == CHOOSE h : h = [i \in 1 .. n |-> IF i = 1 THEN ss[i] ELSE h[i - 1] \o ss[i]]
<1>1. n \in Nat /\ n # 0 /\ n - 1 \in Nat /\ \A i \in 1 .. n : ss[i] \in V
  OBVIOUS
<1>2. step \in [1 .. n - 1 -> [V -> V]]
  <2>1. \A i \in 1 .. n - 1 : ss[i + 1] \in V
    BY <1>1
  <2>2. \A i \in 1 .. n - 1 : [q \in V |-> q \o ss[i + 1]] \in [V -> V]
    BY <2>1
  <2> QED
    BY <2>2
<1>3. PICK f : Recursion(f, V, ss[1], n - 1, step)
  <2>1. ss[1] \in V
    BY <1>1
  <2> HIDE DEF step, V, n
  <2> QED
    BY <1>1, <1>2, <2>1, RecursionExists, Zenon
<1>4. /\ f \in [0 .. n - 1 -> V] /\ f[0] = ss[1]
      /\ \A i \in 1 .. n - 1 : f[i] = step[i][f[i - 1]]
  BY <1>3 DEF Recursion
<1>5. \A i \in 1 .. n - 1 : f[i] = f[i - 1] \o ss[i + 1]
  <2>1. \A i \in 1 .. n - 1 : i - 1 \in 0 .. n - 1
    BY <1>1
  <2>2. \A i \in 1 .. n - 1, q \in V : step[i][q] = q \o ss[i + 1]
    OBVIOUS
  <2> HIDE DEF step, V
  <2> QED
    BY <1>4, <2>1, <2>2
<1> HIDE DEF step
<1> DEFINE h == [i \in 1 .. n |-> f[i - 1]]
<1>6. h \in [1 .. n -> V] /\ DOMAIN h = 1 .. n
  BY <1>1, <1>4
<1>7. \A i \in 1 .. n : h[i] = IF i = 1 THEN ss[i] ELSE h[i - 1] \o ss[i]
  <2>0. h[1] = ss[1]
    <3>1. 1 \in 1 .. n /\ 1 - 1 = 0
      BY <1>1
    <3> QED
      BY <1>4, <3>1
  <2> SUFFICES ASSUME NEW i \in 1 .. n, i # 1 PROVE h[i] = h[i - 1] \o ss[i]
    BY <2>0
  <2> DEFINE k == i - 1
  <2>1. k \in 1 .. n - 1 /\ k + 1 = i /\ k \in 1 .. n
    BY <1>1
  <2>2. h[i] = f[k] /\ h[k] = f[k - 1]
    BY <2>1
  <2> HIDE DEF k, h
  <2> QED
    BY <1>5, <2>1, <2>2 DEF k
<1> HIDE DEF h
<1>8. Sol(h)
  BY <1>6, <1>7
<1>9. Sol(g)
  <2> HIDE <1>7
  <2> QED
    BY <1>8, Zenon
<1>10. FlattenSeq(ss) = g[n]
  <2>1. Len(ss) # 0
    BY <1>1
  <2> QED
    BY <2>1, Zenon DEF FlattenSeq
<1> HIDE DEF g
<1>11. g = h
  <2> DEFINE G == {i \in Nat : i + 1 \in 1 .. n => g[i + 1] = h[i + 1]}
  <2>1. /\ DOMAIN g = 1 .. n
        /\ \A i \in 1 .. n : g[i] = IF i = 1 THEN ss[i] ELSE g[i - 1] \o ss[i]
    BY <1>9
  <2> HIDE DEF Sol
  <2>2. 0 \in G
    <3>1. 1 \in 1 .. n /\ 0 + 1 = 1
      BY <1>1
    <3>2. g[1] = ss[1] /\ h[1] = ss[1]
      BY <1>7, <2>1, <3>1, Zenon
    <3> QED
      BY <3>1, <3>2
  <2>3. ASSUME NEW i \in Nat, i \in G PROVE i + 1 \in G
    <3> SUFFICES ASSUME i + 1 + 1 \in 1 .. n PROVE g[i + 1 + 1] = h[i + 1 + 1]
      OBVIOUS
    <3>1. i + 1 \in 1 .. n /\ (i + 1 + 1) - 1 = i + 1 /\ i + 1 + 1 # 1
      BY <1>1
    <3>2. g[i + 1] = h[i + 1]
      BY <2>3, <3>1
    <3>3. /\ g[i + 1 + 1] = g[i + 1] \o ss[i + 1 + 1]
          /\ h[i + 1 + 1] = h[i + 1] \o ss[i + 1 + 1]
      BY <1>7, <2>1, <3>1, Zenon
    <3> QED
      BY <3>2, <3>3, Zenon
  <2>4. Nat \subseteq G
    <3> HIDE DEF G
    <3> QED
      BY <2>2, <2>3, Induction
  <2>5. \A i \in 1 .. n : g[i] = h[i]
    <3> SUFFICES ASSUME NEW i \in 1 .. n PROVE g[i] = h[i]
      OBVIOUS
    <3>1. i - 1 \in Nat /\ (i - 1) + 1 = i
      BY <1>1
    <3>2. i - 1 \in G
      BY <2>4, <3>1
    <3> QED
      BY <3>1, <3>2
  <2>6. g = [i \in 1 .. n |-> g[i]] /\ h = [i \in 1 .. n |-> h[i]]
    BY <1>6, <1>9 DEF Sol
  <2> QED
    BY <2>5, <2>6, Zenon
<1>12. Flattening(h, ss, T)
  BY <1>6, <1>7 DEF Flattening
<1> QED
  BY <1>10, <1>11, <1>12

LEMMA NothingFlattened == FlattenSeq(<<>>) = <<>>
BY DEF FlattenSeq

\* Appending a sequence.
LEMMA FlattenAppend ==
    ASSUME NEW T, NEW ss \in Seq(Seq(T)), NEW s \in Seq(T)
    PROVE  /\ FlattenSeq(ss) \in Seq(T)
           /\ FlattenSeq(Append(ss, s)) = FlattenSeq(ss) \o s
<1> DEFINE n == Len(ss)
           tt == Append(ss, s)
<1>1. FlattenSeq(<<>>) = <<>>
  BY NothingFlattened
<1>2. n \in Nat /\ tt \in Seq(Seq(T)) /\ tt # <<>> /\ Len(tt) = n + 1 /\ tt[n + 1] = s
      /\ \A i \in 1 .. n : tt[i] = ss[i]
  <2>1. n \in Nat /\ tt \in Seq(Seq(T)) /\ Len(tt) = n + 1 /\ tt[n + 1] = s
    OBVIOUS
  <2>2. \A i \in 1 .. n : tt[i] = ss[i]
    OBVIOUS
  <2>3. tt # <<>>
    <3> HIDE DEF tt
    <3>1. Len(tt) # 0 /\ Len(<<>>) = 0
      BY <2>1
    <3> QED
      BY <3>1, Zenon
  <2> QED
    BY <2>1, <2>2, <2>3
<1> HIDE DEF tt
<1>3. PICK g : Flattening(g, tt, T) /\ FlattenSeq(tt) = g[Len(tt)]
  BY <1>2, FlattenValue
<1>4. /\ \A i \in 1 .. n + 1 : g[i] = IF i = 1 THEN tt[i] ELSE g[i - 1] \o tt[i]
      /\ FlattenSeq(tt) = g[n + 1]
  BY <1>2, <1>3 DEF Flattening
<1>5. CASE ss = <<>>
  <2>1. n = 0 /\ FlattenSeq(tt) = s
    BY <1>2, <1>4, <1>5
  <2>2. <<>> \o s = s /\ <<>> \in Seq(T)
    OBVIOUS
  <2> QED
    BY <1>1, <1>5, <2>1, <2>2 DEF tt
<1>6. CASE ss # <<>>
  <2>1. PICK f : Flattening(f, ss, T) /\ FlattenSeq(ss) = f[n]
    BY <1>6, FlattenValue
  <2>2. /\ \A i \in 1 .. n : f[i] \in Seq(T)
        /\ \A i \in 1 .. n : f[i] = IF i = 1 THEN ss[i] ELSE f[i - 1] \o ss[i]
    BY <2>1 DEF Flattening
  <2>3. n # 0 /\ n \in 1 .. n
    BY <1>2, <1>6
  <2> DEFINE G == {i \in Nat : i + 1 \in 1 .. n => f[i + 1] = g[i + 1]}
  <2>4. 0 \in G
    BY <1>2, <1>4, <2>2
  <2>5. ASSUME NEW i \in Nat, i \in G PROVE i + 1 \in G
    <3> SUFFICES ASSUME i + 1 + 1 \in 1 .. n PROVE f[i + 1 + 1] = g[i + 1 + 1]
      OBVIOUS
    <3>1. i + 1 \in 1 .. n /\ (i + 1 + 1) - 1 = i + 1 /\ i + 1 + 1 # 1 /\ i + 1 + 1 \in 1 .. n + 1
      BY <1>2
    <3>2. f[i + 1] = g[i + 1]
      BY <2>5, <3>1
    <3>3. f[i + 1 + 1] = f[i + 1] \o ss[i + 1 + 1]
      BY <2>2, <3>1, Zenon
    <3>4. g[i + 1 + 1] = g[i + 1] \o tt[i + 1 + 1]
      BY <1>4, <3>1, Zenon
    <3>5. tt[i + 1 + 1] = ss[i + 1 + 1]
      BY <1>2
    <3> QED
      BY <3>2, <3>3, <3>4, <3>5, Zenon
  <2>6. n - 1 \in G
    <3>1. n - 1 \in Nat
      BY <1>2, <2>3
    <3> HIDE DEF G
    <3> QED
      BY <2>4, <2>5, <3>1, Induction
  <2>7. f[n] = g[n]
    <3>1. (n - 1) + 1 = n
      BY <1>2
    <3> QED
      BY <2>3, <2>6, <3>1
  <2>8. g[n + 1] = g[n] \o s
    <3>1. n + 1 \in 1 .. n + 1 /\ n + 1 # 1 /\ (n + 1) - 1 = n
      BY <1>2, <2>3
    <3> QED
      BY <1>2, <1>4, <3>1, Zenon
  <2> QED
    BY <1>1, <1>4, <2>1, <2>2, <2>3, <2>7, <2>8 DEF tt
<1> QED
  BY <1>5, <1>6

\* Where the elements of the parts are in the whole.
Spread(ss) ==
    \A i \in 1 .. Len(ss) : \A j \in 1 .. Len(ss[i]) :
        LET n == Len(FlattenSeq(SubSeq(ss, 1, i - 1))) + j
        IN  n \in 1 .. Len(FlattenSeq(ss)) /\ FlattenSeq(ss)[n] = ss[i][j]

LEMMA FlattenPlaces ==
    ASSUME NEW T, NEW ss \in Seq(Seq(T))
    PROVE  Spread(ss)
<1> DEFINE G == {rr \in Seq(Seq(T)) : Spread(rr)}
<1>1. <<>> \in G
  BY DEF Spread
<1>2. ASSUME NEW rr \in Seq(Seq(T)), NEW r \in Seq(T), rr \in G
      PROVE  Append(rr, r) \in G
  <2> DEFINE n == Len(rr)
             tt == Append(rr, r)
             f == FlattenSeq(rr)
             w == FlattenSeq(tt)
  <2>1. f \in Seq(T) /\ w = f \o r
    BY FlattenAppend
  <2>2. /\ n \in Nat /\ tt \in Seq(Seq(T)) /\ Len(tt) = n + 1 /\ tt[n + 1] = r
        /\ \A i \in 1 .. n : tt[i] = rr[i]
    OBVIOUS
  <2>3. \A i \in 1 .. n + 1 : SubSeq(tt, 1, i - 1) = SubSeq(rr, 1, i - 1)
    <3> SUFFICES ASSUME NEW i \in 1 .. n + 1 PROVE SubSeq(tt, 1, i - 1) = SubSeq(rr, 1, i - 1)
      OBVIOUS
    <3> DEFINE a == SubSeq(tt, 1, i - 1)
               b == SubSeq(rr, 1, i - 1)
    <3>1. i - 1 \in 0 .. n /\ i - 1 \in Nat
      BY <2>2
    <3> HIDE DEF tt
    <3>2. /\ a \in Seq(Seq(T)) /\ Len(a) = i - 1 /\ b \in Seq(Seq(T)) /\ Len(b) = i - 1
          /\ \A k \in 1 .. i - 1 : a[k] = tt[k] /\ b[k] = rr[k]
      BY <2>2, <3>1
    <3>3. \A k \in 1 .. i - 1 : a[k] = b[k]
      BY <2>2, <3>1, <3>2
    <3> HIDE DEF a, b
    <3>4. a = b
      BY <3>2, <3>3, SeqEqual
    <3> QED
      BY <3>4 DEF a, b
  <2>4. SubSeq(rr, 1, n) = rr
    BY <2>2
  <2> HIDE DEF tt, w
  <2> SUFFICES ASSUME NEW i \in 1 .. n + 1, NEW j \in 1 .. Len(tt[i])
               PROVE  LET m == Len(FlattenSeq(SubSeq(tt, 1, i - 1))) + j
                      IN  m \in 1 .. Len(w) /\ w[m] = tt[i][j]
    BY <2>2, Zenon DEF Spread, tt, w
  <2> DEFINE b == Len(FlattenSeq(SubSeq(rr, 1, i - 1)))
  <2>5. SubSeq(rr, 1, i - 1) \in Seq(Seq(T))
    BY <2>2
  <2>6. b \in Nat
    <3>1. FlattenSeq(SubSeq(rr, 1, i - 1)) \in Seq(T)
      BY <2>5, FlattenAppend
    <3> QED
      BY <3>1
  <2>7. CASE i \in 1 .. n
    <3>1. tt[i] = rr[i]
      BY <2>2, <2>7
    <3>2. b + j \in 1 .. Len(f) /\ f[b + j] = rr[i][j]
      BY <1>2, <2>7, <3>1, Zenon DEF Spread
    <3> HIDE DEF b, f
    <3>3. b + j \in 1 .. Len(w) /\ w[b + j] = rr[i][j]
      BY <2>1, <3>2
    <3> QED
      BY <2>3, <3>1, <3>3, Zenon DEF b
  <2>8. CASE i = n + 1
    <3>1. b = Len(f) /\ tt[i] = r
      <4>1. i - 1 = n
        BY <2>2, <2>8
      <4> QED
        BY <2>2, <2>4, <2>8, <4>1, Zenon
    <3> HIDE DEF b, f
    <3>2. b + j \in 1 .. Len(w) /\ w[b + j] = r[j]
      BY <2>1, <3>1
    <3> QED
      BY <2>3, <3>1, <3>2, Zenon DEF b
  <2> QED
    BY <2>2, <2>7, <2>8
<1>3. Seq(Seq(T)) \subseteq G
  <2> HIDE DEF G
  <2> QED
    BY <1>1, <1>2, SequenceInduction
<1> QED
  BY <1>3

\* The elements of the whole are those of the parts.
LEMMA FlattenElements ==
    ASSUME NEW T, NEW ss \in Seq(Seq(T))
    PROVE  ToSet(FlattenSeq(ss)) = UNION {ToSet(ss[i]) : i \in 1 .. Len(ss)}
<1> DEFINE G == {rr \in Seq(Seq(T)) :
                    \A x : x \in ToSet(FlattenSeq(rr)) <=> \E i \in 1 .. Len(rr) : x \in ToSet(rr[i])}
<1>1. <<>> \in G
  <2>1. FlattenSeq(<<>>) = <<>>
    BY NothingFlattened
  <2>2. ToSet(<<>>) = {}
    BY DEF ToSet
  <2> QED
    BY <2>1, <2>2
<1>2. ASSUME NEW rr \in Seq(Seq(T)), NEW r \in Seq(T), rr \in G
      PROVE  Append(rr, r) \in G
  <2> DEFINE n == Len(rr)
             tt == Append(rr, r)
             f == FlattenSeq(rr)
  <2>1. f \in Seq(T) /\ FlattenSeq(tt) = f \o r
    BY FlattenAppend
  <2>2. /\ n \in Nat /\ tt \in Seq(Seq(T)) /\ Len(tt) = n + 1 /\ tt[n + 1] = r
        /\ \A i \in 1 .. n : tt[i] = rr[i]
    OBVIOUS
  <2>3. ToSet(f \o r) = ToSet(f) \cup ToSet(r)
    BY <2>1, ConcatOnce
  <2> HIDE DEF tt
  <2>4. \A x : (\E i \in 1 .. n + 1 : x \in ToSet(tt[i])) <=>
                  (\E i \in 1 .. n : x \in ToSet(rr[i])) \/ x \in ToSet(r)
    <3>1. \A i : i \in 1 .. n + 1 <=> i \in 1 .. n \/ i = n + 1
      BY <2>2
    <3> QED
      BY <2>2, <3>1, Zenon
  <2>5. \A x : x \in ToSet(f) <=> \E i \in 1 .. n : x \in ToSet(rr[i])
    BY <1>2, Zenon
  <2> HIDE DEF f
  <2>6. \A x : x \in ToSet(FlattenSeq(tt)) <=> \E i \in 1 .. Len(tt) : x \in ToSet(tt[i])
    BY <2>1, <2>2, <2>3, <2>4, <2>5
  <2> QED
    BY <2>2, <2>6 DEF tt
<1>3. Seq(Seq(T)) \subseteq G
  <2> HIDE DEF G
  <2> QED
    BY <1>1, <1>2, SequenceInduction
<1>4. \A x : x \in ToSet(FlattenSeq(ss)) <=> \E i \in 1 .. Len(ss) : x \in ToSet(ss[i])
  BY <1>3
<1> QED
  BY <1>4

\* A part that alone has elements in S is what is selected of the whole.
LEMMA FlattenWithin ==
    ASSUME NEW T, NEW S, NEW ss \in Seq(Seq(T))
    PROVE  /\ (\A j \in 1 .. Len(ss) : Within(ss[j], S) = <<>>) => Within(FlattenSeq(ss), S) = <<>>
           /\ \A i \in 1 .. Len(ss) :
                (\A j \in 1 .. Len(ss) : j # i => Within(ss[j], S) = <<>>)
                => Within(FlattenSeq(ss), S) = Within(ss[i], S)
<1> DEFINE None(rr) == \A j \in 1 .. Len(rr) : Within(rr[j], S) = <<>>
           Others(rr, i) == \A j \in 1 .. Len(rr) : j # i => Within(rr[j], S) = <<>>
           G == {rr \in Seq(Seq(T)) :
                    /\ None(rr) => Within(FlattenSeq(rr), S) = <<>>
                    /\ \A i \in 1 .. Len(rr) :
                          Others(rr, i) => Within(FlattenSeq(rr), S) = Within(rr[i], S)}
<1>1. <<>> \in G
  <2>1. FlattenSeq(<<>>) = <<>> /\ Within(<<>>, S) = <<>>
    BY NothingFlattened, WithinType
  <2> QED
    BY <2>1
<1>2. ASSUME NEW rr \in Seq(Seq(T)), NEW r \in Seq(T), rr \in G
      PROVE  Append(rr, r) \in G
  <2> DEFINE n == Len(rr)
             tt == Append(rr, r)
             f == FlattenSeq(rr)
             w == Within(f, S)
             v == Within(r, S)
  <2>1. f \in Seq(T) /\ FlattenSeq(tt) = f \o r
    BY FlattenAppend
  <2>2. /\ n \in Nat /\ tt \in Seq(Seq(T)) /\ Len(tt) = n + 1 /\ tt[n + 1] = r
        /\ \A i \in 1 .. n : tt[i] = rr[i]
    OBVIOUS
  <2>3. Within(FlattenSeq(tt), S) = w \o v
    BY <2>1, WithinConcat
  <2>4. w \in Seq(T) /\ v \in Seq(T)
    BY <2>1, WithinType
  <2>5. (None(rr) => w = <<>>) /\ \A i \in 1 .. n : Others(rr, i) => w = Within(rr[i], S)
    BY <1>2
  <2> HIDE DEF tt, f, w, v
  <2>6. w \o <<>> = w /\ <<>> \o v = v
    BY <2>4
  <2>7. None(tt) => w = <<>> /\ v = <<>>
    BY <2>2, <2>5 DEF v
  <2>8. ASSUME NEW i \in 1 .. n, Others(tt, i) PROVE w = Within(tt[i], S) /\ v = <<>>
    <3>1. Others(rr, i)
      BY <2>2, <2>8
    <3>2. v = <<>>
      BY <2>2, <2>8 DEF v
    <3> QED
      BY <2>2, <2>5, <3>1, <3>2
  <2>9. Others(tt, n + 1) => w = <<>>
    <3> SUFFICES ASSUME Others(tt, n + 1) PROVE None(rr)
      BY <2>5
    <3> QED
      BY <2>2
  <2> HIDE DEF None, Others
  <2>10. None(tt) => w \o v = <<>>
    BY <2>6, <2>7
  <2>11. ASSUME NEW i \in 1 .. n + 1, Others(tt, i) PROVE w \o v = Within(tt[i], S)
    <3>1. CASE i \in 1 .. n
      BY <2>6, <2>8, <2>11, <3>1
    <3>2. CASE i = n + 1
      BY <2>2, <2>6, <2>9, <2>11, <3>2 DEF v
    <3> QED
      BY <2>2, <3>1, <3>2
  <2> QED
    BY <2>2, <2>3, <2>10, <2>11 DEF tt
<1>3. Seq(Seq(T)) \subseteq G
  <2> HIDE DEF G
  <2> QED
    BY <1>1, <1>2, SequenceInduction
<1> QED
  BY <1>3

\* Parts of one element each.
LEMMA FlattenSingles ==
    ASSUME NEW T, NEW ss \in Seq(Seq(T)), \A i \in 1 .. Len(ss) : Len(ss[i]) = 1
    PROVE  /\ Len(FlattenSeq(ss)) = Len(ss)
           /\ \A i \in 1 .. Len(ss) : FlattenSeq(ss)[i] = ss[i][1]
<1> DEFINE Singles(rr) == \A i \in 1 .. Len(rr) : Len(rr[i]) = 1
           G == {rr \in Seq(Seq(T)) : Singles(rr) =>
                    /\ Len(FlattenSeq(rr)) = Len(rr)
                    /\ \A i \in 1 .. Len(rr) : FlattenSeq(rr)[i] = rr[i][1]}
<1>1. <<>> \in G
  BY NothingFlattened
<1>2. ASSUME NEW rr \in Seq(Seq(T)), NEW r \in Seq(T), rr \in G
      PROVE  Append(rr, r) \in G
  <2> DEFINE n == Len(rr)
             tt == Append(rr, r)
             f == FlattenSeq(rr)
             w == FlattenSeq(tt)
  <2>1. f \in Seq(T) /\ w = f \o r
    BY FlattenAppend
  <2>2. /\ n \in Nat /\ tt \in Seq(Seq(T)) /\ Len(tt) = n + 1 /\ tt[n + 1] = r
        /\ \A i \in 1 .. n : tt[i] = rr[i]
    OBVIOUS
  <2> HIDE DEF tt, f, w
  <2> SUFFICES ASSUME Singles(tt)
               PROVE  Len(w) = n + 1 /\ \A i \in 1 .. n + 1 : w[i] = tt[i][1]
    BY <2>2 DEF tt, w
  <2>3. Singles(rr) /\ Len(r) = 1
    BY <2>2
  <2>4. Len(f) = n /\ \A i \in 1 .. n : f[i] = rr[i][1]
    BY <1>2, <2>3 DEF f
  <2>5. Len(w) = n + 1 /\ w[n + 1] = r[1] /\ \A i \in 1 .. n : w[i] = f[i]
    <3>1. /\ Len(f) \in Nat /\ Len(f \o r) = Len(f) + Len(r)
          /\ \A i \in 1 .. Len(f) : (f \o r)[i] = f[i]
          /\ \A i \in 1 .. Len(r) : (f \o r)[Len(f) + i] = r[i]
      BY <2>1, ConcatProperties
    <3>2. 1 \in 1 .. Len(r)
      BY <2>3
    <3> QED
      BY <2>1, <2>3, <2>4, <3>1, <3>2
  <2>6. ASSUME NEW i \in 1 .. n + 1 PROVE w[i] = tt[i][1]
    <3>1. CASE i \in 1 .. n
      BY <2>2, <2>4, <2>5, <3>1
    <3>2. CASE i = n + 1
      BY <2>2, <2>5, <3>2
    <3> QED
      BY <2>2, <3>1, <3>2
  <2> QED
    BY <2>5, <2>6
<1>3. Seq(Seq(T)) \subseteq G
  <2> HIDE DEF G
  <2> QED
    BY <1>1, <1>2, SequenceInduction
<1> QED
  BY <1>3

\* Selecting twice is selecting once what both select.
LEMMA WithinTwice ==
    ASSUME NEW T, NEW A, NEW B, NEW s \in Seq(T)
    PROVE  Within(Within(s, A), B) = Within(s, A \cap B)
<1> DEFINE G == {r \in Seq(T) : Within(Within(r, A), B) = Within(r, A \cap B)}
<1>1. <<>> \in G
  <2>1. <<>> \in Seq(T)
    OBVIOUS
  <2>2. \A S : Within(<<>>, S) = <<>>
    BY <2>1, WithinType, Zenon
  <2> QED
    BY <2>1, <2>2
<1>2. ASSUME NEW r \in Seq(T), NEW x \in T, r \in G
      PROVE  Append(r, x) \in G
  <2> DEFINE a == Within(r, A)
             C == A \cap B
             c == Within(r, C)
             y == Append(r, x)
  <2>1. a \in Seq(T) /\ y \in Seq(T) /\ (x \in C <=> x \in A /\ x \in B)
    BY WithinType
  <2>2. Within(a, B) = c
    BY <1>2
  <2> HIDE DEF C
  <2>3. Within(y, A) = IF x \in A THEN Append(a, x) ELSE a
    BY WithinAppend
  <2>4. Within(y, C) = IF x \in C THEN Append(c, x) ELSE c
    BY WithinAppend
  <2> HIDE DEF a
  <2>5. Within(Append(a, x), B) = IF x \in B THEN Append(Within(a, B), x) ELSE Within(a, B)
    BY <2>1, WithinAppend
  <2> HIDE DEF y, c
  <2>6. Within(Within(y, A), B) = Within(y, C)
    BY <2>1, <2>2, <2>3, <2>4, <2>5
  <2> QED
    BY <2>1, <2>6 DEF y, C
<1>3. Seq(T) \subseteq G
  <2> HIDE DEF G
  <2> QED
    BY <1>1, <1>2, SequenceInduction
<1> QED
  BY <1>3

\* What two conditions select that exclude each other, together.
Additive(s, A, B) == Len(Within(s, A \cup B)) = Len(Within(s, A)) + Len(Within(s, B))

LEMMA WithinEither ==
    ASSUME NEW T, NEW A, NEW B, NEW s \in Seq(T), A \cap B = {}
    PROVE  Additive(s, A, B)
<1> DEFINE G == {r \in Seq(T) :
                    Len(Within(r, A \cup B)) = Len(Within(r, A)) + Len(Within(r, B))}
<1>1. <<>> \in G
  <2>1. <<>> \in Seq(T) /\ Len(<<>>) = 0
    OBVIOUS
  <2>2. \A S : Within(<<>>, S) = <<>>
    BY <2>1, WithinType, Zenon
  <2> QED
    BY <2>1, <2>2
<1>2. ASSUME NEW r \in Seq(T), NEW x \in T, r \in G
      PROVE  Append(r, x) \in G
  <2> DEFINE a == Within(r, A)
             b == Within(r, B)
             C == A \cup B
             c == Within(r, C)
             y == Append(r, x)
  <2>1. a \in Seq(T) /\ b \in Seq(T) /\ c \in Seq(T) /\ y \in Seq(T)
        /\ (x \in C <=> x \in A \/ x \in B) /\ ~(x \in A /\ x \in B)
    BY WithinType
  <2>3. Len(c) = Len(a) + Len(b)
    BY <1>2
  <2> HIDE DEF C
  <2>2. /\ Within(y, A) = IF x \in A THEN Append(a, x) ELSE a
        /\ Within(y, B) = IF x \in B THEN Append(b, x) ELSE b
        /\ Within(y, C) = IF x \in C THEN Append(c, x) ELSE c
    BY WithinAppend
  <2> HIDE DEF a, b, c, y
  <2>4. /\ Len(Append(a, x)) = Len(a) + 1 /\ Len(Append(b, x)) = Len(b) + 1
        /\ Len(Append(c, x)) = Len(c) + 1 /\ Len(a) \in Nat /\ Len(b) \in Nat
    BY <2>1
  <2>5. Len(Within(y, C)) = Len(Within(y, A)) + Len(Within(y, B))
    <3>1. CASE x \in A
      <4>1. Within(y, A) = Append(a, x) /\ Within(y, B) = b /\ Within(y, C) = Append(c, x)
        BY <2>1, <2>2, <3>1
      <4> QED
        BY <2>3, <2>4, <4>1
    <3>2. CASE x \in B
      <4>1. Within(y, A) = a /\ Within(y, B) = Append(b, x) /\ Within(y, C) = Append(c, x)
        BY <2>1, <2>2, <3>2
      <4> QED
        BY <2>3, <2>4, <4>1
    <3>3. CASE x \notin C
      BY <2>1, <2>2, <2>3, <2>4, <3>3
    <3> QED
      BY <2>1, <3>1, <3>2, <3>3
  <2> QED
    BY <2>1, <2>5 DEF y, C
<1>3. Seq(T) \subseteq G
  <2> HIDE DEF G
  <2> QED
    BY <1>1, <1>2, SequenceInduction
<1> QED
  BY <1>3 DEF Additive

\* A sequence up to and from a place.
LEMMA CutAt ==
    ASSUME NEW T, NEW s \in Seq(T), NEW n \in 0 .. Len(s)
    PROVE  /\ SubSeq(s, 1, n) \in Seq(T) /\ SubSeq(s, n + 1, Len(s)) \in Seq(T)
           /\ Len(SubSeq(s, 1, n)) = n
           /\ s = SubSeq(s, 1, n) \o SubSeq(s, n + 1, Len(s))
<1>1. Len(s) \in Nat /\ n \in Nat
  OBVIOUS
<1>2. /\ SubSeq(s, 1, n) \in Seq(T) /\ Len(SubSeq(s, 1, n)) = n
      /\ \A i \in 1 .. n : SubSeq(s, 1, n)[i] = s[i]
  BY <1>1
<1>3. /\ SubSeq(s, n + 1, Len(s)) \in Seq(T) /\ Len(SubSeq(s, n + 1, Len(s))) = Len(s) - n
      /\ \A i \in 1 .. Len(s) - n : SubSeq(s, n + 1, Len(s))[i] = s[n + i]
  BY <1>1
<1>4. SubSeq(s, 1, n) \o SubSeq(s, n + 1, Len(s)) = SubSeq(s, 1, Len(s))
  <2>1. 1 \in 1 .. Len(s) + 1 /\ n \in 1 - 1 .. Len(s) /\ Len(s) \in n .. Len(s)
    BY <1>1
  <2> QED
    BY <2>1, ConcatAdjacentSubSeq, Zenon
<1> QED
  BY <1>2, <1>3, <1>4, SubSeqFull

\* Where an element is among those selected: after those selected before it.
LEMMA PlaceWithin ==
    ASSUME NEW T, NEW S, NEW s \in Seq(T), NEW i \in 1 .. Len(s), s[i] \in S
    PROVE  LET p == Len(Within(SubSeq(s, 1, i), S))
           IN  p \in 1 .. Len(Within(s, S)) /\ Within(s, S)[p] = s[i]
<1> DEFINE a == SubSeq(s, 1, i)
           b == SubSeq(s, i + 1, Len(s))
           c == SubSeq(s, 1, i - 1)
           u == Within(a, S)
           v == Within(b, S)
           w == Within(c, S)
<1>1. a \in Seq(T) /\ b \in Seq(T) /\ s = a \o b
  BY CutAt
<1>2. c \in Seq(T) /\ a = Append(c, s[i])
  <2>1. /\ c \in Seq(T) /\ Len(c) = i - 1 /\ \A k \in 1 .. i - 1 : c[k] = s[k]
    OBVIOUS
  <2>2. /\ a \in Seq(T) /\ Len(a) = i /\ \A k \in 1 .. i : a[k] = s[k]
    OBVIOUS
  <2> DEFINE d == Append(c, s[i])
  <2> HIDE DEF a, c
  <2>3. /\ d \in Seq(T) /\ Len(d) = i /\ d[i] = s[i] /\ \A k \in 1 .. i - 1 : d[k] = c[k]
    BY <2>1
  <2>4. \A k \in 1 .. i : d[k] = a[k]
    BY <2>1, <2>2, <2>3
  <2> HIDE DEF d
  <2>5. a = d
    BY <2>2, <2>3, <2>4, SeqEqual
  <2> QED
    BY <2>1, <2>5 DEF d
<1>3. s[i] \in T
  OBVIOUS
<1>4. u \in Seq(T) /\ v \in Seq(T) /\ w \in Seq(T)
  BY <1>1, <1>2, WithinType
<1>5. Within(s, S) = u \o v
  BY <1>1, WithinConcat, Zenon
<1>6. u = Append(w, s[i])
  <2> HIDE DEF a, b, c
  <2> QED
    BY <1>2, <1>3, WithinAppend, Zenon
<1> HIDE DEF a, b, c, u, v, w
<1>7. Len(u) = Len(w) + 1 /\ u[Len(u)] = s[i] /\ Len(w) \in Nat
  BY <1>3, <1>4, <1>6
<1>8. /\ Len(u \o v) = Len(u) + Len(v) /\ Len(v) \in Nat
      /\ \A k \in 1 .. Len(u) : (u \o v)[k] = u[k]
  BY <1>4, ConcatProperties
<1>9. Len(u) \in 1 .. Len(u \o v) /\ (u \o v)[Len(u)] = s[i]
  BY <1>7, <1>8
<1> QED
  BY <1>5, <1>9, Zenon DEF u, a

\* An element is in the set of them.
LEMMA ElementOf ==
    ASSUME NEW T, NEW s \in Seq(T), NEW i \in 1 .. Len(s)
    PROVE  s[i] \in T /\ s[i] \in ToSet(s)
BY DEF ToSet
=============================================================================

--------------------------- MODULE RestServerProofs ---------------------------
(*****************************************************************************)
(* Proofs about the two routers, for any routes and requests: what they      *)
(* find, when they find nothing, and when they agree.  And about RestServer  *)
(* and its HttpServer, for any callers, requests, controllers, routes and    *)
(* ports: the table of routes follows the context, the user's routes are     *)
(* kept, the socket and port that are open are the ones the server knows     *)
(* of, and stop() drains.                                                    *)
(*****************************************************************************)
EXTENDS RestServer, Routers, DataFacts, SequenceTheorems

---------------------------------------------------------------------------
(* Routes and segments *)

\* A route is made of its verb, its path and its slash, and of what else it may be.
LEMMA RouteParts ==
    ASSUME NEW S, NEW r \in Addressed(S)
    PROVE  /\ r.verb \in ToSet(Verbs) /\ r.path \in Seq(S) /\ r.slash \in BOOLEAN
           /\ r = [verb |-> r.verb, path |-> r.path, slash |-> r.slash]
           /\ Len(r.path) \in Nat
           /\ r.path = <<>> => r.slash
BY DEF Addressed

\* A segment is a literal or a variable.
LEMMA SegmentIs ==
    ASSUME NEW s \in Segments
    PROVE  \/ s.var = TRUE /\ s.name \in Nat /\ s = Variable(s.name)
           \/ s.var = FALSE /\ s.name \in 1 .. Wild - 1 /\ s = Literal(s.name)
<1>1. CASE s \in [var : {FALSE}, name : 1 .. Wild - 1]
  <2>1. s = [var |-> s.var, name |-> s.name] /\ s.var = FALSE /\ s.name \in 1 .. Wild - 1
    BY <1>1
  <2> QED
    BY <2>1, Zenon DEF Literal
<1>2. CASE s \in [var : {TRUE}, name : Nat]
  <2>1. s = [var |-> s.var, name |-> s.name] /\ s.var = TRUE /\ s.name \in Nat
    BY <1>2
  <2> QED
    BY <2>1, Zenon DEF Variable
<1> QED
  BY <1>1, <1>2, Zenon DEF Segments

\* Segments with one token are literals of one name, or both variables.
LEMMA TokenIs ==
    ASSUME NEW s \in Segments, NEW t \in Segments
    PROVE  /\ Token(s) \in Nat
           /\ Token(s) = Token(t) <=>
                  (s.var = TRUE /\ t.var = TRUE) \/ (s.var = FALSE /\ t.var = FALSE /\ s = t)
           /\ s.var = FALSE /\ t.var = TRUE => Token(s) < Token(t)
<1>1. \A x \in Segments :
         \/ x.var = TRUE /\ Token(x) = Wild
         \/ x.var = FALSE /\ Token(x) = x.name /\ x.name \in 1 .. Wild - 1 /\ x = Literal(x.name)
  BY SegmentIs, Zenon DEF Token
<1>2. Wild \in Nat /\ \A n \in 1 .. Wild - 1 : n \in Nat /\ n < Wild /\ n # Wild
  BY DEF Wild
<1> HIDE DEF Wild
<1>3. s.name = t.name /\ s = Literal(s.name) /\ t = Literal(t.name) => s = t
  BY Zenon
<1>4. CASE s.var = TRUE /\ t.var = TRUE
  <2>1. Token(s) = Wild /\ Token(t) = Wild
    BY <1>1, <1>4, Zenon
  <2> QED
    BY <2>1, <1>2, <1>4
<1>5. CASE s.var = TRUE /\ t.var = FALSE
  <2>1. Token(s) = Wild /\ Token(t) \in 1 .. Wild - 1
    BY <1>1, <1>5, Zenon
  <2> QED
    BY <2>1, <1>2, <1>5
<1>6. CASE s.var = FALSE /\ t.var = TRUE
  <2>1. Token(t) = Wild /\ Token(s) \in 1 .. Wild - 1
    BY <1>1, <1>6, Zenon
  <2> QED
    BY <2>1, <1>2, <1>6
<1>7. CASE s.var = FALSE /\ t.var = FALSE
  <2>1. /\ Token(s) = s.name /\ s.name \in 1 .. Wild - 1 /\ s = Literal(s.name)
        /\ Token(t) = t.name /\ t.name \in 1 .. Wild - 1 /\ t = Literal(t.name)
    BY <1>1, <1>7, Zenon
  <2>2. Token(s) = Token(t) <=> s = t
    BY <2>1, <1>3, Zenon
  <2> QED
    BY <2>1, <2>2, <1>2, <1>7
<1> QED
  BY <1>1, <1>4, <1>5, <1>6, <1>7, Zenon

\* The literals of one name are one segment.
LEMMA SpelledOnce ==
    ASSUME NEW s \in Segments, NEW t \in Segments, NEW n, Spells(s, n), Spells(t, n)
    PROVE  s = t /\ s = Literal(n)
<1>1. s = Literal(s.name) /\ t = Literal(t.name) /\ s.name = n /\ t.name = n
  BY SegmentIs, Zenon DEF Spells
<1> QED
  BY <1>1, Zenon

\* Templates have variables, the others have none, and a trie has the templates of a verb.
LEMMA TemplatesAre ==
    ASSUME NEW T, NEW rs \in Seq(T), NEW verb
    PROVE  /\ Templates(rs) \in Seq(T)
           /\ ToSet(Templates(rs)) = {r \in ToSet(rs) : HasVariables(r)}
           /\ Statics(rs) \in Seq(T)
           /\ ToSet(Statics(rs)) = {r \in ToSet(rs) : ~HasVariables(r)}
           /\ TrieOf(rs, verb) \in Seq(T)
           /\ ToSet(TrieOf(rs, verb)) = {r \in ToSet(rs) : HasVariables(r) /\ r.verb = verb}
<1> DEFINE V == {r \in ToSet(rs) : HasVariables(r)}
           W == {r \in ToSet(rs) : ~HasVariables(r)}
           B == {r \in ToSet(rs) : r.verb = verb}
<1>1. Templates(rs) = Within(rs, V) /\ Statics(rs) = Within(rs, W)
      /\ TrieOf(rs, verb) = Within(Templates(rs), B)
  BY Zenon DEF Templates, Statics, TrieOf
<1>2. V \subseteq ToSet(rs) /\ W \subseteq ToSet(rs)
      /\ V \cap B = {r \in ToSet(rs) : HasVariables(r) /\ r.verb = verb}
  OBVIOUS
<1> HIDE DEF V, W, B
<1>3. /\ Within(rs, V) \in Seq(T) /\ ToSet(Within(rs, V)) = ToSet(rs) \cap V
      /\ Within(rs, W) \in Seq(T) /\ ToSet(Within(rs, W)) = ToSet(rs) \cap W
  BY WithinElements, WithinType, Zenon
<1>4. Templates(rs) \in Seq(T) /\ ToSet(Templates(rs)) = V
  BY <1>1, <1>2, <1>3
<1>5. TrieOf(rs, verb) \in Seq(T) /\ ToSet(TrieOf(rs, verb)) = V \cap B
  <2>1. PICK ts : ts = Templates(rs)
    OBVIOUS
  <2>2. Within(ts, B) \in Seq(T) /\ ToSet(Within(ts, B)) = ToSet(ts) \cap B
    BY <1>4, <2>1, WithinElements, WithinType, Zenon
  <2> QED
    BY <1>1, <1>4, <2>1, <2>2, Zenon
<1> QED
  BY <1>1, <1>2, <1>3, <1>4, <1>5 DEF V, W

---------------------------------------------------------------------------
(* The nodes of a trie *)

Prefix(s, n) == SubSeq(s, 1, n)

\* The first n of the elements of s, and one more.
LEMMA PrefixIs ==
    ASSUME NEW T, NEW s \in Seq(T), NEW n \in 0 .. Len(s)
    PROVE  /\ Prefix(s, n) \in Seq(T) /\ Len(Prefix(s, n)) = n
           /\ \A i \in 1 .. n : Prefix(s, n)[i] = s[i]
           /\ n < Len(s) => /\ s[n + 1] \in T
                            /\ Prefix(s, n + 1) = Append(Prefix(s, n), s[n + 1])
           /\ Prefix(s, 0) = <<>> /\ Prefix(s, Len(s)) = s
<1>1. Len(s) \in Nat /\ n \in Nat
  OBVIOUS
<1>2. \A k \in 0 .. Len(s) : /\ Prefix(s, k) \in Seq(T) /\ Len(Prefix(s, k)) = k
                             /\ \A i \in 1 .. k : Prefix(s, k)[i] = s[i]
  BY <1>1 DEF Prefix
<1>3. ASSUME n < Len(s)
      PROVE  s[n + 1] \in T /\ Prefix(s, n + 1) = Append(Prefix(s, n), s[n + 1])
  BY <1>1, <1>3, <1>2 DEF Prefix
<1>4. Prefix(s, 0) = <<>> /\ Prefix(s, Len(s)) = s
  BY <1>1 DEF Prefix
<1> QED
  BY <1>2, <1>3, <1>4

\* A segment leads from a node of a trie to a child of it.
LeadsOn(trie, node, s) ==
    \E r \in ToSet(trie) : /\ Len(r.path) > Len(node) /\ Prefix(r.path, Len(node)) = node
                           /\ r.path[Len(node) + 1] = s

\* The children of a node are the segments that lead on from it.
LEMMA ChildrenAre ==
    ASSUME NEW trie \in Seq(Addressed(Segments)), NEW node \in Seq(Segments)
    PROVE  /\ Children(trie, node) \in Seq(Segments)
           /\ \A s : s \in ToSet(Children(trie, node)) <=> LeadsOn(trie, node, s)
<1> DEFINE T == Addressed(Segments)
           n == Len(node) + 1
           B == {r \in ToSet(trie) : Len(r.path) >= n /\ SubSeq(r.path, 1, n - 1) = node}
           below == Within(trie, B)
           segments == [i \in 1 .. Len(below) |-> below[i].path[n]]
<1>1. Children(trie, node) = Distinct(segments)
  BY Zenon DEF Children
<1>2. Len(node) \in Nat /\ n \in Nat /\ n - 1 = Len(node)
  OBVIOUS
<1>3. ToSet(trie) \subseteq T
  BY DEF ToSet
<1>4. below \in Seq(T) /\ ToSet(below) = ToSet(trie) \cap B
  <2> HIDE DEF B, T
  <2> QED
    BY WithinElements, WithinType, Zenon DEF T
<1>5. \A r \in B : r.path[n] \in Segments
  <2> SUFFICES ASSUME NEW r \in B PROVE r.path[n] \in Segments
    OBVIOUS
  <2>1. r.path \in Seq(Segments) /\ Len(r.path) \in Nat
    BY <1>3, RouteParts
  <2>2. n \in 1 .. Len(r.path)
    BY <1>2, <2>1
  <2> QED
    BY <2>1, <2>2
<1>6. \A r : r \in B <=> r \in ToSet(trie) /\ Len(r.path) > Len(node)
                         /\ Prefix(r.path, Len(node)) = node
  <2> SUFFICES ASSUME NEW r \in ToSet(trie)
               PROVE  r \in B <=> Len(r.path) > Len(node) /\ Prefix(r.path, Len(node)) = node
    OBVIOUS
  <2>1. Len(r.path) \in Nat
    BY <1>3, RouteParts
  <2>2. Len(r.path) >= n <=> Len(r.path) > Len(node)
    BY <1>2, <2>1
  <2>3. Prefix(r.path, Len(node)) = SubSeq(r.path, 1, n - 1)
    BY <1>2, Zenon DEF Prefix
  <2> QED
    BY <2>2, <2>3, Zenon
<1> HIDE DEF below, B
<1>7. /\ \A i \in 1 .. Len(below) : below[i] \in B
      /\ \A r \in B : \E i \in 1 .. Len(below) : below[i] = r
  <2>1. ToSet(below) = B
    BY <1>4, <1>6
  <2>2. DOMAIN below = 1 .. Len(below)
    BY <1>4
  <2> QED
    BY <2>1, <2>2 DEF ToSet
<1>8. segments \in Seq(Segments)
  <2>1. \A i \in 1 .. Len(below) : below[i].path[n] \in Segments
    BY <1>5, <1>7
  <2> QED
    BY <1>4, <2>1
<1>9. \A s : s \in ToSet(segments) <=> LeadsOn(trie, node, s)
  <2> SUFFICES ASSUME NEW s PROVE s \in ToSet(segments) <=> LeadsOn(trie, node, s)
    OBVIOUS
  <2>1. s \in ToSet(segments) <=> \E i \in 1 .. Len(below) : below[i].path[n] = s
    BY Zenon DEF ToSet
  <2>2. s \in ToSet(segments) <=> \E r \in B : r.path[n] = s
    BY <2>1, <1>7, Zenon
  <2> QED
    BY <2>2, <1>6, Zenon DEF LeadsOn
<1> HIDE DEF segments
<1>10. Distinct(segments) \in Seq(Segments) /\ ToSet(Distinct(segments)) = ToSet(segments)
  BY <1>8, DistinctIs, Zenon
<1> QED
  BY <1>1, <1>9, <1>10, Zenon

\* A child matches a key if it spells it, or is a variable and no child spells it.
LEMMA MatchingAre ==
    ASSUME NEW trie \in Seq(Addressed(Segments)), NEW node \in Seq(Segments), NEW key
    PROVE  /\ MatchChildren(trie, node, key) \in Seq(Segments)
           /\ \A s : s \in ToSet(MatchChildren(trie, node, key)) <=>
                  /\ LeadsOn(trie, node, s)
                  /\ Spells(s, key) \/ (s.var /\ ~\E t : LeadsOn(trie, node, t) /\ Spells(t, key))
<1> DEFINE C == Children(trie, node)
           L == {s \in ToSet(C) : Spells(s, key)}
           V == {s \in ToSet(C) : s.var}
           M == MatchChildren(trie, node, key)
<1>1. C \in Seq(Segments) /\ \A s : s \in ToSet(C) <=> LeadsOn(trie, node, s)
  BY ChildrenAre, Zenon
<1>2. M = IF Within(C, L) # <<>> THEN Within(C, L) ELSE Within(C, V)
  BY Zenon DEF MatchChildren
<1>3. \A s : /\ s \in L <=> s \in ToSet(C) /\ Spells(s, key)
             /\ s \in V <=> s \in ToSet(C) /\ s.var
  OBVIOUS
<1>4. \A s \in ToSet(C) : Spells(s, key) => ~s.var
  BY DEF Spells
<1> HIDE DEF C, L, V, M
<1>5. /\ Within(C, L) \in Seq(Segments) /\ ToSet(Within(C, L)) = ToSet(C) \cap L
      /\ Within(C, V) \in Seq(Segments) /\ ToSet(Within(C, V)) = ToSet(C) \cap V
  BY <1>1, WithinElements, WithinType, Zenon
<1>6. Within(C, L) = <<>> <=> L = {}
  <2>1. \A w \in Seq(Segments) : w = <<>> <=> ToSet(w) = {}
    <3> SUFFICES ASSUME NEW w \in Seq(Segments) PROVE w = <<>> <=> ToSet(w) = {}
      OBVIOUS
    <3>1. w # <<>> => 1 \in DOMAIN w
      OBVIOUS
    <3>2. w = <<>> => DOMAIN w = {}
      OBVIOUS
    <3>3. ToSet(w) = {w[i] : i \in DOMAIN w}
      BY Zenon DEF ToSet
    <3> QED
      BY <3>1, <3>2, <3>3, Zenon
  <2>2. ToSet(C) \cap L = L
    BY <1>3
  <2> QED
    BY <1>5, <2>1, <2>2
<1>7. M \in Seq(Segments)
  BY <1>2, <1>5
<1>8. \A s : s \in ToSet(M) <=> s \in ToSet(C) /\ (s \in L \/ (s \in V /\ L = {}))
  <2>1. CASE L = {}
    BY <2>1, <1>2, <1>5, <1>6
  <2>2. CASE L # {}
    BY <2>2, <1>2, <1>5, <1>6
  <2> QED
    BY <2>1, <2>2
<1>9. L = {} <=> ~\E t : LeadsOn(trie, node, t) /\ Spells(t, key)
  BY <1>1, <1>3, Zenon
<1>10. \A s : s \in ToSet(M) <=>
          /\ LeadsOn(trie, node, s)
          /\ Spells(s, key) \/ (s.var /\ ~\E t : LeadsOn(trie, node, t) /\ Spells(t, key))
  <2> SUFFICES ASSUME NEW s
               PROVE  s \in ToSet(M) <=>
                        /\ LeadsOn(trie, node, s)
                        /\ Spells(s, key) \/ (s.var /\ ~\E t : LeadsOn(trie, node, t) /\ Spells(t, key))
    OBVIOUS
  <2>1. s \in ToSet(C) <=> LeadsOn(trie, node, s)
    BY <1>1, Zenon
  <2>2. s \in ToSet(M) <=> s \in ToSet(C) /\ (s \in L \/ (s \in V /\ L = {}))
    BY <1>8, Zenon
  <2>3. /\ s \in L <=> s \in ToSet(C) /\ Spells(s, key)
        /\ s \in V <=> s \in ToSet(C) /\ s.var
    BY <1>3, Zenon
  <2>4. s \in ToSet(C) => (Spells(s, key) => ~s.var)
    BY <1>4, Zenon
  <2>5. L # {} <=> \E t : LeadsOn(trie, node, t) /\ Spells(t, key)
    BY <1>9, Zenon
  <2>6. CASE L = {}
    BY <2>1, <2>2, <2>3, <2>5, <2>6, Zenon
  <2>7. CASE L # {}
    BY <2>1, <2>2, <2>3, <2>5, <2>7, Zenon
  <2> QED
    BY <2>6, <2>7, Zenon
<1> QED
  BY <1>7, <1>10, Zenon DEF M

\* The nodes: the root, what leads to the segments of a template, and a child of each.
LEMMA NodesAre ==
    ASSUME NEW trie \in Seq(Addressed(Segments)), NEW m \in Nat
    PROVE  /\ <<>> \in Nodes(trie, m)
           /\ \A node \in Nodes(trie, m) : node \in Seq(Segments) /\ Len(node) \in 0 .. m
           /\ \A r \in ToSet(trie), n \in 0 .. m :
                  n <= Len(r.path) => Prefix(r.path, n) \in Nodes(trie, m)
           /\ \A node \in Nodes(trie, m) : \A s :
                  (LeadsOn(trie, node, s) /\ Len(node) < m)
                     => s \in Segments /\ Append(node, s) \in Nodes(trie, m)
<1> DEFINE T == Addressed(Segments)
           P == UNION {Prefixes(r.path) : r \in ToSet(trie)}
<1>1. \A r \in ToSet(trie) : r.path \in Seq(Segments) /\ Len(r.path) \in Nat
  <2>1. ToSet(trie) \subseteq T
    BY DEF ToSet
  <2> QED
    BY <2>1, RouteParts
<1>2. Nodes(trie, m) = {<<>>} \cup {node \in P : Len(node) <= m}
  BY Zenon DEF Nodes
<1>3. \A node : node \in P <=> \E r \in ToSet(trie) : \E n \in 0 .. Len(r.path) :
                                      node = Prefix(r.path, n)
  <2>1. \A r \in ToSet(trie) : \A node :
           node \in Prefixes(r.path) <=> \E n \in 0 .. Len(r.path) : node = Prefix(r.path, n)
    BY Zenon DEF Prefixes, Prefix
  <2>2. \A node : node \in P <=> \E r \in ToSet(trie) : node \in Prefixes(r.path)
    BY Zenon
  <2> SUFFICES ASSUME NEW node
               PROVE  node \in P <=> \E r \in ToSet(trie) : \E n \in 0 .. Len(r.path) :
                                        node = Prefix(r.path, n)
    OBVIOUS
  <2>3. node \in P <=> \E r \in ToSet(trie) : node \in Prefixes(r.path)
    BY <2>2, Zenon
  <2> HIDE DEF P
  <2> QED
    BY <2>1, <2>3, Zenon
<1> HIDE DEF P
<1>4. ASSUME NEW r \in ToSet(trie), NEW n \in 0 .. Len(r.path)
      PROVE  Prefix(r.path, n) \in P /\ Prefix(r.path, n) \in Seq(Segments)
             /\ Len(Prefix(r.path, n)) = n /\ n \in Nat
  <2>1. Prefix(r.path, n) \in P
    BY <1>3, Zenon
  <2> QED
    BY <2>1, <1>1, PrefixIs
<1>5. <<>> \in Nodes(trie, m)
  BY <1>2
<1>6. ASSUME NEW node \in Nodes(trie, m) PROVE node \in Seq(Segments) /\ Len(node) \in 0 .. m
  <2>1. CASE node = <<>>
    BY <2>1
  <2>2. CASE node \in P /\ Len(node) <= m
    <3>1. PICK r \in ToSet(trie) : \E n \in 0 .. Len(r.path) : node = Prefix(r.path, n)
      BY <2>2, <1>3, Zenon
    <3>2. PICK n \in 0 .. Len(r.path) : node = Prefix(r.path, n)
      BY <3>1
    <3> QED
      BY <2>2, <3>2, <1>4
  <2> QED
    BY <1>2, <2>1, <2>2
<1>7. ASSUME NEW r \in ToSet(trie), NEW n \in 0 .. m, n <= Len(r.path)
      PROVE  Prefix(r.path, n) \in Nodes(trie, m)
  <2>1. n \in 0 .. Len(r.path)
    BY <1>7, <1>1
  <2>2. Prefix(r.path, n) \in P /\ Len(Prefix(r.path, n)) <= m
    BY <2>1, <1>4
  <2> QED
    BY <2>2, <1>2
<1>8. ASSUME NEW node \in Nodes(trie, m), NEW s, LeadsOn(trie, node, s), Len(node) < m
      PROVE  s \in Segments /\ Append(node, s) \in Nodes(trie, m)
  <2>1. PICK r \in ToSet(trie) : /\ Len(r.path) > Len(node) /\ Prefix(r.path, Len(node)) = node
                                 /\ r.path[Len(node) + 1] = s
    BY <1>8, Zenon DEF LeadsOn
  <2> DEFINE n == Len(node)
  <2>2. n \in 0 .. m /\ n \in Nat
    BY <1>6
  <2>3. n \in 0 .. Len(r.path) /\ n < Len(r.path) /\ n + 1 \in 0 .. m /\ n + 1 <= Len(r.path)
    BY <2>1, <2>2, <1>8, <1>1
  <2>4. s \in Segments /\ Prefix(r.path, n + 1) = Append(node, s)
    <3>1. r.path \in Seq(Segments)
      BY <1>1
    <3>2. /\ r.path[n + 1] \in Segments
          /\ Prefix(r.path, n + 1) = Append(Prefix(r.path, n), r.path[n + 1])
      BY <3>1, <2>3, PrefixIs, Zenon
    <3> QED
      BY <3>2, <2>1, Zenon
  <2> QED
    BY <2>3, <2>4, <1>7
<1> QED
  BY <1>5, <1>6, <1>7, <1>8

---------------------------------------------------------------------------
(* The search *)

\* A search has come to a route.
Good(trie, result) == result.is /\ HasValue(trie, result.node)

\* The first good one of several results.
FirstGood(trie, below) ==
    LET good == {i \in DOMAIN below : Good(trie, below[i])}
    IN  IF good = {} THEN Nowhere ELSE below[CHOOSE i \in good : \A j \in good : i <= j]

\* What is found for the children of a node that match the next key.
Below(trie, keys, f, node) ==
    LET children == MatchChildren(trie, node, keys[Len(node) + 1])
    IN  [i \in 1 .. Len(children) |-> f[Append(node, children[i])]]

\* What is found at a node.
FoundAt(trie, keys, f, node) ==
    IF Len(node) = Len(keys) THEN Reached(node) ELSE FirstGood(trie, Below(trie, keys, f, node))

\* A function that has at each node what is found there.
Searching(f, trie, keys) ==
    \A node \in Nodes(trie, Len(keys)) : f[node] = FoundAt(trie, keys, f, node)

SearchResults(trie, keys) == [is : BOOLEAN, node : Nodes(trie, Len(keys))]

\* What is found below is a result, and only the results for children matter.
LEMMA BelowIs ==
    ASSUME NEW trie \in Seq(Addressed(Segments)), NEW keys \in Seq(Int),
           NEW node \in Nodes(trie, Len(keys)), Len(node) < Len(keys), NEW f,
           \A x \in Nodes(trie, Len(keys)) : f[x] \in SearchResults(trie, keys)
    PROVE  /\ FoundAt(trie, keys, f, node) \in SearchResults(trie, keys)
           /\ \A g : (\A x \in Nodes(trie, Len(keys)) : Len(x) = Len(node) + 1 => g[x] = f[x])
                        => FoundAt(trie, keys, g, node) = FoundAt(trie, keys, f, node)
<1> DEFINE N == Nodes(trie, Len(keys))
           R == SearchResults(trie, keys)
           n == Len(node)
           key == keys[n + 1]
           C == MatchChildren(trie, node, key)
<1>1. Len(keys) \in Nat /\ node \in Seq(Segments) /\ n \in Nat /\ <<>> \in N
  <2>1. Len(keys) \in Nat
    OBVIOUS
  <2> QED
    BY <2>1, NodesAre
<1>2. C \in Seq(Segments) /\ \A s \in ToSet(C) : LeadsOn(trie, node, s)
  BY <1>1, MatchingAre, Zenon
<1> HIDE DEF C
<1>3. ASSUME NEW i \in 1 .. Len(C)
      PROVE  Append(node, C[i]) \in N /\ Len(Append(node, C[i])) = n + 1
  <2>1. C[i] \in ToSet(C)
    BY <1>2, ElementOf
  <2>2. Append(node, C[i]) \in N
    BY <1>1, <1>2, <2>1, NodesAre
  <2>3. C[i] \in Segments
    BY <1>2
  <2> QED
    BY <2>2, <2>3, <1>1
<1> DEFINE b == [i \in 1 .. Len(C) |-> f[Append(node, C[i])]]
<1>4. Below(trie, keys, f, node) = b
  BY Zenon DEF Below, C, key, n
<1>5. DOMAIN b = 1 .. Len(C) /\ \A i \in 1 .. Len(C) : b[i] \in R
  BY <1>3
<1>6. Len(node) # Len(keys)
  BY <1>1
<1>7. FoundAt(trie, keys, f, node) \in R
  <2>1. FoundAt(trie, keys, f, node) = FirstGood(trie, b)
    BY <1>4, <1>6, Zenon DEF FoundAt
  <2> DEFINE good == {i \in DOMAIN b : Good(trie, b[i])}
  <2>2. FirstGood(trie, b) = IF good = {} THEN Nowhere
                             ELSE b[CHOOSE i \in good : \A j \in good : i <= j]
    BY Zenon DEF FirstGood
  <2>3. Nowhere \in R
    BY <1>1 DEF Nowhere, SearchResults
  <2>4. CASE good # {}
    <3>1. good \in SUBSET Nat /\ good \subseteq 1 .. Len(C)
      BY <1>2, <1>5
    <3> HIDE DEF good, b
    <3>2. \E i \in good : \A j \in good : i <= j
      BY <2>4, <3>1, LeastElement
    <3>3. (CHOOSE i \in good : \A j \in good : i <= j) \in good
      BY <3>2, Zenon
    <3> QED
      BY <2>1, <2>2, <2>4, <3>1, <3>3, <1>5
  <2> QED
    BY <2>1, <2>2, <2>3, <2>4
<1>8. ASSUME NEW g, \A x \in N : Len(x) = n + 1 => g[x] = f[x]
      PROVE  FoundAt(trie, keys, g, node) = FoundAt(trie, keys, f, node)
  <2>1. Below(trie, keys, g, node) = [i \in 1 .. Len(C) |-> g[Append(node, C[i])]]
    BY Zenon DEF Below, C, key, n
  <2>2. [i \in 1 .. Len(C) |-> g[Append(node, C[i])]] = b
    BY <1>3, <1>8
  <2> QED
    BY <2>1, <2>2, <1>4, Zenon DEF FoundAt
<1> QED
  BY <1>7, <1>8

\* What is found at any node is a result.
LEMMA FoundIsResult ==
    ASSUME NEW trie \in Seq(Addressed(Segments)), NEW keys \in Seq(Int),
           NEW node \in Nodes(trie, Len(keys)),
           NEW f \in [Nodes(trie, Len(keys)) -> SearchResults(trie, keys)]
    PROVE  /\ FoundAt(trie, keys, f, node) \in SearchResults(trie, keys)
           /\ Reached(node) \in SearchResults(trie, keys)
<1>1. Len(keys) \in Nat
  OBVIOUS
<1>2. Len(node) \in 0 .. Len(keys)
  BY <1>1, NodesAre
<1>3. Reached(node) \in SearchResults(trie, keys)
  BY DEF Reached, SearchResults
<1>4. CASE Len(node) = Len(keys)
  BY <1>3, <1>4, Zenon DEF FoundAt
<1>5. CASE Len(node) < Len(keys)
  <2>1. \A x \in Nodes(trie, Len(keys)) : f[x] \in SearchResults(trie, keys)
    OBVIOUS
  <2> QED
    BY <1>3, <1>5, <2>1, BelowIs, Zenon
<1> QED
  BY <1>1, <1>2, <1>3, <1>4, <1>5

\* The recursion of search() has a solution, and Search() is its value at the root.
LEMMA SearchIs ==
    ASSUME NEW trie \in Seq(Addressed(Segments)), NEW keys \in Seq(Int)
    PROVE  \E f : Searching(f, trie, keys) /\ Search(trie, keys) = f[<<>>]
<1> DEFINE N == Nodes(trie, Len(keys))
           R == SearchResults(trie, keys)
           L == Len(keys)
           V == [N -> R]
           level(h) == [x \in N |-> FoundAt(trie, keys, h, x)]
           step == [i \in 1 .. L |-> [h \in V |-> level(h)]]
           v == [x \in N |-> Reached(x)]
<1>1. L \in Nat /\ <<>> \in N /\ \A x \in N : x \in Seq(Segments) /\ Len(x) \in 0 .. L
  <2>1. L \in Nat
    OBVIOUS
  <2> QED
    BY <2>1, NodesAre
<1>2. \A h \in V : level(h) \in V
  <2> SUFFICES ASSUME NEW h \in V PROVE level(h) \in V
    OBVIOUS
  <2>1. \A x \in N : FoundAt(trie, keys, h, x) \in R
    BY FoundIsResult, Zenon
  <2> HIDE DEF N, R
  <2> QED
    BY <2>1
<1>3. step \in [1 .. L -> [V -> V]]
  <2> HIDE DEF V, level
  <2> QED
    BY <1>2
<1>5. v \in V
  <2>1. \A x \in N : Reached(x) \in R
    BY DEF Reached, SearchResults
  <2> HIDE DEF N, R
  <2> QED
    BY <2>1
<1> HIDE DEF step
<1>6. PICK h : Recursion(h, V, v, L, step)
  <2> HIDE DEF V, v, L
  <2> QED
    BY <1>1, <1>3, <1>5, RecursionExists, Zenon DEF L
<1>7. /\ h \in [0 .. L -> V] /\ h[0] = v
      /\ \A i \in 1 .. L : h[i] = step[i][h[i - 1]]
  <2> HIDE DEF V, v
  <2> QED
    BY <1>6, Zenon DEF Recursion
<1>8. \A i \in 1 .. L : h[i - 1] \in V /\ h[i] = level(h[i - 1])
  <2> SUFFICES ASSUME NEW i \in 1 .. L PROVE h[i - 1] \in V /\ h[i] = level(h[i - 1])
    OBVIOUS
  <2>1. i - 1 \in 0 .. L
    BY <1>1
  <2> HIDE DEF V, level
  <2>2. h[i - 1] \in V
    BY <2>1, <1>7
  <2>3. step[i][h[i - 1]] = level(h[i - 1])
    BY <2>2 DEF step
  <2> QED
    BY <2>2, <2>3, <1>7
<1> DEFINE f == [x \in N |-> h[L - Len(x)][x]]
<1>9. ASSUME NEW x \in N PROVE f[x] = FoundAt(trie, keys, f, x)
  <2>1. Len(x) \in 0 .. L
    BY <1>1
  <2>2. CASE Len(x) = L
    <3>1. f[x] = h[0][x]
      BY <2>2, <1>1
    <3>2. h[0][x] = Reached(x)
      BY <1>7
    <3> HIDE DEF f
    <3> QED
      BY <2>2, <3>1, <3>2, Zenon DEF FoundAt
  <2>3. CASE Len(x) < L
    <3> DEFINE i == L - Len(x)
    <3>1. i \in 1 .. L /\ i - 1 \in Nat
      BY <2>1, <2>3, <1>1
    <3>2. h[i - 1] \in V /\ h[i] = level(h[i - 1])
      BY <3>1, <1>8
    <3>3. f[x] = FoundAt(trie, keys, h[i - 1], x)
      <4>1. f[x] = h[i][x]
        OBVIOUS
      <4>2. level(h[i - 1])[x] = FoundAt(trie, keys, h[i - 1], x)
        OBVIOUS
      <4> HIDE DEF f, level, i
      <4> QED
        BY <4>1, <4>2, <3>2, Zenon
    <3>4. \A y \in N : Len(y) = Len(x) + 1 => f[y] = h[i - 1][y]
      <4> SUFFICES ASSUME NEW y \in N, Len(y) = Len(x) + 1 PROVE f[y] = h[i - 1][y]
        OBVIOUS
      <4>1. L - Len(y) = i - 1
        BY <1>1, <2>1
      <4>2. f[y] = h[L - Len(y)][y]
        OBVIOUS
      <4> HIDE DEF f, i
      <4> QED
        BY <4>1, <4>2
    <3>5. \A y \in N : h[i - 1][y] \in R
      BY <3>2
    <3>6. PICK k : k = h[i - 1]
      OBVIOUS
    <3> HIDE DEF f, i, level
    <3>7. FoundAt(trie, keys, f, x) = FoundAt(trie, keys, k, x)
      <4>1. \A y \in Nodes(trie, Len(keys)) : k[y] \in SearchResults(trie, keys)
        BY <3>5, <3>6
      <4>2. \A y \in Nodes(trie, Len(keys)) : Len(y) = Len(x) + 1 => f[y] = k[y]
        BY <3>4, <3>6
      <4> QED
        BY <2>3, <4>1, <4>2, BelowIs, Zenon
    <3> QED
      BY <3>3, <3>6, <3>7
  <2> QED
    BY <2>1, <2>2, <2>3, <1>1
<1> DEFINE Sol(k) == k = [x \in N |-> FoundAt(trie, keys, k, x)]
           g == CHOOSE k : Sol(k)
<1>10. Sol(f)
  <2>1. f = [x \in N |-> f[x]]
    OBVIOUS
  <2>2. [x \in N |-> f[x]] = [x \in N |-> FoundAt(trie, keys, f, x)]
    <3> HIDE DEF f
    <3> QED
      BY <1>9
  <2> HIDE DEF f
  <2> QED
    BY <2>1, <2>2
<1>11. Sol(g)
  <2> HIDE DEF f, Sol
  <2> QED
    BY <1>10, Zenon
<1>12. Searching(g, trie, keys)
  <2> HIDE DEF g
  <2>1. g = [x \in N |-> FoundAt(trie, keys, g, x)]
    BY <1>11
  <2>2. \A x \in N : g[x] = FoundAt(trie, keys, g, x)
    BY <2>1, Zenon
  <2> QED
    BY <2>2, Zenon DEF Searching
<1>13. Search(trie, keys) = g[<<>>]
  BY Zenon DEF Search, FoundAt, Below, FirstGood, Good
<1> QED
  BY <1>12, <1>13

\* A node has what is found at one of its matching children that leads to a route, if there
\* is one.
GoesOn(f, trie, keys, node) ==
    LET C == ToSet(MatchChildren(trie, node, keys[Len(node) + 1]))
    IN  \/ f[node] = Nowhere /\ \A s \in C : ~Good(trie, f[Append(node, s)])
        \/ \E s \in C : Good(trie, f[Append(node, s)]) /\ f[node] = f[Append(node, s)]

\* search() goes on to the children that match, in turn, and returns the first good result.
LEMMA SearchStep ==
    ASSUME NEW trie \in Seq(Addressed(Segments)), NEW keys \in Seq(Int), NEW f,
           Searching(f, trie, keys), NEW node \in Nodes(trie, Len(keys)), Len(node) < Len(keys)
    PROVE  GoesOn(f, trie, keys, node)
<1> DEFINE key == keys[Len(node) + 1]
           M == MatchChildren(trie, node, key)
           b == [i \in 1 .. Len(M) |-> f[Append(node, M[i])]]
           good == {i \in DOMAIN b : Good(trie, b[i])}
           first == CHOOSE i \in good : \A j \in good : i <= j
<1>1. node \in Seq(Segments) /\ Len(node) # Len(keys)
  <2>1. Len(keys) \in Nat
    OBVIOUS
  <2>2. node \in Seq(Segments) /\ Len(node) \in 0 .. Len(keys)
    BY <2>1, NodesAre
  <2> QED
    BY <2>1, <2>2
<1>2. M \in Seq(Segments)
  BY <1>1, MatchingAre, Zenon
<1>3. f[node] = IF good = {} THEN Nowhere ELSE b[first]
  <2>1. f[node] = FoundAt(trie, keys, f, node)
    BY Zenon DEF Searching
  <2>2. FoundAt(trie, keys, f, node) = FirstGood(trie, Below(trie, keys, f, node))
    BY <1>1, Zenon DEF FoundAt
  <2>3. Below(trie, keys, f, node) = b
    BY Zenon DEF Below
  <2>4. FirstGood(trie, b) = IF good = {} THEN Nowhere ELSE b[first]
    BY Zenon DEF FirstGood
  <2> QED
    BY <2>1, <2>2, <2>3, <2>4, Zenon
<1> HIDE DEF M
<1>4. \A s \in ToSet(M) : \E i \in 1 .. Len(M) : M[i] = s
  BY <1>2 DEF ToSet
<1>5. \A i \in 1 .. Len(M) : M[i] \in ToSet(M)
  BY <1>2, ElementOf, Zenon
<1>6. DOMAIN b = 1 .. Len(M) /\ \A i \in 1 .. Len(M) : b[i] = f[Append(node, M[i])]
  OBVIOUS
<1> HIDE DEF b
<1>7. CASE good = {}
  <2>1. ASSUME NEW s \in ToSet(M) PROVE ~Good(trie, f[Append(node, s)])
    <3>1. PICK i \in 1 .. Len(M) : M[i] = s
      BY <1>4
    <3>2. i \notin good
      BY <1>7
    <3> QED
      BY <3>1, <3>2, <1>6
  <2> QED
    BY <2>1, <1>3, <1>7 DEF M, GoesOn
<1>8. CASE good # {}
  <2>1. good \in SUBSET Nat
    BY <1>2, <1>6
  <2>2. first \in good
    <3> HIDE DEF good
    <3>1. \E i \in good : \A j \in good : i <= j
      BY <1>8, <2>1, LeastElement
    <3> QED
      BY <3>1, Zenon
  <2> HIDE DEF first
  <2>3. first \in 1 .. Len(M) /\ Good(trie, b[first])
    BY <2>2, <1>6
  <2>4. f[node] = f[Append(node, M[first])] /\ Good(trie, f[Append(node, M[first])])
    BY <2>3, <1>3, <1>6, <1>8
  <2> QED
    BY <2>3, <2>4, <1>5, Zenon DEF M, GoesOn
<1> QED
  BY <1>7, <1>8

\* From n on a path has variables or the keys themselves.
FitsFrom(path, keys, n) ==
    /\ Len(path) = Len(keys)
    /\ \A i \in n + 1 .. Len(keys) : path[i].var \/ Spells(path[i], keys[i])

\* A search that comes to a route has gone on from its node along the keys.
LEMMA SearchFits ==
    ASSUME NEW trie \in Seq(Addressed(Segments)), NEW keys \in Seq(Int), NEW f,
           Searching(f, trie, keys)
    PROVE  \A node \in Nodes(trie, Len(keys)) :
              Good(trie, f[node]) =>
                 /\ Prefix(f[node].node, Len(node)) = node
                 /\ f[node].node \in Seq(Segments)
                 /\ FitsFrom(f[node].node, keys, Len(node))
<1> DEFINE N == Nodes(trie, Len(keys))
           L == Len(keys)
           Holds(x) == Good(trie, f[x]) => /\ Prefix(f[x].node, Len(x)) = x
                                           /\ f[x].node \in Seq(Segments)
                                           /\ FitsFrom(f[x].node, keys, Len(x))
           G == {k \in Nat : \A x \in N : Len(x) = L - k => Holds(x)}
<1>1. L \in Nat
  OBVIOUS
<1>2. \A x \in N : x \in Seq(Segments) /\ Len(x) \in 0 .. L
  BY <1>1, NodesAre
<1>3. 0 \in G
  <2> SUFFICES ASSUME NEW x \in N, Len(x) = L PROVE Holds(x)
    BY <1>1
  <2>1. f[x] = Reached(x)
    BY Zenon DEF Searching, FoundAt
  <2>2. f[x].node = x
    BY <2>1 DEF Reached
  <2>3. x \in Seq(Segments) /\ Prefix(x, Len(x)) = x
    <3>1. x \in Seq(Segments) /\ Len(x) \in 0 .. Len(x)
      BY <1>2
    <3> QED
      BY <3>1, PrefixIs, Zenon
  <2>4. FitsFrom(x, keys, Len(x))
    BY <1>1 DEF FitsFrom
  <2> QED
    BY <2>2, <2>3, <2>4
<1>4. ASSUME NEW k \in Nat, k \in G PROVE k + 1 \in G
  <2> SUFFICES ASSUME NEW x \in N, Len(x) = L - (k + 1), Good(trie, f[x])
               PROVE  /\ Prefix(f[x].node, Len(x)) = x
                      /\ f[x].node \in Seq(Segments)
                      /\ FitsFrom(f[x].node, keys, Len(x))
    OBVIOUS
  <2> DEFINE C == ToSet(MatchChildren(trie, x, keys[Len(x) + 1]))
             n == Len(x)
  <2>1. x \in Seq(Segments) /\ n \in Nat /\ n < L /\ L - k = n + 1
    BY <1>1, <1>2
  <2>2. ~Good(trie, Nowhere)
    BY DEF Good, Nowhere
  <2>3. PICK s \in C : Good(trie, f[Append(x, s)]) /\ f[x] = f[Append(x, s)]
    <3>1. GoesOn(f, trie, keys, x)
      BY <2>1, SearchStep, Zenon
    <3> QED
      BY <3>1, <2>2, Zenon DEF GoesOn
  <2>4. LeadsOn(trie, x, s) /\ (Spells(s, keys[n + 1]) \/ s.var)
    BY <2>1, MatchingAre, Zenon
  <2> HIDE DEF C
  <2>5. s \in Segments /\ Append(x, s) \in N
    BY <2>1, <2>4, <1>1, NodesAre
  <2> DEFINE y == Append(x, s)
             q == f[x].node
  <2>6. Len(y) = n + 1 /\ y[n + 1] = s /\ \A i \in 1 .. n : y[i] = x[i]
    BY <2>1, <2>5
  <2>7. Holds(y)
    BY <1>4, <2>1, <2>5, <2>6
  <2>8. Prefix(q, n + 1) = y /\ q \in Seq(Segments) /\ FitsFrom(q, keys, n + 1)
    BY <2>3, <2>6, <2>7
  <2> HIDE DEF y, q
  <2>9. Len(q) = L /\ n + 1 \in 0 .. Len(q) /\ n \in 0 .. Len(q) /\ n < Len(q)
    BY <2>1, <2>8, <1>1 DEF FitsFrom
  <2>10. q[n + 1] = s /\ Prefix(q, n) = x
    <3>1. /\ \A i \in 1 .. n + 1 : Prefix(q, n + 1)[i] = q[i]
          /\ Prefix(q, n) \in Seq(Segments) /\ Len(Prefix(q, n)) = n
          /\ \A i \in 1 .. n : Prefix(q, n)[i] = q[i]
      BY <2>8, <2>9, PrefixIs
    <3>2. q[n + 1] = s
      <4>1. n + 1 \in 1 .. n + 1
        BY <2>1
      <4>2. Prefix(q, n + 1)[n + 1] = q[n + 1]
        BY <3>1, <4>1, Zenon
      <4> QED
        BY <4>2, <2>6, <2>8, Zenon
    <3>3. \A i \in 1 .. n : Prefix(q, n)[i] = x[i]
      <4> SUFFICES ASSUME NEW i \in 1 .. n PROVE Prefix(q, n)[i] = x[i]
        OBVIOUS
      <4>1. i \in 1 .. n + 1
        BY <2>1
      <4> QED
        BY <4>1, <3>1, <2>6, <2>8
    <3>4. Prefix(q, n) = x
      BY <3>1, <3>3, <2>1, SeqEqual
    <3> QED
      BY <3>2, <3>4
  <2>11. FitsFrom(q, keys, n)
    <3>1. \A i \in n + 1 .. L : i = n + 1 \/ i \in (n + 1) + 1 .. L
      <4> HIDE DEF n, L
      <4> QED
        BY <2>1, <1>1
    <3>2. q[n + 1].var \/ Spells(q[n + 1], keys[n + 1])
      BY <2>4, <2>10
    <3> QED
      BY <3>1, <3>2, <2>8 DEF FitsFrom
  <2> QED
    BY <2>8, <2>10, <2>11 DEF q
<1>5. Nat \subseteq G
  <2> HIDE DEF G
  <2> QED
    BY <1>3, <1>4, Induction
<1>6. ASSUME NEW x \in N PROVE Holds(x)
  <2>1. L - Len(x) \in Nat /\ Len(x) = L - (L - Len(x))
    BY <1>1, <1>2
  <2> QED
    BY <2>1, <1>5
<1> QED
  BY <1>6

\* The segments of a route are tried, alone if nothing else is.
Tried(trie, keys, r, alone) ==
    \A n \in 0 .. Len(keys) : n < Len(keys) =>
       /\ r.path[n + 1] \in ToSet(MatchChildren(trie, Prefix(r.path, n), keys[n + 1]))
       /\ alone => \A s \in ToSet(MatchChildren(trie, Prefix(r.path, n), keys[n + 1])) :
                      s = r.path[n + 1]

\* A search comes to a route if all the segments of one match, and to this one if only they do.
LEMMA SearchFinds ==
    ASSUME NEW trie \in Seq(Addressed(Segments)), NEW keys \in Seq(Int), NEW f,
           Searching(f, trie, keys), NEW r \in ToSet(trie), Len(r.path) = Len(keys),
           NEW alone \in BOOLEAN, Tried(trie, keys, r, alone)
    PROVE  Good(trie, f[<<>>]) /\ (alone => f[<<>>] = Reached(r.path))
<1> DEFINE N == Nodes(trie, Len(keys))
           L == Len(keys)
           p == r.path
           Holds(n) == Good(trie, f[Prefix(p, n)]) /\ (alone => f[Prefix(p, n)] = Reached(p))
           G == {k \in Nat : k <= L => Holds(L - k)}
<1>1. p \in Seq(Segments) /\ L \in Nat /\ Len(p) = L
  <2>1. r \in Addressed(Segments)
    BY DEF ToSet
  <2> QED
    BY <2>1, RouteParts
<1>2. \A n \in 0 .. L : /\ Prefix(p, n) \in N /\ Len(Prefix(p, n)) = n
                        /\ n < L => Prefix(p, n + 1) = Append(Prefix(p, n), p[n + 1])
  <2> SUFFICES ASSUME NEW n \in 0 .. L
               PROVE  /\ Prefix(p, n) \in N /\ Len(Prefix(p, n)) = n
                      /\ n < L => Prefix(p, n + 1) = Append(Prefix(p, n), p[n + 1])
    OBVIOUS
  <2>1. n \in 0 .. Len(p) /\ n <= Len(p)
    BY <1>1
  <2>2. Prefix(p, n) \in N
    BY <2>1, <1>1, NodesAre
  <2> QED
    BY <2>1, <2>2, <1>1, PrefixIs
<1>3. 0 \in G
  <2>1. Prefix(p, L) = p
    <3>1. Len(p) \in 0 .. Len(p)
      BY <1>1
    <3> QED
      BY <3>1, <1>1, PrefixIs, Zenon
  <2>2. p \in N
    <3>1. L \in 0 .. L
      BY <1>1
    <3> QED
      BY <3>1, <2>1, <1>2
  <2>3. f[p] = Reached(p)
    BY <2>2, <1>1, Zenon DEF Searching, FoundAt
  <2>4. Good(trie, Reached(p))
    <3>1. PICK i \in 1 .. Len(trie) : trie[i] = r
      BY DEF ToSet
    <3>2. i \in ValuesAt(trie, p)
      BY <3>1 DEF ValuesAt
    <3> QED
      BY <3>2 DEF Good, Reached, HasValue
  <2> QED
    BY <2>1, <2>3, <2>4, <1>1
<1>4. ASSUME NEW k \in Nat, k \in G PROVE k + 1 \in G
  <2> SUFFICES ASSUME k + 1 <= L PROVE Holds(L - (k + 1))
    OBVIOUS
  <2> DEFINE n == L - (k + 1)
             x == Prefix(p, n)
             C == ToSet(MatchChildren(trie, x, keys[n + 1]))
  <2>1. n \in 0 .. L /\ n < L /\ n + 1 = L - k /\ k <= L
    BY <1>1
  <2>2. Holds(n + 1)
    BY <1>4, <2>1
  <2>3. x \in N /\ Len(x) = n /\ Prefix(p, n + 1) = Append(x, p[n + 1])
    BY <2>1, <1>2
  <2>4. p[n + 1] \in C /\ (alone => \A s \in C : s = p[n + 1])
    BY <2>1, Zenon DEF Tried
  <2> HIDE DEF n, x, C, G
  <2>5. Good(trie, f[Append(x, p[n + 1])])
    BY <2>2, <2>3, Zenon
  <2>6. \/ f[x] = Nowhere /\ \A s \in C : ~Good(trie, f[Append(x, s)])
        \/ \E s \in C : Good(trie, f[Append(x, s)]) /\ f[x] = f[Append(x, s)]
    <3>1. GoesOn(f, trie, keys, x)
      BY <2>1, <2>3, SearchStep, Zenon
    <3> QED
      BY <3>1, <2>3, Zenon DEF GoesOn, C
  <2>7. PICK s \in C : Good(trie, f[Append(x, s)]) /\ f[x] = f[Append(x, s)]
    BY <2>4, <2>5, <2>6, Zenon
  <2>8. alone => f[x] = f[Prefix(p, n + 1)]
    BY <2>3, <2>4, <2>7, Zenon
  <2>9. Holds(n)
    BY <2>2, <2>7, <2>8, Zenon DEF x
  <2> QED
    BY <2>9 DEF n
<1>5. Nat \subseteq G
  <2> HIDE DEF G
  <2> QED
    BY <1>3, <1>4, Induction
<1>6. Holds(0)
  <2>1. L \in G /\ L <= L /\ L - L = 0
    BY <1>5, <1>1
  <2> QED
    BY <2>1
<1>7. Prefix(p, 0) = <<>>
  <2>1. 0 \in 0 .. Len(p)
    BY <1>1
  <2> QED
    BY <2>1, <1>1, PrefixIs, Zenon
<1> QED
  BY <1>6, <1>7

---------------------------------------------------------------------------
(* What TrieRouter finds among templates *)

\* The places of the variables of a path, and whether their names differ.
VarPlaces(path) == {i \in 1 .. Len(path) : path[i].var}
NamesDiffer(path) == \A i, j \in VarPlaces(path) : path[i] = path[j] => i = j

\* With different names each variable has the value of its place: decoded from a trie, as
\* it comes from a regular expression.
LEMMA ParamsAre ==
    ASSUME NEW r \in Addressed(Segments), NEW keys, NamesDiffer(r.path)
    PROVE  \A i \in VarPlaces(r.path) :
              /\ TrieParams(r.path, keys)[r.path[i].name] = Decode(keys[i])
              /\ BuildPathParams(r, keys)[r.path[i].name] = keys[i]
<1> DEFINE p == r.path
           P == VarPlaces(p)
           names == {p[i].name : i \in P}
           outer(n) == CHOOSE i \in P : p[i].name = n /\ \A j \in P : p[j].name = n => i <= j
           last(n) == CHOOSE i \in P : p[i].name = n /\ \A j \in P : p[j].name = n => j <= i
<1>1. p \in Seq(Segments) /\ Len(p) \in Nat
  BY RouteParts
<1>2. \A i \in P : i \in Nat /\ p[i] = Variable(p[i].name)
  <2> SUFFICES ASSUME NEW i \in P PROVE i \in Nat /\ p[i] = Variable(p[i].name)
    OBVIOUS
  <2>1. i \in 1 .. Len(p) /\ p[i].var
    BY DEF VarPlaces
  <2>2. p[i] \in Segments
    BY <2>1, <1>1
  <2>3. p[i] = Variable(p[i].name)
    BY <2>1, <2>2, SegmentIs
  <2> QED
    BY <2>1, <2>3, <1>1
<1>3. \A i, j \in P : p[i].name = p[j].name => i = j
  BY <1>2, Zenon DEF NamesDiffer
<1>4. /\ TrieParams(p, keys) = [n \in names |-> Decode(keys[outer(n)])]
      /\ BuildPathParams(r, keys) = [n \in names |-> keys[last(n)]]
  BY Zenon DEF TrieParams, BuildPathParams, VarPlaces
<1> HIDE DEF p, P
<1>5. ASSUME NEW i \in P
      PROVE  outer(p[i].name) = i /\ last(p[i].name) = i /\ p[i].name \in names
  BY <1>2, <1>3
<1> HIDE DEF outer, last
<1>6. ASSUME NEW i \in P
      PROVE  /\ [n \in names |-> Decode(keys[outer(n)])][p[i].name] = Decode(keys[i])
             /\ [n \in names |-> keys[last(n)]][p[i].name] = keys[i]
  BY <1>5
<1> QED
  BY <1>4, <1>6, Zenon DEF p, P

\* A value of a node is that of a template that leads to it.
LEMMA ValueIs ==
    ASSUME NEW trie \in Seq(Addressed(Segments)), NEW node, HasValue(trie, node)
    PROVE  ValueAt(trie, node) \in ToSet(trie) /\ ValueAt(trie, node).path = node
<1> DEFINE V == ValuesAt(trie, node)
           first == CHOOSE i \in V : \A j \in V : i <= j
<1>1. V \in SUBSET Nat /\ V # {} /\ V \subseteq 1 .. Len(trie)
  BY DEF ValuesAt, HasValue
<1>2. \E i \in V : \A j \in V : i <= j
  <2> HIDE DEF V
  <2> QED
    BY <1>1, LeastElement
<1>3. first \in V
  <2> HIDE DEF V
  <2> QED
    BY <1>2, Zenon
<1>4. first \in 1 .. Len(trie) /\ trie[first].path = node
  BY <1>3 DEF ValuesAt
<1>5. ValueAt(trie, node) = trie[first]
  BY Zenon DEF ValueAt
<1> HIDE DEF first
<1> QED
  BY <1>4, <1>5, ElementOf, Zenon

\* What the trie of a verb finds for a path: a template of the verb that fits it.
TrieFinds(result, rs, verb, path) ==
    \/ result = NotFound
    \/ \E r \in ToSet(TrieOf(rs, verb)) :
          result = Found(r, TrieParams(r.path, path)) /\ FitsFrom(r.path, path, 0)

\* Trie.match() finds such a template or nothing, and the one its search comes to.
LEMMA TrieMatchIs ==
    ASSUME NEW rs \in Seq(Addressed(Segments)), NEW verb, NEW path \in Seq(Int)
    PROVE  /\ TrieFinds(TrieMatch(TrieOf(rs, verb), path), rs, verb, path)
           /\ \E f : /\ Searching(f, TrieOf(rs, verb), path)
                     /\ Good(TrieOf(rs, verb), f[<<>>]) =>
                           /\ TrieMatch(TrieOf(rs, verb), path).found
                           /\ TrieMatch(TrieOf(rs, verb), path).route.path = f[<<>>].node
<1> DEFINE trie == TrieOf(rs, verb)
           x == TrieMatch(trie, path)
<1>1. trie \in Seq(Addressed(Segments))
  BY TemplatesAre, Zenon
<1> HIDE DEF trie
<1>2. PICK f : Searching(f, trie, path) /\ Search(trie, path) = f[<<>>]
  BY <1>1, SearchIs, Zenon
<1>3. x = IF Good(trie, f[<<>>])
          THEN Found(ValueAt(trie, f[<<>>].node), TrieParams(f[<<>>].node, path))
          ELSE NotFound
  BY <1>2, Zenon DEF TrieMatch, Good
<1>4. <<>> \in Nodes(trie, Len(path)) /\ Len(<<>>) = 0
  <2>1. Len(path) \in Nat /\ Len(<<>>) = 0
    OBVIOUS
  <2> QED
    BY <2>1, <1>1, NodesAre
<1>5. CASE ~Good(trie, f[<<>>])
  BY <1>2, <1>3, <1>5, Zenon DEF TrieFinds, trie
<1>6. CASE Good(trie, f[<<>>])
  <2> DEFINE q == f[<<>>].node
             r == ValueAt(trie, q)
  <2>1. FitsFrom(q, path, 0)
    BY <1>1, <1>2, <1>4, <1>6, SearchFits, Zenon
  <2>2. r \in ToSet(trie) /\ r.path = q
    BY <1>1, <1>6, ValueIs, Zenon DEF Good
  <2>3. x = Found(r, TrieParams(r.path, path))
    BY <1>3, <1>6, <2>2, Zenon
  <2> HIDE DEF r, q
  <2>4. x.found /\ x.route = r
    BY <2>3 DEF Found
  <2>5. TrieFinds(x, rs, verb, path)
    BY <2>1, <2>2, <2>3, Zenon DEF TrieFinds, trie
  <2> QED
    BY <1>2, <2>2, <2>4, <2>5, Zenon DEF trie, q
<1> QED
  BY <1>5, <1>6

\* A literal of one route lies beside the n-th segment of another, and is the key there.
Beside(s, r, n, keys) ==
    /\ Len(s.path) > n /\ Prefix(s.path, n) = Prefix(r.path, n)
    /\ Spells(s.path[n + 1], keys[n + 1])

\* Variables in the n-th place, below the same segments, are one.
AgreesWith(trie, r, n) ==
    \A s \in ToSet(trie) :
        (Len(s.path) > n /\ Prefix(s.path, n) = Prefix(r.path, n)
         /\ s.path[n + 1].var /\ r.path[n + 1].var) => s.path[n + 1] = r.path[n + 1]

\* Where a route fits, its segment is tried unless a literal lies beside it, and nothing
\* else is tried if variables agree.
LEMMA SegmentTried ==
    ASSUME NEW trie \in Seq(Addressed(Segments)), NEW keys \in Seq(Int),
           NEW r \in ToSet(trie), FitsFrom(r.path, keys, 0),
           NEW n \in 0 .. Len(keys), n < Len(keys),
           r.path[n + 1].var => ~\E s \in ToSet(trie) : Beside(s, r, n, keys)
    PROVE  LET C == ToSet(MatchChildren(trie, Prefix(r.path, n), keys[n + 1]))
           IN  /\ r.path[n + 1] \in C
               /\ AgreesWith(trie, r, n) => \A s \in C : s = r.path[n + 1]
<1> DEFINE p == r.path
           x == Prefix(p, n)
           e == p[n + 1]
           key == keys[n + 1]
           C == ToSet(MatchChildren(trie, x, key))
<1>1. /\ p \in Seq(Segments) /\ Len(p) = Len(keys) /\ Len(keys) \in Nat /\ n \in Nat
      /\ n + 1 \in 0 + 1 .. Len(keys) /\ n \in 0 .. Len(p) /\ n < Len(p)
  <2>1. r \in Addressed(Segments)
    BY DEF ToSet
  <2> QED
    BY <2>1, RouteParts DEF FitsFrom
<1>2. e.var \/ Spells(e, key)
  BY <1>1 DEF FitsFrom
<1>3. x \in Seq(Segments) /\ Len(x) = n /\ e \in Segments
  BY <1>1, PrefixIs, Zenon
<1>4. \A s : s \in C <=> /\ LeadsOn(trie, x, s)
                         /\ Spells(s, key) \/ (s.var /\ ~\E t : LeadsOn(trie, x, t) /\ Spells(t, key))
  BY <1>3, MatchingAre, Zenon
<1>5. \A s : LeadsOn(trie, x, s) <=>
               \E t \in ToSet(trie) : Len(t.path) > n /\ Prefix(t.path, n) = x /\ t.path[n + 1] = s
  BY <1>3, Zenon DEF LeadsOn
<1>6. LeadsOn(trie, x, e)
  BY <1>1, <1>5, Zenon
<1>7. e.var => ~\E t : LeadsOn(trie, x, t) /\ Spells(t, key)
  BY <1>5, Zenon DEF Beside
<1>8. e \in C
  BY <1>2, <1>4, <1>6, <1>7, Zenon
<1>9. ASSUME AgreesWith(trie, r, n), NEW s \in C PROVE s = e
  <2>1. LeadsOn(trie, x, s)
    BY <1>4, Zenon
  <2>2. PICK t \in ToSet(trie) : Len(t.path) > n /\ Prefix(t.path, n) = x /\ t.path[n + 1] = s
    BY <2>1, <1>5, Zenon
  <2>3. s \in Segments
    <3>1. t.path \in Seq(Segments) /\ Len(t.path) \in Nat
      <4>1. t \in Addressed(Segments)
        BY DEF ToSet
      <4> QED
        BY <4>1, RouteParts
    <3>2. n \in 0 .. Len(t.path)
      BY <3>1, <2>2, <1>1
    <3> QED
      BY <3>1, <3>2, <2>2, PrefixIs, Zenon
  <2>4. CASE Spells(s, key)
    <3>1. ~e.var
      BY <2>1, <2>4, <1>7, Zenon
    <3> QED
      BY <3>1, <2>3, <2>4, <1>2, <1>3, SpelledOnce, Zenon
  <2>5. CASE ~Spells(s, key)
    <3>1. s.var /\ ~Spells(e, key)
      BY <2>5, <1>4, <1>6, Zenon
    <3> QED
      BY <3>1, <1>2, <1>9, <2>2, Zenon DEF AgreesWith
  <2> QED
    BY <2>4, <2>5
<1> QED
  BY <1>8, <1>9, Zenon DEF C, key, x, e, p

\* The trie finds something where a template fits and no literal lies beside it, and this
\* template, or one of its path, where variables agree.
LEMMA TrieFindsTemplate ==
    ASSUME NEW rs \in Seq(Addressed(Segments)), NEW verb, NEW path \in Seq(Int),
           NEW r \in ToSet(TrieOf(rs, verb)), FitsFrom(r.path, path, 0),
           \A n \in 0 .. Len(path) : (n < Len(path) /\ r.path[n + 1].var) =>
              ~\E s \in ToSet(TrieOf(rs, verb)) : Beside(s, r, n, path)
    PROVE  LET found == TrieMatch(TrieOf(rs, verb), path)
           IN  /\ found.found
               /\ (\A n \in 0 .. Len(path) : n < Len(path) => AgreesWith(TrieOf(rs, verb), r, n))
                     => found.route.path = r.path
<1> DEFINE trie == TrieOf(rs, verb)
           x == TrieMatch(trie, path)
           alone == \A n \in 0 .. Len(path) : n < Len(path) => AgreesWith(trie, r, n)
<1>1. trie \in Seq(Addressed(Segments))
  BY TemplatesAre, Zenon
<1>2. PICK f : /\ Searching(f, trie, path)
               /\ Good(trie, f[<<>>]) => x.found /\ x.route.path = f[<<>>].node
  BY TrieMatchIs, Zenon
<1>3. Len(r.path) = Len(path)
  BY DEF FitsFrom
<1>4. r \in ToSet(trie)
  OBVIOUS
<1> HIDE DEF trie, x
<1>5. ASSUME NEW n \in 0 .. Len(path), n < Len(path)
      PROVE  /\ r.path[n + 1] \in ToSet(MatchChildren(trie, Prefix(r.path, n), path[n + 1]))
             /\ alone => \A s \in ToSet(MatchChildren(trie, Prefix(r.path, n), path[n + 1])) :
                            s = r.path[n + 1]
  <2>1. r.path[n + 1].var => ~\E s \in ToSet(trie) : Beside(s, r, n, path)
    BY <1>5, Zenon DEF trie
  <2>2. LET C == ToSet(MatchChildren(trie, Prefix(r.path, n), path[n + 1]))
        IN  /\ r.path[n + 1] \in C
            /\ AgreesWith(trie, r, n) => \A s \in C : s = r.path[n + 1]
    BY <1>1, <1>4, <1>5, <2>1, SegmentTried, Zenon
  <2> QED
    BY <1>5, <2>2, Zenon
<1> HIDE DEF alone
<1>6. PICK b \in BOOLEAN : b <=> alone
  BY Zenon
<1>7. Good(trie, f[<<>>]) /\ (b => f[<<>>] = Reached(r.path))
  <2>1. Tried(trie, path, r, b)
    BY <1>5, <1>6, Zenon DEF Tried
  <2>2. Searching(f, trie, path)
    BY <1>2
  <2> QED
    BY <1>1, <1>3, <1>4, <2>1, <2>2, SearchFinds, Zenon
<1>8. Reached(r.path).node = r.path
  BY DEF Reached
<1> QED
  BY <1>2, <1>6, <1>7, <1>8, Zenon DEF trie, x, alone

---------------------------------------------------------------------------
(* What RegExpRouter finds among templates *)

\* A strict order of some positions has a first one.
LEMMA FirstInOrder ==
    ASSUME NEW m \in Nat, NEW M \in SUBSET (1 .. m), M # {}, NEW P,
           \A i, j \in M : i = j \/ <<i, j>> \in P \/ <<j, i>> \in P,
           \A i, j, k \in M : <<i, j>> \in P /\ <<j, k>> \in P => <<i, k>> \in P
    PROVE  \E i \in M : \A j \in M \ {i} : <<i, j>> \in P
<1> DEFINE First(n, i) == i \in M /\ i <= n /\ \A j \in M \ {i} : j <= n => <<i, j>> \in P
           G == {n \in Nat : (\E i \in M : i <= n) => \E i \in M : First(n, i)}
<1>1. \A i \in M : i \in Nat /\ 1 <= i /\ i <= m
  OBVIOUS
<1>2. 0 \in G
  BY <1>1
<1>3. ASSUME NEW n \in Nat, n \in G PROVE n + 1 \in G
  <2> SUFFICES ASSUME \E i \in M : i <= n + 1 PROVE \E i \in M : First(n + 1, i)
    OBVIOUS
  <2>1. CASE ~\E i \in M : i <= n
    <3>1. PICK i \in M : i <= n + 1
      OBVIOUS
    <3>2. \A j \in M : j <= n + 1 => j = i
      BY <2>1, <3>1, <1>1
    <3> QED
      BY <3>1, <3>2
  <2>2. CASE \E i \in M : i <= n
    <3>1. PICK i \in M : First(n, i)
      BY <1>3, <2>2
    <3>2. CASE n + 1 \notin M
      <4>1. \A j \in M : j <= n + 1 => j <= n
        BY <3>2, <1>1
      <4>2. i <= n + 1
        BY <3>1, <1>1
      <4> QED
        BY <3>1, <4>1, <4>2
    <3>3. CASE n + 1 \in M
      <4>1. i # n + 1
        BY <3>1, <1>1
      <4>2. \A j \in M : j <= n + 1 => j <= n \/ j = n + 1
        BY <1>1
      <4>3. CASE <<i, n + 1>> \in P
        <5>1. First(n + 1, i)
          BY <3>1, <4>2, <4>3, <1>1
        <5> QED
          BY <5>1
      <4>4. CASE <<n + 1, i>> \in P
        <5>1. \A j \in M \ {n + 1} : j <= n + 1 => <<n + 1, j>> \in P
          <6> SUFFICES ASSUME NEW j \in M \ {n + 1}, j <= n PROVE <<n + 1, j>> \in P
            BY <4>2
          <6>1. j = i \/ <<i, j>> \in P
            BY <3>1
          <6> QED
            BY <6>1, <4>4, <3>3
        <5>2. First(n + 1, n + 1)
          BY <3>3, <5>1
        <5> QED
          BY <5>2, <3>3
      <4> QED
        BY <4>1, <4>3, <4>4, <3>3
    <3> QED
      BY <3>2, <3>3
  <2> QED
    BY <2>1, <2>2
<1>4. Nat \subseteq G
  <2> HIDE DEF G
  <2> QED
    BY <1>2, <1>3, Induction
<1>5. m \in G
  BY <1>4
<1>6. \E i \in M : i <= m
  BY <1>1
<1> QED
  BY <1>1, <1>5, <1>6

\* The tokens of one path come before those of another, or are the same.
Lower(p, q) ==
    \E k \in 1 .. Len(p) : /\ Token(p[k]) < Token(q[k])
                           /\ \A j \in 1 .. k - 1 : Token(p[j]) = Token(q[j])
SameTokens(p, q) == \A j \in 1 .. Len(p) : Token(p[j]) = Token(q[j])

\* The first tokens that differ decide between two paths of one length.
LEMMA LowerOrder ==
    ASSUME NEW p \in Seq(Segments), NEW q \in Seq(Segments), Len(p) = Len(q)
    PROVE  /\ Lower(p, q) \/ Lower(q, p) \/ SameTokens(p, q)
           /\ Lower(p, q) => ~Lower(q, p) /\ ~SameTokens(p, q)
<1> DEFINE D == {k \in 1 .. Len(p) : Token(p[k]) # Token(q[k])}
<1>1. Len(p) \in Nat
      /\ \A k \in 1 .. Len(p) : Token(p[k]) \in Nat /\ Token(q[k]) \in Nat
  <2>1. \A k \in 1 .. Len(p) : p[k] \in Segments /\ q[k] \in Segments
    OBVIOUS
  <2>2. \A s \in Segments : Token(s) \in Nat
    BY TokenIs, Zenon
  <2> QED
    BY <2>1, <2>2
<1>2. D = {} => SameTokens(p, q)
  BY DEF SameTokens
<1>3. D # {} => Lower(p, q) \/ Lower(q, p)
  <2> SUFFICES ASSUME D # {} PROVE Lower(p, q) \/ Lower(q, p)
    OBVIOUS
  <2>1. PICK k \in D : \A j \in D : k <= j
    <3>1. D \in SUBSET Nat
      BY <1>1
    <3> HIDE DEF D
    <3> QED
      BY <3>1, LeastElement
  <2>2. k \in 1 .. Len(p) /\ Token(p[k]) # Token(q[k])
    OBVIOUS
  <2>3. \A j \in 1 .. k - 1 : Token(p[j]) = Token(q[j])
    <3> SUFFICES ASSUME NEW j \in 1 .. k - 1, Token(p[j]) # Token(q[j]) PROVE FALSE
      OBVIOUS
    <3>1. j \in D /\ ~(k <= j)
      BY <1>1, <2>2
    <3> QED
      BY <2>1, <3>1
  <2>4. Token(p[k]) < Token(q[k]) \/ Token(q[k]) < Token(p[k])
    BY <1>1, <2>2
  <2> HIDE DEF D
  <2> QED
    BY <2>2, <2>3, <2>4 DEF Lower
<1>4. Lower(p, q) => ~Lower(q, p) /\ ~SameTokens(p, q)
  <2> SUFFICES ASSUME Lower(p, q) PROVE ~Lower(q, p) /\ ~SameTokens(p, q)
    OBVIOUS
  <2>1. PICK k \in 1 .. Len(p) : /\ Token(p[k]) < Token(q[k])
                                 /\ \A j \in 1 .. k - 1 : Token(p[j]) = Token(q[j])
    BY DEF Lower
  <2>2. ASSUME NEW i \in 1 .. Len(p), Token(q[i]) < Token(p[i]),
               \A j \in 1 .. i - 1 : Token(q[j]) = Token(p[j])
        PROVE  FALSE
    <3>1. i \in Nat /\ k \in Nat
      BY <1>1
    <3>2. CASE i < k
      <4>1. i \in 1 .. k - 1
        BY <3>1, <3>2
      <4> QED
        BY <4>1, <2>1, <2>2, <1>1
    <3>3. CASE k < i
      <4>1. k \in 1 .. i - 1
        BY <3>1, <3>3
      <4> QED
        BY <4>1, <2>1, <2>2, <1>1
    <3>4. CASE i = k
      BY <3>4, <2>1, <2>2, <1>1
    <3> QED
      BY <3>1, <3>2, <3>3, <3>4
  <2>3. ~Lower(q, p)
    BY <2>2 DEF Lower
  <2>4. ~SameTokens(p, q)
    BY <2>1, <1>1 DEF SameTokens
  <2> QED
    BY <2>3, <2>4
<1> QED
  BY <1>2, <1>3, <1>4

\* What comes before a path comes before what is as it or comes after it.
LEMMA LowerChain ==
    ASSUME NEW p \in Seq(Segments), NEW q \in Seq(Segments), NEW u \in Seq(Segments),
           Len(p) = Len(q), Len(q) = Len(u)
    PROVE  /\ Lower(p, q) /\ Lower(q, u) => Lower(p, u)
           /\ Lower(p, q) /\ SameTokens(q, u) => Lower(p, u)
           /\ SameTokens(p, q) /\ Lower(q, u) => Lower(p, u)
           /\ SameTokens(p, q) /\ SameTokens(q, u) => SameTokens(p, u)
<1>1. /\ Len(p) \in Nat
      /\ \A k \in 1 .. Len(p) : Token(p[k]) \in Nat /\ Token(q[k]) \in Nat /\ Token(u[k]) \in Nat
  <2>1. \A k \in 1 .. Len(p) : p[k] \in Segments /\ q[k] \in Segments /\ u[k] \in Segments
    OBVIOUS
  <2>2. \A s \in Segments : Token(s) \in Nat
    BY TokenIs, Zenon
  <2> QED
    BY <2>1, <2>2
<1>2. ASSUME Lower(p, q), Lower(q, u) PROVE Lower(p, u)
  <2>1. PICK k \in 1 .. Len(p) : /\ Token(p[k]) < Token(q[k])
                                 /\ \A j \in 1 .. k - 1 : Token(p[j]) = Token(q[j])
    BY <1>2 DEF Lower
  <2>2. PICK i \in 1 .. Len(p) : /\ Token(q[i]) < Token(u[i])
                                 /\ \A j \in 1 .. i - 1 : Token(q[j]) = Token(u[j])
    BY <1>2 DEF Lower
  <2>3. i \in Nat /\ k \in Nat
    BY <1>1
  <2>4. CASE i < k
    <3>1. i \in 1 .. k - 1 /\ \A j \in 1 .. i - 1 : j \in 1 .. k - 1
      BY <2>3, <2>4
    <3>2. Token(p[i]) < Token(u[i])
      BY <3>1, <2>1, <2>2, <1>1
    <3>3. \A j \in 1 .. i - 1 : Token(p[j]) = Token(u[j])
      BY <3>1, <2>1, <2>2
    <3> QED
      BY <3>2, <3>3 DEF Lower
  <2>5. CASE k < i
    <3>1. k \in 1 .. i - 1 /\ \A j \in 1 .. k - 1 : j \in 1 .. i - 1
      BY <2>3, <2>5
    <3>2. Token(p[k]) < Token(u[k])
      BY <3>1, <2>1, <2>2, <1>1
    <3>3. \A j \in 1 .. k - 1 : Token(p[j]) = Token(u[j])
      BY <3>1, <2>1, <2>2
    <3> QED
      BY <3>2, <3>3 DEF Lower
  <2>6. CASE i = k
    <3>1. Token(p[k]) < Token(u[k])
      BY <2>6, <2>1, <2>2, <1>1
    <3>2. \A j \in 1 .. k - 1 : Token(p[j]) = Token(u[j])
      BY <2>6, <2>1, <2>2
    <3> QED
      BY <3>1, <3>2 DEF Lower
  <2> QED
    BY <2>3, <2>4, <2>5, <2>6
<1>3. ASSUME Lower(p, q), SameTokens(q, u) PROVE Lower(p, u)
  <2>1. PICK k \in 1 .. Len(p) : /\ Token(p[k]) < Token(q[k])
                                 /\ \A j \in 1 .. k - 1 : Token(p[j]) = Token(q[j])
    BY <1>3 DEF Lower
  <2>2. \A j \in 1 .. Len(p) : Token(q[j]) = Token(u[j])
    BY <1>3 DEF SameTokens
  <2>3. Token(p[k]) < Token(u[k])
    BY <2>1, <2>2
  <2>4. \A j \in 1 .. k - 1 : j \in 1 .. Len(p)
    BY <1>1
  <2>5. \A j \in 1 .. k - 1 : Token(p[j]) = Token(u[j])
    BY <2>1, <2>2, <2>4
  <2> QED
    BY <2>3, <2>5 DEF Lower
<1>4. ASSUME SameTokens(p, q), Lower(q, u) PROVE Lower(p, u)
  <2>1. PICK k \in 1 .. Len(p) : /\ Token(q[k]) < Token(u[k])
                                 /\ \A j \in 1 .. k - 1 : Token(q[j]) = Token(u[j])
    BY <1>4 DEF Lower
  <2>2. \A j \in 1 .. Len(p) : Token(p[j]) = Token(q[j])
    BY <1>4 DEF SameTokens
  <2>3. Token(p[k]) < Token(u[k])
    BY <2>1, <2>2
  <2>4. \A j \in 1 .. k - 1 : j \in 1 .. Len(p)
    BY <1>1
  <2>5. \A j \in 1 .. k - 1 : Token(p[j]) = Token(u[j])
    BY <2>1, <2>2, <2>4
  <2> QED
    BY <2>3, <2>5 DEF Lower
<1> QED
  BY <1>2, <1>3, <1>4 DEF SameTokens

\* compareRoute() puts routes of one verb and length in the order of their tokens.
LEMMA BeforeIs ==
    ASSUME NEW r \in Addressed(Segments), NEW s \in Addressed(Segments),
           Len(r.path) = Len(s.path), r.verb = s.verb
    PROVE  Before(r, s) <=> Lower(r.path, s.path)
<1> DEFINE p == r.path
           q == s.path
           n == IF Len(p) < Len(q) THEN Len(p) ELSE Len(q)
           D == {i \in 1 .. n : Token(p[i]) # Token(q[i])}
           first == CHOOSE i \in D : \A j \in D : i <= j
<1>1. p \in Seq(Segments) /\ q \in Seq(Segments) /\ Len(p) \in Nat /\ n = Len(p)
      /\ r.verb \in ToSet(Verbs)
  BY RouteParts
<1>2. Before(r, s) <=> IF D # {} THEN Token(p[first]) < Token(q[first])
                       ELSE IF Len(p) # Len(q) THEN Len(p) > Len(q)
                       ELSE VerbRank(r.verb) < VerbRank(s.verb)
  BY Zenon DEF Before
<1>3. VerbRank(r.verb) \in Int
  <2>1. \E i \in 1 .. Len(Verbs) : Verbs[i] = r.verb
    <3>1. \A v \in ToSet(Verbs) : \E i \in DOMAIN Verbs : Verbs[i] = v
      BY Zenon DEF ToSet
    <3>2. DOMAIN Verbs = 1 .. Len(Verbs)
      BY DEF Verbs
    <3> QED
      BY <3>1, <3>2, <1>1
  <2>2. VerbRank(r.verb) \in 1 .. Len(Verbs)
    BY <2>1, Zenon DEF VerbRank
  <2>3. Len(Verbs) = 7
    BY DEF Verbs
  <2> QED
    BY <2>2, <2>3
<1>4. CASE D = {}
  <2>1. ~Before(r, s)
    BY <1>2, <1>3, <1>4
  <2>2. SameTokens(p, q)
    BY <1>1, <1>4 DEF SameTokens
  <2>3. ~Lower(p, q)
    BY <2>2, <1>1, LowerOrder
  <2> QED
    BY <2>1, <2>3
<1>5. CASE D # {}
  <2>1. Before(r, s) <=> Token(p[first]) < Token(q[first])
    BY <1>2, <1>5, Zenon
  <2>2. D \in SUBSET Nat /\ D \subseteq 1 .. Len(p)
    BY <1>1
  <2>3. \A i \in 1 .. Len(p) : i \in D <=> Token(p[i]) # Token(q[i])
    BY <1>1
  <2>4. first \in D /\ \A j \in D : first <= j
    <3> HIDE DEF D
    <3>1. \E i \in D : \A j \in D : i <= j
      BY <1>5, <2>2, LeastElement
    <3> QED
      BY <3>1, Zenon
  <2> HIDE DEF D, first, n
  <2>5. first \in 1 .. Len(p) /\ Token(p[first]) # Token(q[first])
    BY <2>2, <2>3, <2>4
  <2>6. \A j \in 1 .. first - 1 : Token(p[j]) = Token(q[j])
    <3> SUFFICES ASSUME NEW j \in 1 .. first - 1 PROVE Token(p[j]) = Token(q[j])
      OBVIOUS
    <3>1. j \in 1 .. Len(p) /\ ~(first <= j)
      BY <2>5, <1>1
    <3> QED
      BY <3>1, <2>3, <2>4
  <2>7. Token(p[first]) < Token(q[first]) => Lower(p, q)
    BY <2>5, <2>6 DEF Lower
  <2>8. Token(q[first]) < Token(p[first]) => Lower(q, p)
    BY <2>5, <2>6 DEF Lower
  <2>9. Token(p[first]) \in Nat /\ Token(q[first]) \in Nat
    <3>1. p[first] \in Segments /\ q[first] \in Segments
      BY <2>5, <1>1
    <3> QED
      BY <3>1, TokenIs
  <2>10. Token(p[first]) < Token(q[first]) \/ Token(q[first]) < Token(p[first])
    BY <2>5, <2>9
  <2>11. Lower(p, q) => ~Lower(q, p)
    BY <1>1, LowerOrder
  <2> QED
    BY <2>1, <2>7, <2>8, <2>10, <2>11, Zenon DEF p, q
<1> QED
  BY <1>4, <1>5

\* RegExpRouter's templates that match, and the one it takes: no other comes before it.
Fitting(rs, verb, path, slash, strict) ==
    {r \in ToSet(Templates(rs)) : RegExpMatches(r, verb, path, slash, strict)}
FirstFitting(r, rs, verb, path, slash, strict) ==
    /\ r \in Fitting(rs, verb, path, slash, strict)
    /\ \A s \in Fitting(rs, verb, path, slash, strict) : ~Lower(s.path, r.path)
RegExpFinds(result, rs, verb, path, slash, strict) ==
    \/ result = NotFound /\ Fitting(rs, verb, path, slash, strict) = {}
    \/ \E r : /\ FirstFitting(r, rs, verb, path, slash, strict)
              /\ result = Found(r, BuildPathParams(r, path))

\* Where no route without variables is found RegExpRouter takes the first such template.
LEMMA RegExpIs ==
    ASSUME NEW rs \in Seq(Addressed(Segments)), NEW verb, NEW path \in Seq(Int), NEW slash,
           NEW strict, ~FindStatic(rs, verb, path, slash).found
    PROVE  RegExpFinds(RegExpFindRoute(rs, verb, path, slash, strict), rs, verb, path, slash, strict)
<1> DEFINE T == Addressed(Segments)
           ts == Templates(rs)
           M == {i \in 1 .. Len(ts) : RegExpMatches(ts[i], verb, path, slash, strict)}
           before(i, j) == Before(ts[i], ts[j]) \/ (~Before(ts[j], ts[i]) /\ i < j)
           first == CHOOSE i \in M : \A j \in M \ {i} : before(i, j)
           x == RegExpFindRoute(rs, verb, path, slash, strict)
           p(i) == ts[i].path
<1>1. x = IF M = {} THEN NotFound ELSE Found(ts[first], BuildPathParams(ts[first], path))
  BY Zenon DEF RegExpFindRoute
<1>2. ts \in Seq(T)
  BY TemplatesAre, Zenon
<1> HIDE DEF ts
<1>3. M \in SUBSET (1 .. Len(ts)) /\ Len(ts) \in Nat /\ Len(path) \in Nat
  BY <1>2
<1>4. \A r : r \in Fitting(rs, verb, path, slash, strict) <=> \E i \in M : ts[i] = r
  <2>1. DOMAIN ts = 1 .. Len(ts)
    BY <1>2
  <2>2. \A r : r \in ToSet(ts) <=> \E i \in 1 .. Len(ts) : ts[i] = r
    BY <2>1, Zenon DEF ToSet
  <2> QED
    BY <2>2 DEF Fitting, ts
<1>5. \A i \in M : /\ ts[i] \in T /\ p(i) \in Seq(Segments)
                   /\ Len(p(i)) = Len(path) /\ ts[i].verb = verb
  <2> SUFFICES ASSUME NEW i \in M
               PROVE  /\ ts[i] \in T /\ p(i) \in Seq(Segments)
                      /\ Len(p(i)) = Len(path) /\ ts[i].verb = verb
    OBVIOUS
  <2>1. ts[i] \in T /\ RegExpMatches(ts[i], verb, path, slash, strict)
    BY <1>2
  <2> QED
    BY <2>1, RouteParts DEF RegExpMatches
<1>6. \A i, j \in M : Before(ts[i], ts[j]) <=> Lower(p(i), p(j))
  BY <1>5, BeforeIs
<1>7. \A i, j \in M : /\ Lower(p(i), p(j)) \/ Lower(p(j), p(i)) \/ SameTokens(p(i), p(j))
                      /\ Lower(p(i), p(j)) => ~Lower(p(j), p(i)) /\ ~SameTokens(p(i), p(j))
                      /\ SameTokens(p(i), p(j)) <=> SameTokens(p(j), p(i))
  <2> SUFFICES ASSUME NEW i \in M, NEW j \in M
               PROVE  /\ Lower(p(i), p(j)) \/ Lower(p(j), p(i)) \/ SameTokens(p(i), p(j))
                      /\ Lower(p(i), p(j)) => ~Lower(p(j), p(i)) /\ ~SameTokens(p(i), p(j))
                      /\ SameTokens(p(i), p(j)) <=> SameTokens(p(j), p(i))
    OBVIOUS
  <2>1. p(i) \in Seq(Segments) /\ p(j) \in Seq(Segments) /\ Len(p(i)) = Len(p(j))
    BY <1>5
  <2>2. SameTokens(p(i), p(j)) <=> SameTokens(p(j), p(i))
    BY <2>1 DEF SameTokens
  <2> QED
    BY <2>1, <2>2, LowerOrder
<1>8. CASE M = {}
  <2>1. Fitting(rs, verb, path, slash, strict) = {}
    BY <1>4, <1>8
  <2> QED
    BY <2>1, <1>1, <1>8, Zenon DEF RegExpFinds
<1>9. CASE M # {}
  <2> DEFINE R(i, j) == Lower(p(i), p(j)) \/ (SameTokens(p(i), p(j)) /\ i < j)
             P == {pair \in M \X M : R(pair[1], pair[2])}
  <2>1. \A i, j \in M : <<i, j>> \in P <=> Lower(p(i), p(j)) \/ (SameTokens(p(i), p(j)) /\ i < j)
    <3> SUFFICES ASSUME NEW i \in M, NEW j \in M
                 PROVE  <<i, j>> \in P <=> R(i, j)
      OBVIOUS
    <3>1. PICK pair : pair = <<i, j>>
      OBVIOUS
    <3>2. pair \in M \X M /\ pair[1] = i /\ pair[2] = j
      BY <3>1
    <3> HIDE DEF M, R
    <3>3. pair \in P <=> R(pair[1], pair[2])
      BY <3>2
    <3> QED
      BY <3>1, <3>2, <3>3, Zenon
  <2> HIDE DEF P
  <2>2. \A i, j \in M : i = j \/ <<i, j>> \in P \/ <<j, i>> \in P
    <3> SUFFICES ASSUME NEW i \in M, NEW j \in M, i # j PROVE <<i, j>> \in P \/ <<j, i>> \in P
      OBVIOUS
    <3>1. i < j \/ j < i
      BY <1>3
    <3> HIDE DEF p, M
    <3> QED
      BY <3>1, <2>1, <1>7
  <2>3. \A i, j, k \in M : <<i, j>> \in P /\ <<j, k>> \in P => <<i, k>> \in P
    <3> SUFFICES ASSUME NEW i \in M, NEW j \in M, NEW k \in M, <<i, j>> \in P, <<j, k>> \in P
                 PROVE  <<i, k>> \in P
      OBVIOUS
    <3>1. /\ p(i) \in Seq(Segments) /\ p(j) \in Seq(Segments) /\ p(k) \in Seq(Segments)
          /\ Len(p(i)) = Len(p(j)) /\ Len(p(j)) = Len(p(k))
      BY <1>5
    <3>2. i < j /\ j < k => i < k
      BY <1>3
    <3> DEFINE a == p(i)
               b == p(j)
               c == p(k)
    <3>3. /\ Lower(a, b) /\ Lower(b, c) => Lower(a, c)
          /\ Lower(a, b) /\ SameTokens(b, c) => Lower(a, c)
          /\ SameTokens(a, b) /\ Lower(b, c) => Lower(a, c)
          /\ SameTokens(a, b) /\ SameTokens(b, c) => SameTokens(a, c)
      <4> HIDE DEF a, b, c
      <4> QED
        BY <3>1, LowerChain DEF a, b, c
    <3> HIDE DEF p, M
    <3> QED
      BY <3>2, <3>3, <2>1
  <2>4. PICK i \in M : \A j \in M \ {i} : <<i, j>> \in P
    <3> HIDE DEF M
    <3> QED
      BY <2>2, <2>3, <1>3, <1>9, FirstInOrder
  <2>5. \A j \in M \ {i} : before(i, j)
    <3> SUFFICES ASSUME NEW j \in M \ {i} PROVE before(i, j)
      OBVIOUS
    <3> HIDE DEF p, M
    <3> QED
      BY <2>1, <2>4, <1>6, <1>7
  <2>6. first \in M /\ \A j \in M \ {first} : before(first, j)
    <3> HIDE DEF M, before
    <3> QED
      BY <2>4, <2>5, Zenon
  <2> HIDE DEF first
  <2>7. \A j \in M : ~Lower(p(j), p(first))
    <3> SUFFICES ASSUME NEW j \in M PROVE ~Lower(p(j), p(first))
      OBVIOUS
    <3> HIDE DEF p, M
    <3>1. CASE j = first
      BY <3>1, <1>7, <2>6
    <3>2. CASE j # first
      BY <3>2, <1>6, <1>7, <2>6
    <3> QED
      BY <3>1, <3>2
  <2>8. FirstFitting(ts[first], rs, verb, path, slash, strict)
    BY <2>6, <2>7, <1>4, Zenon DEF FirstFitting
  <2> QED
    BY <2>8, <1>1, <1>9, Zenon DEF RegExpFinds
<1> QED
  BY <1>8, <1>9

---------------------------------------------------------------------------
(* Routes without variables *)

\* The only route without variables for a verb and a path, with a slash or without.
StaticRoute(verb, path, slash) ==
    [verb |-> verb, path |-> [i \in 1 .. Len(path) |-> Literal(path[i])], slash |-> slash]

\* A route whose segments all spell a path is this one.
LEMMA StaticRouteIs ==
    ASSUME NEW path \in Seq(Int), NEW verb, NEW slash
    PROVE  /\ \A r \in Addressed(Segments) :
                 (/\ r.verb = verb /\ r.slash = slash /\ Len(r.path) = Len(path)
                  /\ \A i \in 1 .. Len(path) : Spells(r.path[i], path[i]))
                     => r = StaticRoute(verb, path, slash)
           /\ LET s == StaticRoute(verb, path, slash)
              IN  /\ s.verb = verb /\ s.slash = slash /\ Len(s.path) = Len(path)
                  /\ \A i \in 1 .. Len(path) : Spells(s.path[i], path[i])
                  /\ ~HasVariables(s)
<1> DEFINE q == [i \in 1 .. Len(path) |-> Literal(path[i])]
<1>1. Len(path) \in Nat /\ q \in Seq({Literal(n) : n \in Int}) /\ Len(q) = Len(path)
      /\ \A i \in 1 .. Len(path) : q[i] = Literal(path[i])
  OBVIOUS
<1>2. StaticRoute(verb, path, slash) = [verb |-> verb, path |-> q, slash |-> slash]
  BY Zenon DEF StaticRoute
<1> HIDE DEF q
<1>3. ASSUME NEW r \in Addressed(Segments), r.verb = verb, r.slash = slash,
             Len(r.path) = Len(path), \A i \in 1 .. Len(path) : Spells(r.path[i], path[i])
      PROVE  r = StaticRoute(verb, path, slash)
  <2>1. r.path \in Seq(Segments) /\ r = [verb |-> r.verb, path |-> r.path, slash |-> r.slash]
    BY RouteParts
  <2>2. \A i \in 1 .. Len(path) : r.path[i] = q[i]
    <3> SUFFICES ASSUME NEW i \in 1 .. Len(path) PROVE r.path[i] = q[i]
      OBVIOUS
    <3>1. r.path[i] \in Segments /\ Spells(r.path[i], path[i])
      BY <1>3, <2>1
    <3>2. r.path[i] = Literal(path[i])
      BY <3>1, SpelledOnce, Zenon
    <3> QED
      BY <3>2, <1>1
  <2>3. DOMAIN r.path = 1 .. Len(path) /\ DOMAIN q = 1 .. Len(path)
        /\ r.path = [i \in DOMAIN r.path |-> r.path[i]] /\ q = [i \in DOMAIN q |-> q[i]]
    BY <1>1, <1>3, <2>1
  <2>4. r.path = q
    BY <2>2, <2>3
  <2> QED
    BY <1>2, <1>3, <2>1, <2>4, Zenon
<1>4. \A n : Literal(n).var = FALSE /\ Literal(n).name = n
  BY DEF Literal
<1> DEFINE s == [verb |-> verb, path |-> q, slash |-> slash]
<1>5. s.verb = verb /\ s.slash = slash /\ s.path = q
  OBVIOUS
<1> HIDE DEF s
<1>6. \A i \in 1 .. Len(path) : q[i].var = FALSE /\ Spells(q[i], path[i])
  <2>1. \A n : ~Literal(n).var /\ Spells(Literal(n), n)
    BY <1>4 DEF Spells
  <2> QED
    BY <1>1, <1>4, <2>1
<1>7. ~HasVariables(s)
  BY <1>1, <1>5, <1>6 DEF HasVariables
<1> QED
  BY <1>1, <1>2, <1>3, <1>5, <1>6, <1>7, Zenon DEF s

\* Of routes without variables the one for the path is found.
LEMMA FindStaticIs ==
    ASSUME NEW rs \in Seq(Addressed(Segments)), NEW verb, NEW path \in Seq(Int), NEW slash
    PROVE  FindStatic(rs, verb, path, slash) =
             IF StaticRoute(verb, path, slash) \in ToSet(rs)
             THEN Found(StaticRoute(verb, path, slash), <<>>) ELSE NotFound
<1> DEFINE same(r) == /\ r.verb = verb /\ r.slash = slash /\ Len(r.path) = Len(path)
                      /\ \A i \in 1 .. Len(path) : Spells(r.path[i], path[i])
           B == {r \in ToSet(rs) : same(r)}
           found == Within(Statics(rs), B)
           st == StaticRoute(verb, path, slash)
<1>1. FindStatic(rs, verb, path, slash) =
        IF found = <<>> THEN NotFound ELSE Found(found[Len(found)], <<>>)
  BY Zenon DEF FindStatic
<1>2. same(st) /\ ~HasVariables(st)
  BY StaticRouteIs
<1>3. \A r \in ToSet(rs) : same(r) => r = st
  <2>1. ToSet(rs) \subseteq Addressed(Segments)
    BY DEF ToSet
  <2>2. \A r \in Addressed(Segments) : same(r) => r = st
    BY StaticRouteIs
  <2> QED
    BY <2>1, <2>2
<1> HIDE DEF same, st
<1>4. Statics(rs) \in Seq(Addressed(Segments))
      /\ ToSet(Statics(rs)) = {r \in ToSet(rs) : ~HasVariables(r)}
  BY TemplatesAre, Zenon
<1>5. found \in Seq(Addressed(Segments)) /\ ToSet(found) = ToSet(Statics(rs)) \cap B
  <2>1. PICK w : w = Statics(rs)
    OBVIOUS
  <2> HIDE DEF B
  <2>2. Within(w, B) \in Seq(Addressed(Segments)) /\ ToSet(Within(w, B)) = ToSet(w) \cap B
    BY <1>4, <2>1, WithinElements, WithinType, Zenon
  <2> QED
    BY <2>1, <2>2, Zenon
<1>6. \A r : r \in ToSet(found) <=> r = st /\ st \in ToSet(rs)
  BY <1>2, <1>3, <1>4, <1>5
<1> HIDE DEF found
<1>7. CASE found = <<>>
  <2>1. ToSet(found) = {}
    BY <1>7 DEF ToSet
  <2> QED
    BY <2>1, <1>1, <1>6, <1>7 DEF st
<1>8. CASE found # <<>>
  <2>1. Len(found) \in 1 .. Len(found)
    BY <1>5, <1>8
  <2>2. found[Len(found)] \in ToSet(found)
    BY <2>1, <1>5, ElementOf, Zenon
  <2> QED
    BY <2>2, <1>1, <1>6, <1>8, Zenon DEF st
<1> QED
  BY <1>7, <1>8

---------------------------------------------------------------------------
(* What each router finds for a path, with a slash or without *)

\* What is found is a route that matches, and has no variables if one without is there.
Sought(x, rs, asked, slash) ==
    /\ x.found \in BOOLEAN
    /\ x.found => x.route \in ToSet(rs) /\ Matches(x.route, asked)
    /\ StaticRoute(asked.verb, asked.path, slash) \in ToSet(rs)
          => x.found /\ IsStatic(x.route)

\* A route matches a request of its verb whose path it fits.
LEMMA MatchesIs ==
    ASSUME NEW asked \in Addressed(Int), NEW r
    PROVE  /\ Matches(r, asked) <=> r.verb = asked.verb /\ FitsFrom(r.path, asked.path, 0)
           /\ \A slash, strict : RegExpMatches(r, asked.verb, asked.path, slash, strict) <=>
                 Matches(r, asked) /\ (r.slash => slash) /\ (strict => r.slash = slash)
BY DEF Matches, FitsFrom, RegExpMatches

\* Of the routes without variables that match a request there is one for each slash.
LEMMA StaticMatches ==
    ASSUME NEW asked \in Addressed(Int), NEW slash \in BOOLEAN
    PROVE  /\ Matches(StaticRoute(asked.verb, asked.path, slash), asked)
           /\ IsStatic(StaticRoute(asked.verb, asked.path, slash))
           /\ \A r \in Addressed(Segments) : Matches(r, asked) /\ IsStatic(r)
                 => r = StaticRoute(asked.verb, asked.path, r.slash)
<1> DEFINE path == asked.path
           verb == asked.verb
<1>1. path \in Seq(Int) /\ Len(path) \in Nat
  BY RouteParts
<1>2. LET s == StaticRoute(verb, path, slash)
      IN  /\ s.verb = verb /\ s.slash = slash /\ Len(s.path) = Len(path)
          /\ \A i \in 1 .. Len(path) : Spells(s.path[i], path[i])
          /\ ~HasVariables(s)
  BY <1>1, StaticRouteIs
<1>3. ASSUME NEW r \in Addressed(Segments), Matches(r, asked), IsStatic(r)
      PROVE  r = StaticRoute(verb, path, r.slash)
  <2>1. r.verb = verb /\ Len(r.path) = Len(path)
        /\ \A i \in 1 .. Len(path) : r.path[i].var \/ Spells(r.path[i], path[i])
    BY <1>3, Zenon DEF Matches
  <2>2. \A i \in 1 .. Len(path) : ~r.path[i].var
    BY <1>3, <2>1, Zenon DEF IsStatic, HasVariables
  <2>3. \A i \in 1 .. Len(path) : Spells(r.path[i], path[i])
    BY <2>1, <2>2
  <2> QED
    BY <1>1, <2>1, <2>3, StaticRouteIs
<1> QED
  BY <1>2, <1>3, Zenon DEF Matches, IsStatic

\* The elements of the trie of a verb are the templates of this verb.
LEMMA TrieElements ==
    ASSUME NEW rs \in Seq(Addressed(Segments)), NEW verb
    PROVE  \A r : r \in ToSet(TrieOf(rs, verb)) <=>
                    r \in ToSet(rs) /\ HasVariables(r) /\ r.verb = verb
<1> DEFINE B == {r \in ToSet(rs) : r.verb = verb}
           ts == Templates(rs)
<1>1. ts \in Seq(Addressed(Segments)) /\ ToSet(ts) = {r \in ToSet(rs) : HasVariables(r)}
  BY TemplatesAre, Zenon
<1>2. \A r : r \in ToSet(ts) <=> r \in ToSet(rs) /\ HasVariables(r)
  BY <1>1
<1>3. \A r : r \in B <=> r \in ToSet(rs) /\ r.verb = verb
  OBVIOUS
<1>4. TrieOf(rs, verb) = Within(ts, B)
  BY Zenon DEF TrieOf
<1> HIDE DEF B, ts
<1>5. ToSet(TrieOf(rs, verb)) = ToSet(ts) \cap B
  BY <1>1, <1>4, WithinElements, Zenon
<1> QED
  BY <1>2, <1>3, <1>5

\* Both try the routes without variables first.
LEMMA StaticFirst ==
    ASSUME NEW rs \in Seq(Addressed(Segments)), NEW asked \in Addressed(Int),
           NEW slash \in BOOLEAN, NEW strict
    PROVE  LET st == StaticRoute(asked.verb, asked.path, slash)
               static == FindStatic(rs, asked.verb, asked.path, slash)
           IN  /\ st \in ToSet(rs) => static = Found(st, <<>>) /\ static.found
               /\ st \notin ToSet(rs) => static = NotFound /\ ~static.found
               /\ TrieFindRoute(rs, asked.verb, asked.path, slash, strict) =
                     IF st \in ToSet(rs) THEN Found(st, <<>>)
                     ELSE TrieMatch(TrieOf(rs, asked.verb), asked.path)
               /\ st \in ToSet(rs) =>
                     RegExpFindRoute(rs, asked.verb, asked.path, slash, strict) = Found(st, <<>>)
               /\ st \notin ToSet(rs) =>
                     RegExpFinds(RegExpFindRoute(rs, asked.verb, asked.path, slash, strict),
                                 rs, asked.verb, asked.path, slash, strict)
<1> DEFINE verb == asked.verb
           path == asked.path
           st == StaticRoute(verb, path, slash)
           static == FindStatic(rs, verb, path, slash)
<1>1. path \in Seq(Int)
  BY RouteParts
<1>2. static = IF st \in ToSet(rs) THEN Found(st, <<>>) ELSE NotFound
  BY <1>1, FindStaticIs, Zenon
<1> HIDE DEF st, static
<1>3. \A r, p : Found(r, p).found /\ ~NotFound.found
  BY DEF Found, NotFound
<1>4. CASE st \in ToSet(rs)
  <2>1. static = Found(st, <<>>) /\ static.found
    BY <1>2, <1>3, <1>4, Zenon
  <2>2. TrieFindRoute(rs, verb, path, slash, strict) = static
        /\ RegExpFindRoute(rs, verb, path, slash, strict) = static
    BY <2>1, Zenon DEF TrieFindRoute, RegExpFindRoute, static
  <2> QED
    BY <1>4, <2>1, <2>2, Zenon DEF st, static, verb, path
<1>5. CASE st \notin ToSet(rs)
  <2>1. static = NotFound /\ ~static.found
    BY <1>2, <1>3, <1>5, Zenon
  <2>2. TrieFindRoute(rs, verb, path, slash, strict) = TrieMatch(TrieOf(rs, verb), path)
    BY <2>1, Zenon DEF TrieFindRoute, static
  <2>3. RegExpFinds(RegExpFindRoute(rs, verb, path, slash, strict), rs, verb, path, slash, strict)
    BY <1>1, <2>1, RegExpIs, Zenon DEF static
  <2> QED
    BY <1>5, <2>1, <2>2, <2>3, Zenon DEF st, static, verb, path
<1> QED
  BY <1>4, <1>5

\* What either finds is a route of theirs that matches, without variables if there is one.
LEMMA SidesFind ==
    ASSUME NEW rs \in Seq(Addressed(Segments)), NEW asked \in Addressed(Int),
           NEW slash \in BOOLEAN, NEW strict
    PROVE  /\ Sought(TrieFindRoute(rs, asked.verb, asked.path, slash, strict),
                     rs, asked, slash)
           /\ Sought(RegExpFindRoute(rs, asked.verb, asked.path, slash, strict),
                     rs, asked, slash)
<1> DEFINE verb == asked.verb
           path == asked.path
           st == StaticRoute(verb, path, slash)
           t == TrieFindRoute(rs, verb, path, slash, strict)
           x == RegExpFindRoute(rs, verb, path, slash, strict)
<1>1. path \in Seq(Int)
  BY RouteParts
<1>2. \A r, p : /\ Found(r, p).found = TRUE /\ Found(r, p).route = r
                /\ NotFound.found = FALSE
  BY DEF Found, NotFound
<1>3. CASE st \in ToSet(rs)
  <2>1. t = Found(st, <<>>) /\ x = Found(st, <<>>)
    BY <1>3, StaticFirst, Zenon
  <2>2. Matches(st, asked) /\ IsStatic(st)
    BY StaticMatches, Zenon
  <2>3. Found(st, <<>>).found = TRUE /\ Found(st, <<>>).route = st
    BY <1>2
  <2>4. Sought(Found(st, <<>>), rs, asked, slash)
    BY <1>3, <2>2, <2>3, Zenon DEF Sought
  <2> QED
    BY <2>1, <2>4, Zenon
<1>4. CASE st \notin ToSet(rs)
  <2>1. t = TrieMatch(TrieOf(rs, verb), path)
        /\ RegExpFinds(x, rs, verb, path, slash, strict)
    BY <1>4, StaticFirst, Zenon
  <2>2. TrieFinds(t, rs, verb, path)
    BY <1>1, <2>1, TrieMatchIs, Zenon
  <2>3. Sought(NotFound, rs, asked, slash)
    BY <1>2, <1>4 DEF Sought
  <2>4. ASSUME NEW r \in ToSet(rs), NEW p, Matches(r, asked)
        PROVE  Sought(Found(r, p), rs, asked, slash)
    BY <1>2, <1>4, <2>4 DEF Sought
  <2>5. Sought(t, rs, asked, slash)
    <3>1. CASE t = NotFound
      BY <3>1, <2>3, Zenon
    <3>2. CASE t # NotFound
      <4>1. PICK r \in ToSet(TrieOf(rs, verb)) :
              t = Found(r, TrieParams(r.path, path)) /\ FitsFrom(r.path, path, 0)
        BY <2>2, <3>2, Zenon DEF TrieFinds
      <4>2. r \in ToSet(rs) /\ r.verb = verb
        BY TrieElements, Zenon
      <4>3. Matches(r, asked)
        BY <4>1, <4>2, MatchesIs, Zenon
      <4> QED
        BY <4>1, <4>2, <4>3, <2>4, Zenon
    <3> QED
      BY <3>1, <3>2
  <2>6. Sought(x, rs, asked, slash)
    <3>1. CASE x = NotFound
      BY <3>1, <2>3, Zenon
    <3>2. CASE x # NotFound
      <4>1. PICK r : /\ FirstFitting(r, rs, verb, path, slash, strict)
                     /\ x = Found(r, BuildPathParams(r, path))
        BY <2>1, <3>2, Zenon DEF RegExpFinds
      <4>2. r \in Fitting(rs, verb, path, slash, strict)
        BY <4>1, Zenon DEF FirstFitting
      <4>3. r \in ToSet(rs) /\ RegExpMatches(r, verb, path, slash, strict)
        BY <4>2, TemplatesAre DEF Fitting
      <4>4. Matches(r, asked)
        BY <4>3, MatchesIs, Zenon
      <4> QED
        BY <4>1, <4>3, <4>4, <2>4, Zenon
    <3> QED
      BY <3>1, <3>2
  <2> QED
    BY <2>5, <2>6
<1> QED
  BY <1>3, <1>4

---------------------------------------------------------------------------
(* What find() makes of it *)

\* find() of a router has what is found for the path as it is, or found for the other.
LEMMA FindInIs ==
    ASSUME NEW f, NEW asked \in Addressed(Int), NEW strict \in BOOLEAN,
           \A slash \in BOOLEAN : f[slash].found \in BOOLEAN
    PROVE  /\ \E slash \in BOOLEAN : /\ FindIn(f, asked, strict) = f[slash]
                                     /\ f[asked.slash].found => slash = asked.slash
           /\ ~strict => \A slash \in BOOLEAN :
                 f[slash].found /\ (asked.path = <<>> => slash)
                    => FindIn(f, asked, strict).found
<1>1. asked.slash \in BOOLEAN /\ (asked.path = <<>> => asked.slash)
  BY RouteParts
<1> DEFINE e == asked.slash
<1>2. FindIn(f, asked, strict) =
        IF strict \/ f[e].found \/ asked.path = <<>> THEN f[e] ELSE f[~e]
  BY Zenon DEF FindIn
<1>3. (~e) \in BOOLEAN /\ \A slash \in BOOLEAN : slash = e \/ slash = ~e
  BY <1>1
<1>4. CASE strict \/ f[e].found \/ asked.path = <<>>
  <2>1. FindIn(f, asked, strict) = f[e]
    BY <1>2, <1>4
  <2>2. asked.path = <<>> => \A slash \in BOOLEAN : slash => slash = e
    BY <1>1
  <2> QED
    BY <1>1, <1>3, <1>4, <2>1, <2>2, Zenon
<1>5. CASE ~(strict \/ f[e].found \/ asked.path = <<>>)
  <2>1. FindIn(f, asked, strict) = f[~e]
    BY <1>2, <1>5
  <2> QED
    BY <1>1, <1>3, <1>5, <2>1, Zenon
<1> QED
  BY <1>4, <1>5

\* The two functions of find(), by whether there is a slash.
TrieSides(rs, asked, strict) ==
    [slash \in BOOLEAN |-> TrieFindRoute(rs, asked.verb, asked.path, slash, strict)]
RegExpSides(rs, asked, strict) ==
    [slash \in BOOLEAN |-> RegExpFindRoute(rs, asked.verb, asked.path, slash, strict)]

\* What is found with a slash, and without, is a route that matches.
LEMMA SidesSought ==
    ASSUME NEW rs \in Seq(Addressed(Segments)), NEW asked \in Addressed(Int), NEW strict,
           NEW f \in {TrieSides(rs, asked, strict), RegExpSides(rs, asked, strict)}
    PROVE  \A slash \in BOOLEAN : Sought(f[slash], rs, asked, slash)
<1> SUFFICES ASSUME NEW slash \in BOOLEAN PROVE Sought(f[slash], rs, asked, slash)
  OBVIOUS
<1>1. \/ f[slash] = TrieFindRoute(rs, asked.verb, asked.path, slash, strict)
      \/ f[slash] = RegExpFindRoute(rs, asked.verb, asked.path, slash, strict)
  BY DEF TrieSides, RegExpSides
<1> QED
  BY <1>1, SidesFind, Zenon

\* What a router finds for a request matches it, and has no variables where such a route is
\* for exactly its path.
LEMMA FoundMatches ==
    ASSUME NEW rs \in Seq(Addressed(Segments)), NEW asked \in Addressed(Int),
           NEW strict \in BOOLEAN,
           NEW f \in {TrieSides(rs, asked, strict), RegExpSides(rs, asked, strict)}
    PROVE  LET found == FindIn(f, asked, strict)
           IN  /\ found.found => Matches(found.route, asked)
               /\ (\E i \in 1 .. Len(rs) : IsStatic(rs[i]) /\ Matches(rs[i], asked)
                                           /\ rs[i].slash = asked.slash)
                     => found.found /\ IsStatic(found.route)
<1>1. \A slash \in BOOLEAN : Sought(f[slash], rs, asked, slash)
  BY SidesSought, Zenon
<1>2. \A slash \in BOOLEAN : f[slash].found \in BOOLEAN
  BY <1>1, Zenon DEF Sought
<1>3. PICK slash \in BOOLEAN : /\ FindIn(f, asked, strict) = f[slash]
                               /\ f[asked.slash].found => slash = asked.slash
  BY <1>2, FindInIs, Zenon
<1>4. f[slash].found => Matches(f[slash].route, asked)
  BY <1>1, Zenon DEF Sought
<1>5. ASSUME NEW i \in 1 .. Len(rs), IsStatic(rs[i]), Matches(rs[i], asked),
             rs[i].slash = asked.slash
      PROVE  f[slash].found /\ IsStatic(f[slash].route)
  <2>1. rs[i] \in ToSet(rs) /\ rs[i] \in Addressed(Segments)
    BY ElementOf
  <2>2. rs[i] = StaticRoute(asked.verb, asked.path, asked.slash)
    BY <1>5, <2>1, StaticMatches, Zenon
  <2>3. asked.slash \in BOOLEAN
    BY RouteParts
  <2>4. f[asked.slash].found /\ IsStatic(f[asked.slash].route)
    BY <1>1, <2>1, <2>2, <2>3, Zenon DEF Sought
  <2> QED
    BY <2>4, <1>3, Zenon
<1> QED
  BY <1>3, <1>4, <1>5, Zenon

\* TrieRouter and RegExpRouter find what matches the request.
LEMMA RoutesMatch ==
    ASSUME NEW rs \in Seq(Addressed(Segments)), NEW asked \in Addressed(Int),
           NEW strict \in BOOLEAN
    PROVE  RouteMatchesRequest(rs, asked, Results(rs, asked, strict))
<1> DEFINE R == Results(rs, asked, strict)
           t == TrieSides(rs, asked, strict)
           x == RegExpSides(rs, asked, strict)
<1>1. R.trie = FindIn(t, asked, strict) /\ R.regExp = FindIn(x, asked, strict)
  BY DEF Results, TrieFind, RegExpFind, TrieSides, RegExpSides
<1> HIDE DEF R, t, x
<1>2. \A found \in {R.trie, R.regExp} :
        found = FindIn(t, asked, strict) \/ found = FindIn(x, asked, strict)
  BY <1>1
<1>3. \A f \in {t, x} :
        LET found == FindIn(f, asked, strict)
        IN  /\ found.found => Matches(found.route, asked)
            /\ (\E i \in 1 .. Len(rs) : IsStatic(rs[i]) /\ Matches(rs[i], asked)
                                        /\ rs[i].slash = asked.slash)
                  => found.found /\ IsStatic(found.route)
  BY FoundMatches, Zenon DEF t, x
<1>4. t \in {t, x} /\ x \in {t, x}
  OBVIOUS
<1>5. RouteMatchesRequest(rs, asked, R)
  BY <1>2, <1>3, <1>4, Zenon DEF RouteMatchesRequest
<1> QED
  BY <1>5 DEF R

---------------------------------------------------------------------------
(* Nothing is found only where nothing may be *)

\* A route without the templates that hide it: what lies beside a variable is hidden by it.
LEMMA BesideShadows ==
    ASSUME NEW asked \in Addressed(Int), NEW r \in Addressed(Segments), Matches(r, asked),
           NEW rs \in Seq(Addressed(Segments)), NEW s \in ToSet(rs), s.verb = r.verb,
           NEW n \in 0 .. Len(asked.path), n < Len(asked.path), r.path[n + 1].var,
           Beside(s, r, n, asked.path)
    PROVE  Shadowed(rs, r, asked)
<1> DEFINE path == asked.path
           i == n + 1
<1>1. /\ path \in Seq(Int) /\ Len(path) \in Nat /\ n \in Nat /\ i \in 1 .. Len(path)
      /\ i - 1 = n
  <2>1. path \in Seq(Int) /\ Len(path) \in Nat
    BY RouteParts
  <2> QED
    BY <2>1
<1>2. r.path \in Seq(Segments) /\ Len(r.path) = Len(path) /\ n \in 0 .. Len(r.path)
  BY <1>1, RouteParts, Zenon DEF Matches
<1>3. s \in Addressed(Segments) /\ \E k \in 1 .. Len(rs) : rs[k] = s
  BY DEF ToSet
<1>4. s.path \in Seq(Segments) /\ Len(s.path) \in Nat
  BY <1>3, RouteParts
<1>5. Len(s.path) >= i /\ n \in 0 .. Len(s.path) /\ Spells(s.path[i], path[i])
      /\ Prefix(s.path, n) = Prefix(r.path, n)
  BY <1>1, <1>4 DEF Beside
<1>6. \A j \in 1 .. i - 1 : r.path[j] = s.path[j]
  <2>1. \A j \in 1 .. n : Prefix(s.path, n)[j] = s.path[j] /\ Prefix(r.path, n)[j] = r.path[j]
    BY <1>2, <1>4, <1>5, PrefixIs, Zenon
  <2> QED
    BY <2>1, <1>1, <1>5
<1>7. PICK k \in 1 .. Len(rs) : rs[k] = s
  BY <1>3
<1>8. r.path[i].var /\ s.verb = r.verb
  OBVIOUS
<1> HIDE DEF i
<1> QED
  BY <1>1, <1>5, <1>6, <1>7, <1>8, Zenon DEF Shadowed

\* What matches and has variables is a template that a trie, or a regular expression, fits.
LEMMA TemplateFits ==
    ASSUME NEW rs \in Seq(Addressed(Segments)), NEW asked \in Addressed(Int),
           NEW r \in ToSet(rs), HasVariables(r), Matches(r, asked)
    PROVE  /\ r \in ToSet(TrieOf(rs, asked.verb)) /\ FitsFrom(r.path, asked.path, 0)
           /\ r \in Fitting(rs, asked.verb, asked.path, TRUE, FALSE)
<1>1. r.verb = asked.verb /\ FitsFrom(r.path, asked.path, 0)
  BY MatchesIs, Zenon
<1>2. r \in ToSet(TrieOf(rs, asked.verb))
  BY <1>1, TrieElements, Zenon
<1>3. r \in ToSet(Templates(rs))
  BY TemplatesAre
<1>4. RegExpMatches(r, asked.verb, asked.path, TRUE, FALSE)
  BY MatchesIs, Zenon
<1> QED
  BY <1>1, <1>2, <1>3, <1>4, Zenon DEF Fitting

\* TrieRouter and RegExpRouter find something where a route matches, the former if a route
\* that matches is not shadowed.
LEMMA RoutesFound ==
    ASSUME NEW rs \in Seq(Addressed(Segments)), NEW asked \in Addressed(Int)
    PROVE  NotFoundOnlyIf(rs, asked, Results(rs, asked, FALSE))
<1> DEFINE R == Results(rs, asked, FALSE)
           t == TrieSides(rs, asked, FALSE)
           x == RegExpSides(rs, asked, FALSE)
           verb == asked.verb
           path == asked.path
<1>1. R.trie = FindIn(t, asked, FALSE) /\ R.regExp = FindIn(x, asked, FALSE)
  BY DEF Results, TrieFind, RegExpFind, TrieSides, RegExpSides
<1>2. path \in Seq(Int) /\ Len(path) \in Nat
  BY RouteParts
<1>3. /\ t[TRUE] = TrieFindRoute(rs, verb, path, TRUE, FALSE)
      /\ x[TRUE] = RegExpFindRoute(rs, verb, path, TRUE, FALSE)
  BY DEF TrieSides, RegExpSides
<1> HIDE DEF R, t, x
<1>4. \A slash \in BOOLEAN : Sought(t[slash], rs, asked, slash)
                             /\ Sought(x[slash], rs, asked, slash)
  <2>1. t \in {t, x} /\ x \in {t, x}
    OBVIOUS
  <2> QED
    BY <2>1, SidesSought, Zenon DEF t, x
<1>5. \A slash \in BOOLEAN : t[slash].found \in BOOLEAN /\ x[slash].found \in BOOLEAN
  BY <1>4, Zenon DEF Sought
<1>6. FALSE \in BOOLEAN /\ TRUE \in BOOLEAN
  OBVIOUS
<1>7. \A slash \in BOOLEAN : (path = <<>> => slash) =>
         /\ t[slash].found => R.trie.found
         /\ x[slash].found => R.regExp.found
  <2>1. ASSUME NEW f, \A slash \in BOOLEAN : f[slash].found \in BOOLEAN
        PROVE  \A slash \in BOOLEAN :
                  f[slash].found /\ (asked.path = <<>> => slash)
                     => FindIn(f, asked, FALSE).found
    BY <1>6, <2>1, FindInIs, Zenon
  <2>2. \A slash \in BOOLEAN : t[slash].found /\ (path = <<>> => slash)
                                => FindIn(t, asked, FALSE).found
    BY <1>5, <2>1, Zenon
  <2>3. \A slash \in BOOLEAN : x[slash].found /\ (path = <<>> => slash)
                                => FindIn(x, asked, FALSE).found
    BY <1>5, <2>1, Zenon
  <2> QED
    BY <1>1, <2>2, <2>3, Zenon
<1>8. ASSUME NEW i \in 1 .. Len(rs), Matches(rs[i], asked), IsStatic(rs[i])
      PROVE  R.trie.found /\ R.regExp.found
  <2> DEFINE r == rs[i]
  <2>1. r \in ToSet(rs) /\ r \in Addressed(Segments)
    BY ElementOf
  <2>2. r = StaticRoute(verb, path, r.slash) /\ r.slash \in BOOLEAN
    BY <1>8, <2>1, StaticMatches, RouteParts, Zenon
  <2>3. path = <<>> => r.slash
    <3>1. Len(r.path) = Len(path) /\ r.path \in Seq(Segments) /\ (r.path = <<>> => r.slash)
      BY <1>8, <2>1, RouteParts, Zenon DEF Matches
    <3> QED
      BY <3>1
  <2>4. t[r.slash].found /\ x[r.slash].found
    BY <1>4, <2>1, <2>2, Zenon DEF Sought
  <2> QED
    BY <1>7, <2>2, <2>3, <2>4, Zenon
<1>9. ASSUME NEW i \in 1 .. Len(rs), Matches(rs[i], asked), HasVariables(rs[i])
      PROVE  /\ R.regExp.found
             /\ ~Shadowed(Templates(rs), rs[i], asked) => R.trie.found
  <2> DEFINE r == rs[i]
             st == StaticRoute(verb, path, TRUE)
  <2>1. r \in ToSet(rs) /\ r \in Addressed(Segments)
    BY ElementOf
  <2>2. /\ r \in ToSet(TrieOf(rs, verb)) /\ FitsFrom(r.path, path, 0)
        /\ r \in Fitting(rs, verb, path, TRUE, FALSE)
    BY <1>9, <2>1, TemplateFits, Zenon
  <2>3. CASE st \in ToSet(rs)
    <3>1. t[TRUE].found /\ x[TRUE].found
      BY <1>4, <1>6, <2>3, Zenon DEF Sought
    <3> QED
      BY <1>6, <1>7, <3>1, Zenon
  <2>4. CASE st \notin ToSet(rs)
    <3>1. t[TRUE] = TrieMatch(TrieOf(rs, verb), path)
          /\ RegExpFinds(x[TRUE], rs, verb, path, TRUE, FALSE)
      BY <1>3, <1>6, <2>4, StaticFirst, Zenon
    <3>2. x[TRUE].found
      <4>1. Fitting(rs, verb, path, TRUE, FALSE) # {}
        BY <2>2
      <4>2. \E q : x[TRUE] = Found(q, BuildPathParams(q, path))
        BY <3>1, <4>1, Zenon DEF RegExpFinds
      <4> QED
        BY <4>2 DEF Found
    <3>3. ASSUME ~Shadowed(Templates(rs), r, asked) PROVE t[TRUE].found
      <4>1. Templates(rs) \in Seq(Addressed(Segments))
        BY TemplatesAre, Zenon
      <4>2. \A s \in ToSet(TrieOf(rs, verb)) : s \in ToSet(Templates(rs)) /\ s.verb = r.verb
        <5>1. \A s \in ToSet(TrieOf(rs, verb)) : s \in ToSet(rs) /\ HasVariables(s) /\ s.verb = verb
          BY TrieElements, Zenon
        <5>2. r.verb = verb
          BY <5>1, <2>2
        <5>3. Templates(rs) \in Seq(Addressed(Segments))
              /\ ToSet(Templates(rs)) = {q \in ToSet(rs) : HasVariables(q)}
          BY TemplatesAre, Zenon
        <5> QED
          BY <5>1, <5>2, <5>3
      <4>3. \A n \in 0 .. Len(path) : (n < Len(path) /\ r.path[n + 1].var) =>
               ~\E s \in ToSet(TrieOf(rs, verb)) : Beside(s, r, n, path)
        BY <1>9, <2>1, <3>3, <4>1, <4>2, BesideShadows, Zenon
      <4>4. TrieMatch(TrieOf(rs, verb), path).found
        BY <1>2, <2>2, <4>3, TrieFindsTemplate, Zenon
      <4> QED
        BY <3>1, <4>4, Zenon
    <3> QED
      BY <1>6, <1>7, <3>2, <3>3, Zenon
  <2> QED
    BY <2>3, <2>4, Zenon
<1>10. NotFoundOnlyIf(rs, asked, R)
  <2> DEFINE M == {i \in 1 .. Len(rs) : Matches(rs[i], asked)}
  <2>1. M # {} => R.regExp.found
    BY <1>8, <1>9, Zenon DEF IsStatic
  <2>2. (\E i \in M : IsStatic(rs[i]) \/ ~Shadowed(Templates(rs), rs[i], asked)) => R.trie.found
    <3> SUFFICES ASSUME NEW i \in M, IsStatic(rs[i]) \/ ~Shadowed(Templates(rs), rs[i], asked)
                 PROVE  R.trie.found
      OBVIOUS
    <3>1. i \in 1 .. Len(rs) /\ Matches(rs[i], asked)
      OBVIOUS
    <3> QED
      BY <3>1, <1>8, <1>9, Zenon DEF IsStatic
  <2> QED
    BY <2>1, <2>2, Zenon DEF NotFoundOnlyIf
<1> QED
  BY <1>10 DEF R

---------------------------------------------------------------------------
(* The order of routes *)

\* The elements of a sequence in any order are its elements.
LEMMA ReorderedIs ==
    ASSUME NEW T, NEW rs \in Seq(T)
    PROVE  SetToSeq(ToSet(rs)) \in Seq(T) /\ ToSet(SetToSeq(ToSet(rs))) = ToSet(rs)
<1>1. Len(rs) \in Nat /\ rs \in [1 .. Len(rs) -> T] /\ DOMAIN rs = 1 .. Len(rs)
  OBVIOUS
<1>2. rs \in Surjection(1 .. Len(rs), ToSet(rs)) /\ ToSet(rs) \subseteq T
  BY <1>1 DEF Surjection, ToSet
<1>3. IsFiniteSet(ToSet(rs))
  BY <1>1, <1>2, FiniteInterval, FS_Surjection
<1>4. SetToSeq(ToSet(rs)) \in Seq(ToSet(rs)) /\ ToSet(SetToSeq(ToSet(rs))) = ToSet(rs)
  BY <1>3, SetAsSequence
<1> QED
  BY <1>2, <1>4

\* A template of S that matches, and no other that does comes before it.
Foremost(r, S, asked) ==
    /\ r \in S /\ HasVariables(r) /\ Matches(r, asked)
    /\ \A s \in S : HasVariables(s) /\ Matches(s, asked) => ~Lower(s.path, r.path)

\* What is found among the routes of S, whatever their order.
Settled(x, S, asked, slash) ==
    LET st == StaticRoute(asked.verb, asked.path, slash)
    IN  \/ st \in S /\ x.found = TRUE /\ x.route = st
        \/ /\ st \notin S /\ x.found = FALSE /\ x.route = NotFound.route
           /\ \A r \in S : ~(HasVariables(r) /\ Matches(r, asked))
        \/ st \notin S /\ x.found = TRUE /\ Foremost(x.route, S, asked)

\* Variables in one place, below the same segments, are one.
SameVariables(S) ==
    \A r, s \in S : \A n \in 0 .. Len(r.path) :
        (/\ HasVariables(r) /\ HasVariables(s) /\ r.verb = s.verb
         /\ n < Len(r.path) /\ n < Len(s.path) /\ Prefix(r.path, n) = Prefix(s.path, n)
         /\ r.path[n + 1].var /\ s.path[n + 1].var) => r.path[n + 1] = s.path[n + 1]
\* No template ends in a slash.
NoSlash(S) == \A r \in S : HasVariables(r) => r.slash = FALSE

\* Where the names in a sequence of templates agree they do so in the set of routes.
LEMMA SameVariablesIs ==
    ASSUME NEW rs \in Seq(Addressed(Segments)), NamesAgree(Templates(rs))
    PROVE  SameVariables(ToSet(rs))
<1> DEFINE ts == Templates(rs)
<1>1. ts \in Seq(Addressed(Segments)) /\ ToSet(ts) = {r \in ToSet(rs) : HasVariables(r)}
  BY TemplatesAre, Zenon
<1> HIDE DEF ts
<1>2. \A r \in ToSet(rs) : HasVariables(r) => \E i \in 1 .. Len(ts) : ts[i] = r
  <2>1. DOMAIN ts = 1 .. Len(ts) /\ \A r \in ToSet(rs) : HasVariables(r) => r \in ToSet(ts)
    BY <1>1
  <2> QED
    BY <2>1, Zenon DEF ToSet
<1>3. ASSUME NEW r \in ToSet(rs), NEW s \in ToSet(rs), NEW n \in 0 .. Len(r.path),
             HasVariables(r), HasVariables(s), r.verb = s.verb,
             n < Len(r.path), n < Len(s.path), Prefix(r.path, n) = Prefix(s.path, n),
             r.path[n + 1].var, s.path[n + 1].var
      PROVE  r.path[n + 1] = s.path[n + 1]
  <2>1. PICK i \in 1 .. Len(ts) : ts[i] = r
    BY <1>2, <1>3
  <2>2. PICK j \in 1 .. Len(ts) : ts[j] = s
    BY <1>2, <1>3
  <2>3. r \in Addressed(Segments) /\ s \in Addressed(Segments)
    BY DEF ToSet
  <2>4. Len(r.path) \in Nat /\ Len(s.path) \in Nat
    BY <2>3, RouteParts
  <2>5. /\ n + 1 \in 1 .. Len(r.path) /\ n + 1 <= Len(s.path) /\ (n + 1) - 1 = n
    BY <1>3, <2>4
  <2>6. \A m \in 1 .. Len(ts[i].path) :
          (/\ ts[i].verb = ts[j].verb /\ m <= Len(ts[j].path)
           /\ SubSeq(ts[i].path, 1, m - 1) = SubSeq(ts[j].path, 1, m - 1)
           /\ ts[i].path[m].var /\ ts[j].path[m].var) => ts[i].path[m] = ts[j].path[m]
    BY Zenon DEF NamesAgree, ts
  <2>7. SubSeq(r.path, 1, (n + 1) - 1) = SubSeq(s.path, 1, (n + 1) - 1)
    BY <1>3, <2>5, Zenon DEF Prefix
  <2> QED
    BY <2>1, <2>2, <2>5, <2>6, <2>7, <1>3, Zenon
<1> QED
  BY <1>3, Zenon DEF SameVariables

\* Templates with the same tokens and variables that agree are one.
LEMMA TemplateIsOne ==
    ASSUME NEW S \in SUBSET Addressed(Segments), SameVariables(S), NoSlash(S),
           NEW r \in S, NEW s \in S, HasVariables(r), HasVariables(s), r.verb = s.verb,
           Len(r.path) = Len(s.path), SameTokens(r.path, s.path)
    PROVE  r = s
<1> DEFINE p == r.path
           q == s.path
           G == {n \in Nat : n <= Len(p) => Prefix(p, n) = Prefix(q, n)}
<1>1. /\ p \in Seq(Segments) /\ q \in Seq(Segments) /\ Len(p) \in Nat /\ Len(q) = Len(p)
      /\ r = [verb |-> r.verb, path |-> p, slash |-> r.slash]
      /\ s = [verb |-> s.verb, path |-> q, slash |-> s.slash]
  BY RouteParts
<1>2. /\ Prefix(p, 0) = <<>> /\ Prefix(q, 0) = <<>>
      /\ Prefix(p, Len(p)) = p /\ Prefix(q, Len(p)) = q
  <2>1. 0 \in 0 .. Len(p) /\ 0 \in 0 .. Len(q)
    BY <1>1
  <2> QED
    BY <1>1, <2>1, PrefixIs, Zenon
<1>3. 0 \in G
  BY <1>2
<1>4. ASSUME NEW n \in Nat, n \in G PROVE n + 1 \in G
  <2> SUFFICES ASSUME n + 1 <= Len(p) PROVE Prefix(p, n + 1) = Prefix(q, n + 1)
    OBVIOUS
  <2>1. n \in 0 .. Len(p) /\ n \in 0 .. Len(q) /\ n < Len(p) /\ n < Len(q)
        /\ n + 1 \in 1 .. Len(p)
    BY <1>1
  <2>2. Prefix(p, n) = Prefix(q, n)
    BY <1>4, <2>1
  <2>3. /\ p[n + 1] \in Segments /\ q[n + 1] \in Segments
        /\ Prefix(p, n + 1) = Append(Prefix(p, n), p[n + 1])
        /\ Prefix(q, n + 1) = Append(Prefix(q, n), q[n + 1])
    BY <1>1, <2>1, PrefixIs, Zenon
  <2>4. Token(p[n + 1]) = Token(q[n + 1])
    BY <2>1, Zenon DEF SameTokens
  <2>5. \/ p[n + 1].var = TRUE /\ q[n + 1].var = TRUE
        \/ p[n + 1] = q[n + 1]
    BY <2>3, <2>4, TokenIs, Zenon
  <2>6. p[n + 1].var /\ q[n + 1].var => p[n + 1] = q[n + 1]
    BY <2>1, <2>2, Zenon DEF SameVariables
  <2>7. p[n + 1] = q[n + 1]
    BY <2>5, <2>6
  <2> QED
    BY <2>2, <2>3, <2>7, Zenon
<1>5. Nat \subseteq G
  <2> HIDE DEF G
  <2> QED
    BY <1>3, <1>4, Induction
<1>6. p = q
  <2>1. Len(p) \in G
    BY <1>1, <1>5
  <2> QED
    BY <1>1, <1>2, <2>1
<1>7. r.slash = s.slash
  BY Zenon DEF NoSlash
<1> QED
  BY <1>1, <1>6, <1>7, Zenon

\* There is one first of the templates that match, and so one thing to find.
LEMMA SettledOnce ==
    ASSUME NEW S \in SUBSET Addressed(Segments), SameVariables(S), NoSlash(S),
           NEW asked \in Addressed(Int), NEW slash \in BOOLEAN, NEW x, NEW y,
           Settled(x, S, asked, slash), Settled(y, S, asked, slash)
    PROVE  x.found = y.found /\ x.route = y.route
<1>1. ASSUME NEW r, NEW s, Foremost(r, S, asked), Foremost(s, S, asked) PROVE r = s
  <2>1. /\ r \in S /\ s \in S /\ HasVariables(r) /\ HasVariables(s)
        /\ Matches(r, asked) /\ Matches(s, asked)
        /\ ~Lower(r.path, s.path) /\ ~Lower(s.path, r.path)
    BY <1>1, Zenon DEF Foremost
  <2>2. r.verb = s.verb /\ Len(r.path) = Len(s.path)
    BY <2>1, Zenon DEF Matches
  <2>3. r.path \in Seq(Segments) /\ s.path \in Seq(Segments)
    <3>1. r \in Addressed(Segments) /\ s \in Addressed(Segments)
      BY <2>1
    <3> QED
      BY <3>1, RouteParts
  <2>4. SameTokens(r.path, s.path)
    BY <2>1, <2>2, <2>3, LowerOrder, Zenon
  <2> QED
    BY <2>1, <2>2, <2>4, TemplateIsOne, Zenon
<1> DEFINE st == StaticRoute(asked.verb, asked.path, slash)
<1>2. \A z : Foremost(z, S, asked) => z \in S /\ HasVariables(z) /\ Matches(z, asked)
  BY Zenon DEF Foremost
<1> QED
  BY <1>1, <1>2, Zenon DEF Settled

\* A literal only hides templates from requests that its own route matches.
OwnLiterals(S, asked) ==
    \A r, s \in S :
        (/\ HasVariables(r) /\ HasVariables(s) /\ Matches(r, asked)
         /\ Shadowed(<<s>>, r, asked)) => Matches(s, asked)

\* RegExpRouter's templates that match, and the first of them.
LEMMA FittingIs ==
    ASSUME NEW rs \in Seq(Addressed(Segments)), NEW asked \in Addressed(Int),
           NoSlash(ToSet(rs)), NEW slash \in BOOLEAN
    PROVE  /\ \A r : r \in Fitting(rs, asked.verb, asked.path, slash, FALSE) <=>
                        r \in ToSet(rs) /\ HasVariables(r) /\ Matches(r, asked)
           /\ \A r : FirstFitting(r, rs, asked.verb, asked.path, slash, FALSE) =>
                        Foremost(r, ToSet(rs), asked)
<1> DEFINE F == Fitting(rs, asked.verb, asked.path, slash, FALSE)
<1>1. Templates(rs) \in Seq(Addressed(Segments))
      /\ ToSet(Templates(rs)) = {r \in ToSet(rs) : HasVariables(r)}
  BY TemplatesAre, Zenon
<1>2. \A r : r \in F <=> /\ r \in ToSet(rs) /\ HasVariables(r)
                         /\ RegExpMatches(r, asked.verb, asked.path, slash, FALSE)
  BY <1>1 DEF Fitting
<1>3. \A r : r \in F <=> r \in ToSet(rs) /\ HasVariables(r) /\ Matches(r, asked)
  <2>1. \A r : RegExpMatches(r, asked.verb, asked.path, slash, FALSE) <=>
                  Matches(r, asked) /\ (r.slash => slash) /\ (FALSE => r.slash = slash)
    BY MatchesIs, Zenon
  <2> QED
    BY <1>2, <2>1, Zenon DEF NoSlash
<1>4. \A r : FirstFitting(r, rs, asked.verb, asked.path, slash, FALSE) =>
                Foremost(r, ToSet(rs), asked)
  BY <1>3, Zenon DEF FirstFitting, Foremost
<1> QED
  BY <1>3, <1>4, Zenon

\* What RegExpRouter finds is settled by the set of the routes.
LEMMA RegExpSettles ==
    ASSUME NEW rs \in Seq(Addressed(Segments)), NEW asked \in Addressed(Int),
           NoSlash(ToSet(rs)), NEW slash \in BOOLEAN
    PROVE  Settled(RegExpFindRoute(rs, asked.verb, asked.path, slash, FALSE),
                   ToSet(rs), asked, slash)
<1> DEFINE verb == asked.verb
           path == asked.path
           st == StaticRoute(verb, path, slash)
           x == RegExpFindRoute(rs, verb, path, slash, FALSE)
<1>1. \A r, p : /\ Found(r, p).found = TRUE /\ Found(r, p).route = r
                /\ NotFound.found = FALSE
  BY DEF Found, NotFound
<1>2. CASE st \in ToSet(rs)
  <2>1. x = Found(st, <<>>)
    BY <1>2, StaticFirst, Zenon
  <2> QED
    BY <1>1, <1>2, <2>1, Zenon DEF Settled
<1>3. CASE st \notin ToSet(rs)
  <2>1. RegExpFinds(x, rs, verb, path, slash, FALSE)
    BY <1>3, StaticFirst, Zenon
  <2>2. CASE x = NotFound /\ Fitting(rs, verb, path, slash, FALSE) = {}
    <3>1. \A r : r \notin Fitting(rs, verb, path, slash, FALSE)
      BY <2>2
    <3>2. \A r \in ToSet(rs) : ~(HasVariables(r) /\ Matches(r, asked))
      BY <3>1, FittingIs, Zenon
    <3> QED
      BY <1>1, <1>3, <2>2, <3>2, Zenon DEF Settled
  <2>3. ASSUME NEW r, FirstFitting(r, rs, verb, path, slash, FALSE),
               x = Found(r, BuildPathParams(r, path))
        PROVE  Settled(x, ToSet(rs), asked, slash)
    <3>1. Foremost(r, ToSet(rs), asked)
      BY <2>3, FittingIs, Zenon
    <3>2. x.found = TRUE /\ x.route = r
      BY <1>1, <2>3
    <3> QED
      BY <1>3, <3>1, <3>2, Zenon DEF Settled
  <2> QED
    BY <2>1, <2>2, <2>3, Zenon DEF RegExpFinds
<1> QED
  BY <1>2, <1>3

\* A literal beside the first of the templates that match would be that of one before it.
LEMMA NoneBeside ==
    ASSUME NEW S \in SUBSET Addressed(Segments), NEW asked \in Addressed(Int),
           OwnLiterals(S, asked), NEW r, Foremost(r, S, asked),
           NEW s \in S, HasVariables(s), s.verb = r.verb,
           NEW n \in 0 .. Len(asked.path), n < Len(asked.path), r.path[n + 1].var
    PROVE  ~Beside(s, r, n, asked.path)
<1> SUFFICES ASSUME Beside(s, r, n, asked.path) PROVE FALSE
  OBVIOUS
<1> DEFINE path == asked.path
           i == n + 1
<1>1. /\ r \in S /\ r \in Addressed(Segments) /\ s \in Addressed(Segments)
      /\ HasVariables(r) /\ Matches(r, asked)
      /\ \A q \in S : HasVariables(q) /\ Matches(q, asked) => ~Lower(q.path, r.path)
  BY DEF Foremost
<1>2. <<s>> \in Seq(Addressed(Segments)) /\ s \in ToSet(<<s>>)
  BY <1>1 DEF ToSet
<1>3. Shadowed(<<s>>, r, asked)
  <2>1. PICK ss : ss = <<s>>
    OBVIOUS
  <2>2. ss \in Seq(Addressed(Segments)) /\ s \in ToSet(ss)
    BY <1>2, <2>1, Zenon
  <2>3. Shadowed(ss, r, asked)
    BY <1>1, <2>2, BesideShadows, Zenon
  <2> QED
    BY <2>1, <2>3, Zenon
<1>4. Matches(s, asked)
  BY <1>1, <1>3, Zenon DEF OwnLiterals
<1>5. /\ r.path \in Seq(Segments) /\ s.path \in Seq(Segments) /\ Len(path) \in Nat
      /\ Len(r.path) = Len(path) /\ Len(s.path) = Len(path)
  BY <1>1, <1>4, RouteParts, Zenon DEF Matches
<1>6. i \in 1 .. Len(s.path) /\ i - 1 = n /\ n \in 0 .. Len(s.path) /\ n \in 0 .. Len(r.path)
      /\ r.path[i] \in Segments /\ s.path[i] \in Segments
  BY <1>5
<1>7. Spells(s.path[i], path[i]) /\ Prefix(s.path, n) = Prefix(r.path, n) /\ r.path[i].var
  BY Zenon DEF Beside
<1>8. Token(s.path[i]) < Token(r.path[i])
  <2>1. \A t \in Segments : t.var = TRUE \/ t.var = FALSE
    BY SegmentIs, Zenon
  <2>2. s.path[i].var = FALSE /\ r.path[i].var = TRUE
    BY <1>6, <1>7, <2>1, Zenon DEF Spells
  <2> QED
    BY <1>6, <2>2, TokenIs, Zenon
<1>9. \A j \in 1 .. i - 1 : Token(s.path[j]) = Token(r.path[j])
  <2>1. \A j \in 1 .. n : Prefix(s.path, n)[j] = s.path[j] /\ Prefix(r.path, n)[j] = r.path[j]
    BY <1>5, <1>6, PrefixIs, Zenon
  <2> QED
    BY <2>1, <1>6, <1>7, Zenon
<1> HIDE DEF i
<1>10. Lower(s.path, r.path)
  BY <1>6, <1>8, <1>9, Zenon DEF Lower
<1> QED
  BY <1>1, <1>4, <1>10, Zenon

\* So is what TrieRouter finds, where variables agree and literals only hide what their own
\* routes match.
LEMMA TrieSettles ==
    ASSUME NEW rs \in Seq(Addressed(Segments)), NEW asked \in Addressed(Int),
           SameVariables(ToSet(rs)), NoSlash(ToSet(rs)), OwnLiterals(ToSet(rs), asked),
           NEW slash \in BOOLEAN
    PROVE  Settled(TrieFindRoute(rs, asked.verb, asked.path, slash, FALSE),
                   ToSet(rs), asked, slash)
<1> DEFINE verb == asked.verb
           path == asked.path
           S == ToSet(rs)
           st == StaticRoute(verb, path, slash)
           x == TrieFindRoute(rs, verb, path, slash, FALSE)
           trie == TrieOf(rs, verb)
<1>1. \A r, p : /\ Found(r, p).found = TRUE /\ Found(r, p).route = r
                /\ NotFound.found = FALSE
  BY DEF Found, NotFound
<1>2. path \in Seq(Int) /\ Len(path) \in Nat
  BY RouteParts
<1>3. S \in SUBSET Addressed(Segments)
  BY DEF ToSet
<1>4. \A r : r \in ToSet(trie) <=> r \in S /\ HasVariables(r) /\ r.verb = verb
  BY TrieElements, Zenon
<1>5. CASE st \in S
  <2>1. x = Found(st, <<>>)
    BY <1>5, StaticFirst, Zenon
  <2> QED
    BY <1>1, <1>5, <2>1, Zenon DEF Settled
<1>6. CASE st \notin S
  <2>1. x = TrieMatch(trie, path)
    BY <1>6, StaticFirst, Zenon
  <2>2. TrieFinds(x, rs, verb, path)
    BY <1>2, <2>1, TrieMatchIs, Zenon
  <2>3. x = NotFound \/ \E r \in S : /\ x.found = TRUE /\ x.route = r
                                     /\ HasVariables(r) /\ r.verb = verb
    <3>1. CASE x # NotFound
      <4>1. PICK r \in ToSet(trie) : x = Found(r, TrieParams(r.path, path))
        BY <2>2, <3>1, Zenon DEF TrieFinds
      <4> HIDE DEF x
      <4>2. x.found = TRUE /\ x.route = r
        BY <1>1, <4>1
      <4>3. r \in S /\ HasVariables(r) /\ r.verb = verb
        BY <1>4
      <4> QED
        BY <4>2, <4>3, Zenon
    <3> QED
      BY <3>1, Zenon
  <2>4. CASE \A r \in S : ~(HasVariables(r) /\ Matches(r, asked))
    <3>1. x = NotFound
      <4> SUFFICES ASSUME x # NotFound PROVE FALSE
        OBVIOUS
      <4>1. PICK r \in ToSet(trie) :
              x = Found(r, TrieParams(r.path, path)) /\ FitsFrom(r.path, path, 0)
        BY <2>2, Zenon DEF TrieFinds
      <4>2. Matches(r, asked)
        BY <1>4, <4>1, MatchesIs, Zenon
      <4> QED
        BY <1>4, <2>4, <4>2, Zenon
    <3> QED
      BY <1>1, <1>6, <2>4, <3>1, Zenon DEF Settled
  <2>5. CASE \E r \in S : HasVariables(r) /\ Matches(r, asked)
    <3>1. PICK r : Foremost(r, S, asked)
      <4> DEFINE y == RegExpFindRoute(rs, verb, path, slash, FALSE)
      <4>1. RegExpFinds(y, rs, verb, path, slash, FALSE)
        BY <1>6, StaticFirst, Zenon
      <4>2. Fitting(rs, verb, path, slash, FALSE) # {}
        <5>1. \E q : q \in Fitting(rs, verb, path, slash, FALSE)
          BY <2>5, FittingIs, Zenon
        <5> QED
          BY <5>1
      <4>3. \E q : FirstFitting(q, rs, verb, path, slash, FALSE)
        BY <4>1, <4>2, Zenon DEF RegExpFinds
      <4> QED
        BY <4>3, FittingIs, Zenon
    <3>2. r \in S /\ HasVariables(r) /\ Matches(r, asked)
      BY <3>1, Zenon DEF Foremost
    <3>3. r \in ToSet(trie) /\ FitsFrom(r.path, path, 0) /\ r.verb = verb
      BY <3>2, <1>4, MatchesIs, Zenon
    <3>4. \A n \in 0 .. Len(path) : (n < Len(path) /\ r.path[n + 1].var) =>
             ~\E s \in ToSet(trie) : Beside(s, r, n, path)
      <4> SUFFICES ASSUME NEW n \in 0 .. Len(path), n < Len(path), r.path[n + 1].var,
                          NEW s \in ToSet(trie)
                   PROVE  ~Beside(s, r, n, path)
        OBVIOUS
      <4>1. s \in S /\ HasVariables(s) /\ s.verb = r.verb
        BY <1>4, <3>3
      <4> QED
        BY <1>3, <3>1, <4>1, NoneBeside, Zenon
    <3>5. \A n \in 0 .. Len(path) : n < Len(path) => AgreesWith(trie, r, n)
      <4> SUFFICES ASSUME NEW n \in 0 .. Len(path), n < Len(path), NEW s \in ToSet(trie),
                          Len(s.path) > n, Prefix(s.path, n) = Prefix(r.path, n),
                          s.path[n + 1].var, r.path[n + 1].var
                   PROVE  s.path[n + 1] = r.path[n + 1]
        BY Zenon DEF AgreesWith
      <4>1. s \in S /\ HasVariables(s) /\ r.verb = s.verb
        BY <1>4, <3>3
      <4>2. Len(r.path) = Len(path) /\ Len(s.path) \in Nat
        <5>1. s \in Addressed(Segments)
          BY <1>3, <4>1
        <5> QED
          BY <3>3, <5>1, RouteParts, Zenon DEF FitsFrom
      <4>3. n < Len(r.path) /\ n < Len(s.path) /\ n \in 0 .. Len(r.path)
        BY <1>2, <4>2
      <4> QED
        BY <3>2, <4>1, <4>3, Zenon DEF SameVariables
    <3>6. x.found /\ x.route.path = r.path
      <4> DEFINE alone == \A n \in 0 .. Len(path) : n < Len(path) => AgreesWith(trie, r, n)
      <4>1. LET found == TrieMatch(trie, path)
            IN  found.found /\ (alone => found.route.path = r.path)
        BY <1>2, <3>3, <3>4, TrieFindsTemplate
      <4>2. alone
        BY <3>5
      <4> HIDE DEF alone
      <4> QED
        BY <2>1, <4>1, <4>2, Zenon
    <3>7. PICK q \in S : x.found = TRUE /\ x.route = q /\ HasVariables(q) /\ q.verb = verb
      BY <1>1, <2>3, <3>6, Zenon
    <3>8. q = r
      <4>1. /\ q \in Addressed(Segments) /\ r \in Addressed(Segments)
            /\ q = [verb |-> q.verb, path |-> q.path, slash |-> q.slash]
            /\ r = [verb |-> r.verb, path |-> r.path, slash |-> r.slash]
        BY <1>3, <3>2, RouteParts
      <4>2. q.slash = r.slash
        BY <3>2, <3>7, Zenon DEF NoSlash
      <4> QED
        BY <3>3, <3>6, <3>7, <4>1, <4>2, Zenon
    <3> QED
      BY <1>6, <3>1, <3>7, <3>8, Zenon DEF Settled
  <2> QED
    BY <2>4, <2>5, Zenon
<1> QED
  BY <1>5, <1>6

\* find() makes the same of what is the same for both kinds of path.
LEMMA FindInAgrees ==
    ASSUME NEW f, NEW g, NEW asked \in Addressed(Int),
           \A slash \in BOOLEAN : f[slash].found = g[slash].found /\ f[slash].route = g[slash].route
    PROVE  /\ FindIn(f, asked, FALSE).found = FindIn(g, asked, FALSE).found
           /\ FindIn(f, asked, FALSE).route = FindIn(g, asked, FALSE).route
<1> DEFINE e == asked.slash
<1>1. e \in BOOLEAN /\ (~e) \in BOOLEAN
  BY RouteParts
<1>2. \A h : FindIn(h, asked, FALSE) =
               IF h[e].found \/ asked.path = <<>> THEN h[e] ELSE h[~e]
  BY Zenon DEF FindIn
<1>3. /\ f[e].found = g[e].found /\ f[e].route = g[e].route
      /\ f[~e].found = g[~e].found /\ f[~e].route = g[~e].route
  BY <1>1, Zenon
<1>4. CASE f[e].found \/ asked.path = <<>>
  <2>1. FindIn(f, asked, FALSE) = f[e]
    BY <1>2, <1>4, Zenon
  <2>2. FindIn(g, asked, FALSE) = g[e]
    BY <1>2, <1>3, <1>4, Zenon
  <2> QED
    BY <2>1, <2>2, <1>3, Zenon
<1>5. CASE ~(f[e].found \/ asked.path = <<>>)
  <2>1. FindIn(f, asked, FALSE) = f[~e]
    BY <1>2, <1>5, Zenon
  <2>2. FindIn(g, asked, FALSE) = g[~e]
    BY <1>2, <1>3, <1>5, Zenon
  <2> QED
    BY <2>1, <2>2, <1>3, Zenon
<1> QED
  BY <1>4, <1>5

\* TrieRouter and RegExpRouter find the same route whatever the order of the routes, where
\* the templates are such that their order is all that could matter.
LEMMA RoutesOrdered ==
    ASSUME NEW rs \in Seq(Addressed(Segments)), NEW asked \in Addressed(Int)
    PROVE  OrderIrrelevant(rs, asked, Results(rs, asked, FALSE))
<1> DEFINE R == Results(rs, asked, FALSE)
           S == ToSet(rs)
           ts == Templates(rs)
           other == SetToSeq(S)
           t == TrieSides(rs, asked, FALSE)
           x == RegExpSides(rs, asked, FALSE)
           y == RegExpSides(other, asked, FALSE)
           found == RegExpFind(other, asked, FALSE)
           Settles(f) == \A slash \in BOOLEAN : Settled(f[slash], S, asked, slash)
<1> SUFFICES ASSUME NamesAgree(ts),
                    \A i \in 1 .. Len(ts) :
                       /\ ~ts[i].slash
                       /\ Matches(ts[i], asked) =>
                             \A j \in 1 .. Len(ts) :
                                 Shadowed(<<ts[j]>>, ts[i], asked) => Matches(ts[j], asked)
             PROVE  \A same \in {R.regExp, R.trie} :
                       same.found = found.found /\ same.route = found.route
  BY Zenon DEF OrderIrrelevant
<1>1. R.trie = FindIn(t, asked, FALSE) /\ R.regExp = FindIn(x, asked, FALSE)
  BY DEF Results, TrieFind, RegExpFind, TrieSides, RegExpSides
<1>2. found = FindIn(y, asked, FALSE)
  BY Zenon DEF RegExpFind, RegExpSides
<1>3. other \in Seq(Addressed(Segments)) /\ ToSet(other) = S
  BY ReorderedIs, Zenon
<1>4. S \in SUBSET Addressed(Segments)
  BY DEF ToSet
<1>5. \A r \in S : HasVariables(r) => \E i \in 1 .. Len(ts) : ts[i] = r
  <2>1. ts \in Seq(Addressed(Segments)) /\ ToSet(ts) = {r \in ToSet(rs) : HasVariables(r)}
    BY TemplatesAre, Zenon
  <2> HIDE DEF ts
  <2>2. DOMAIN ts = 1 .. Len(ts) /\ \A r \in S : HasVariables(r) => r \in ToSet(ts)
    BY <2>1
  <2> QED
    BY <2>2, Zenon DEF ToSet
<1>6. SameVariables(S)
  BY SameVariablesIs, Zenon
<1>7. NoSlash(S)
  <2> SUFFICES ASSUME NEW r \in S, HasVariables(r) PROVE r.slash = FALSE
    BY Zenon DEF NoSlash
  <2>1. ~r.slash
    BY <1>5, Zenon
  <2>2. r \in Addressed(Segments)
    BY <1>4
  <2>3. r.slash \in BOOLEAN
    BY <2>2, RouteParts
  <2> QED
    BY <2>1, <2>3
<1>8. OwnLiterals(S, asked)
  BY <1>5, Zenon DEF OwnLiterals
<1>9. Settles(t)
  <2> SUFFICES ASSUME NEW slash \in BOOLEAN PROVE Settled(t[slash], S, asked, slash)
    OBVIOUS
  <2>1. t[slash] = TrieFindRoute(rs, asked.verb, asked.path, slash, FALSE)
    BY DEF TrieSides
  <2> QED
    BY <2>1, <1>6, <1>7, <1>8, TrieSettles, Zenon
<1>10. Settles(x)
  <2> SUFFICES ASSUME NEW slash \in BOOLEAN PROVE Settled(x[slash], S, asked, slash)
    OBVIOUS
  <2>1. x[slash] = RegExpFindRoute(rs, asked.verb, asked.path, slash, FALSE)
    BY DEF RegExpSides
  <2> QED
    BY <2>1, <1>7, RegExpSettles, Zenon
<1>11. Settles(y)
  <2> SUFFICES ASSUME NEW slash \in BOOLEAN PROVE Settled(y[slash], S, asked, slash)
    OBVIOUS
  <2> HIDE DEF other, S
  <2>1. y[slash] = RegExpFindRoute(other, asked.verb, asked.path, slash, FALSE)
    BY DEF RegExpSides
  <2>2. NoSlash(ToSet(other))
    BY <1>3, <1>7, Zenon
  <2>3. Settled(RegExpFindRoute(other, asked.verb, asked.path, slash, FALSE),
                ToSet(other), asked, slash)
    BY <1>3, <2>2, RegExpSettles, Zenon
  <2> QED
    BY <2>1, <2>3, <1>3, Zenon
<1> HIDE DEF R, S, ts, other, t, x, y, found
<1>12. ASSUME NEW f, Settles(f)
       PROVE  \A slash \in BOOLEAN : f[slash].found = y[slash].found /\ f[slash].route = y[slash].route
  <2> SUFFICES ASSUME NEW slash \in BOOLEAN
               PROVE  f[slash].found = y[slash].found /\ f[slash].route = y[slash].route
    OBVIOUS
  <2>1. Settled(f[slash], S, asked, slash) /\ Settled(y[slash], S, asked, slash)
    BY <1>11, <1>12
  <2> QED
    BY <1>4, <1>6, <1>7, <2>1, SettledOnce
<1>13. /\ FindIn(t, asked, FALSE).found = FindIn(y, asked, FALSE).found
       /\ FindIn(t, asked, FALSE).route = FindIn(y, asked, FALSE).route
  BY <1>9, <1>12, FindInAgrees, Zenon
<1>14. /\ FindIn(x, asked, FALSE).found = FindIn(y, asked, FALSE).found
       /\ FindIn(x, asked, FALSE).route = FindIn(y, asked, FALSE).route
  BY <1>10, <1>12, FindInAgrees, Zenon
<1>15. /\ R.trie.found = found.found /\ R.trie.route = found.route
       /\ R.regExp.found = found.found /\ R.regExp.route = found.route
  BY <1>1, <1>2, <1>13, <1>14, Zenon
<1> QED
  BY <1>15

---------------------------------------------------------------------------
(* The values of parameters *)

\* What is found has the value of each place under the name of its variable: decoded from
\* a trie, as it comes from a regular expression.
LEMMA ParamsPlaced ==
    ASSUME NEW rs \in Seq(Addressed(Segments)), NEW asked \in Addressed(Int)
    PROVE  ParamsOfPlaces(asked, Results(rs, asked, FALSE))
<1> DEFINE R == Results(rs, asked, FALSE)
           verb == asked.verb
           path == asked.path
           t == TrieSides(rs, asked, FALSE)
           x == RegExpSides(rs, asked, FALSE)
           decoded == [i \in 1 .. Len(path) |-> Decode(path[i])]
<1>1. R.trie = FindIn(t, asked, FALSE) /\ R.regExp = FindIn(x, asked, FALSE)
  BY DEF Results, TrieFind, RegExpFind, TrieSides, RegExpSides
<1>2. path \in Seq(Int) /\ Len(path) \in Nat
  BY RouteParts
<1>3. \A slash \in BOOLEAN :
        /\ t[slash] = TrieFindRoute(rs, verb, path, slash, FALSE)
        /\ x[slash] = RegExpFindRoute(rs, verb, path, slash, FALSE)
  BY DEF TrieSides, RegExpSides
<1>4. \A slash \in BOOLEAN : t[slash].found \in BOOLEAN /\ x[slash].found \in BOOLEAN
  <2>1. t \in {t, x} /\ x \in {t, x}
    OBVIOUS
  <2>2. \A slash \in BOOLEAN : Sought(t[slash], rs, asked, slash)
                               /\ Sought(x[slash], rs, asked, slash)
    BY <2>1, SidesSought, Zenon
  <2> QED
    BY <2>2, Zenon DEF Sought
<1> HIDE DEF R, t, x
<1>5. /\ \E slash \in BOOLEAN : R.trie = t[slash]
      /\ \E slash \in BOOLEAN : R.regExp = x[slash]
  <2>1. FALSE \in BOOLEAN
    OBVIOUS
  <2> QED
    <3>1. ASSUME NEW f, \A slash \in BOOLEAN : f[slash].found \in BOOLEAN
          PROVE  \E slash \in BOOLEAN : FindIn(f, asked, FALSE) = f[slash]
      BY <2>1, <3>1, FindInIs, Zenon
    <3>2. \E slash \in BOOLEAN : FindIn(t, asked, FALSE) = t[slash]
      BY <1>4, <3>1, Zenon
    <3>3. \E slash \in BOOLEAN : FindIn(x, asked, FALSE) = x[slash]
      BY <1>4, <3>1, Zenon
    <3> QED
      BY <1>1, <3>2, <3>3, Zenon
<1>6. ASSUME NEW values PROVE HasParams(NotFound, values)
  BY DEF HasParams, NotFound
<1>7. ASSUME NEW slash, NEW values
      PROVE  HasParams(Found(StaticRoute(verb, path, slash), <<>>), values)
  <2> DEFINE st == StaticRoute(verb, path, slash)
  <2>1. ~HasVariables(st)
    BY <1>2, StaticRouteIs
  <2>2. \A i \in 1 .. Len(st.path) : ~st.path[i].var
    BY <2>1, Zenon DEF HasVariables
  <2> HIDE DEF st
  <2>3. Found(st, <<>>).route = st
    BY DEF Found
  <2> DEFINE places == {i \in 1 .. Len(st.path) : st.path[i].var}
  <2>4. places = {}
    BY <2>2
  <2>5. {i \in 1 .. Len(Found(st, <<>>).route.path) : Found(st, <<>>).route.path[i].var} = {}
    BY <2>3, <2>4, Zenon
  <2>6. HasParams(Found(st, <<>>), values)
    BY <2>5 DEF HasParams
  <2> QED
    BY <2>6 DEF st
<1>8. ASSUME NEW r \in ToSet(rs), NEW params, NEW values,
             NamesDiffer(r.path) => \A i \in VarPlaces(r.path) : params[r.path[i].name] = values[i]
      PROVE  HasParams(Found(r, params), values)
  <2>1. PICK f : f = Found(r, params)
    OBVIOUS
  <2>2. f.route = r /\ f.params = params
    BY <2>1 DEF Found
  <2>3. HasParams(f, values) <=>
          ((f.found /\ NamesDiffer(f.route.path)) =>
              \A i \in VarPlaces(f.route.path) : f.params[f.route.path[i].name] = values[i])
    BY Zenon DEF HasParams, NamesDiffer, VarPlaces
  <2>4. NamesDiffer(r.path) =>
          \A i \in VarPlaces(f.route.path) : f.params[f.route.path[i].name] = values[i]
    BY <1>8, <2>2, Zenon
  <2>5. HasParams(f, values)
    BY <2>2, <2>3, <2>4, Zenon
  <2> QED
    BY <2>1, <2>5, Zenon
<1>9. ASSUME NEW r \in ToSet(rs), Len(r.path) = Len(path)
      PROVE  /\ HasParams(Found(r, TrieParams(r.path, path)), decoded)
             /\ HasParams(Found(r, BuildPathParams(r, path)), path)
  <2>1. r \in Addressed(Segments)
    BY DEF ToSet
  <2>2. NamesDiffer(r.path) => \A i \in VarPlaces(r.path) :
          /\ TrieParams(r.path, path)[r.path[i].name] = Decode(path[i])
          /\ BuildPathParams(r, path)[r.path[i].name] = path[i]
    BY <2>1, ParamsAre, Zenon
  <2>3. \A i \in VarPlaces(r.path) : decoded[i] = Decode(path[i])
    BY <1>9 DEF VarPlaces
  <2> HIDE DEF decoded
  <2>4. HasParams(Found(r, TrieParams(r.path, path)), decoded)
    BY <1>8, <2>2, <2>3
  <2>5. HasParams(Found(r, BuildPathParams(r, path)), path)
    BY <1>8, <2>2
  <2> QED
    BY <2>4, <2>5
<1>10. HasParams(R.trie, decoded)
  <2>1. PICK slash \in BOOLEAN : R.trie = t[slash]
    BY <1>5
  <2> DEFINE st == StaticRoute(verb, path, slash)
  <2>2. R.trie = IF st \in ToSet(rs) THEN Found(st, <<>>) ELSE TrieMatch(TrieOf(rs, verb), path)
    BY <1>3, <2>1, StaticFirst, Zenon
  <2>3. CASE st \in ToSet(rs)
    BY <1>7, <2>2, <2>3, Zenon
  <2>4. CASE st \notin ToSet(rs)
    <3>1. TrieFinds(R.trie, rs, verb, path)
      BY <1>2, <2>2, <2>4, TrieMatchIs, Zenon
    <3>2. CASE R.trie = NotFound
      BY <1>6, <3>2, Zenon
    <3>3. CASE R.trie # NotFound
      <4>1. PICK r \in ToSet(TrieOf(rs, verb)) :
              R.trie = Found(r, TrieParams(r.path, path)) /\ FitsFrom(r.path, path, 0)
        BY <3>1, <3>3, Zenon DEF TrieFinds
      <4>2. r \in ToSet(rs) /\ Len(r.path) = Len(path)
        BY <4>1, TrieElements, Zenon DEF FitsFrom
      <4> QED
        BY <1>9, <4>1, <4>2, Zenon
    <3> QED
      BY <3>2, <3>3
  <2> QED
    BY <2>3, <2>4
<1>11. HasParams(R.regExp, path)
  <2>1. PICK slash \in BOOLEAN : R.regExp = x[slash]
    BY <1>5
  <2> DEFINE st == StaticRoute(verb, path, slash)
  <2>2. CASE st \in ToSet(rs)
    <3>1. R.regExp = Found(st, <<>>)
      BY <1>3, <2>1, <2>2, StaticFirst, Zenon
    <3> QED
      BY <1>7, <3>1, Zenon
  <2>3. CASE st \notin ToSet(rs)
    <3>1. RegExpFinds(R.regExp, rs, verb, path, slash, FALSE)
      BY <1>3, <2>1, <2>3, StaticFirst, Zenon
    <3>2. CASE R.regExp = NotFound
      BY <1>6, <3>2, Zenon
    <3>3. CASE R.regExp # NotFound
      <4>1. PICK r : /\ FirstFitting(r, rs, verb, path, slash, FALSE)
                     /\ R.regExp = Found(r, BuildPathParams(r, path))
        BY <3>1, <3>3, Zenon DEF RegExpFinds
      <4>2. r \in Fitting(rs, verb, path, slash, FALSE)
        BY <4>1, Zenon DEF FirstFitting
      <4>3. ToSet(Templates(rs)) = {q \in ToSet(rs) : HasVariables(q)}
            /\ Templates(rs) \in Seq(Addressed(Segments))
        BY TemplatesAre, Zenon
      <4>4. r \in ToSet(rs) /\ RegExpMatches(r, verb, path, slash, FALSE)
        BY <4>2, <4>3 DEF Fitting
      <4>5. Len(r.path) = Len(path)
        BY <4>4, Zenon DEF RegExpMatches
      <4> QED
        BY <1>9, <4>1, <4>4, <4>5, Zenon
    <3> QED
      BY <3>2, <3>3
  <2> QED
    BY <2>2, <2>3
<1>12. ParamsOfPlaces(asked, R)
  BY <1>10, <1>11, Zenon DEF ParamsOfPlaces
<1> QED
  BY <1>12 DEF R

\* What TrieRouter and RegExpRouter find matches the request, they find nothing only where
\* they may, and they agree on the route, whatever the order of routes, and on which value
\* reaches which parameter: for whatever routes and requests they are given.
THEOREM RoutersFindRoutes ==
    ASSUME subject = "routes" => input \in RoutedCalls
    PROVE  RoutersFind
<1> SUFFICES ASSUME subject = "routes", NEW asked \in input.requests
             PROVE  /\ \A results \in {Results(input.rs, asked, strict) : strict \in BOOLEAN} :
                          RouteMatchesRequest(input.rs, asked, results)
                    /\ \A results \in {Results(input.rs, asked, FALSE)} :
                          /\ NotFoundOnlyIf(input.rs, asked, results)
                          /\ OrderIrrelevant(input.rs, asked, results)
                          /\ ParamsOfPlaces(asked, results)
  BY Zenon DEF RoutersFind
<1>1. input \in RoutedCalls
  OBVIOUS
<1>2. input.rs \in Seq(Addressed(Segments)) /\ asked \in Addressed(Int)
  BY <1>1 DEF RoutedCalls
<1>3. \A strict \in BOOLEAN :
        RouteMatchesRequest(input.rs, asked, Results(input.rs, asked, strict))
  BY <1>2, RoutesMatch, Zenon
<1>4. /\ NotFoundOnlyIf(input.rs, asked, Results(input.rs, asked, FALSE))
      /\ OrderIrrelevant(input.rs, asked, Results(input.rs, asked, FALSE))
      /\ ParamsOfPlaces(asked, Results(input.rs, asked, FALSE))
  BY <1>2, RoutesFound, RoutesOrdered, ParamsPlaced, Zenon
<1> QED
  BY <1>3, <1>4, Zenon

---------------------------------------------------------------------------
(* The server, from here on *)

USE HttpConstants, RestConstants

---------------------------------------------------------------------------
(* The table of routes. *)

\* Of several controllers that offer a key one is the last; without any the key
\* goes to the other owner.
LEMMA LastForOwner ==
    ASSUME controllers \in Seq(Controllers),
           NEW k \in Keys, NEW positions \in SUBSET DOMAIN controllers, NEW other
    PROVE  LET c == LastFor(k, positions, other)
           IN  \/ c = other /\ \A p \in positions : k \notin Offers[controllers[p]]
               \/ c \in Controllers /\ Claims(c, k) /\ \E p \in positions : k \in Offers[controllers[p]]
<1> DEFINE offering == {p \in positions : k \in Offers[controllers[p]]}
<1>1. CASE offering = {}
  BY <1>1 DEF LastFor
<1>2. CASE offering # {}
  <2>1. Len(controllers) \in Nat /\ offering \in SUBSET (1 .. Len(controllers))
    OBVIOUS
  <2>2. \E p \in offering : \A q \in offering : q <= p
    <3> HIDE DEF offering
    <3> QED
      BY <1>2, <2>1, GreatestElement
  <2>3. PICK p \in offering : LastFor(k, positions, other) = controllers[p]
    BY <1>2, <2>2 DEF LastFor
  <2>4. controllers[p] \in Controllers /\ k \in Offers[controllers[p]] /\ p \in DOMAIN controllers
    BY <2>3
  <2> QED
    BY <2>3, <2>4 DEF Claims, IsBound
<1> QED
  BY <1>1, <1>2

\* The route that is bound to a key after a rebuild is that of a controller that claims
\* it, or was the user's, or there is none.
LEMMA ReboundOwner ==
    ASSUME TypeOK, NEW k \in Keys
    PROVE  \/ Rebound(k) \in Controllers /\ Claims(Rebound(k), k)
           \/ Rebound(k) = User /\ bound[k] = User
           \/ Rebound(k) = None /\ bound[k] # User
<1>1. Registered \in SUBSET DOMAIN controllers /\ controllers \in Seq(Controllers)
  BY DEF Registered, TypeOK
<1>2. bound[k] \in Controllers \cup {None, User} /\ None # User
  BY DEF TypeOK, Owners, None, User
<1> QED
  BY <1>1, <1>2, LastForOwner DEF Rebound

\* The number of notifications that count stays within its bound, and one that comes is
\* counted.
LEMMA Counted ==
    ASSUME NEW n \in Nat
    PROVE  Upto(n) \in 0 .. MaxPending /\ (n > 0 => Upto(n) > 0)
BY DEF Upto

\* What the types of the handler and the context are after a rebuild.
LEMMA RebuildTypes ==
    ASSUME TypeOK, NEW n \in Nat, Rebuild(n)
    PROVE  /\ built' \in BOOLEAN /\ spec' \in SpecKeys \cup {None} /\ controllers' \in Seq(Controllers)
           /\ bound' \in [Keys -> Owners] /\ routes' \in [Keys -> Owners]
           /\ changes' \in 0 .. MaxChanges /\ pending' \in 0 .. MaxPending
<1>1. \A k \in Keys : Rebound(k) \in Owners
  BY ReboundOwner DEF Owners
<1>2. \A k \in Keys : Rebuilt(k) \in Owners
  BY <1>1 DEF Rebuilt, Owners
<1>3. Notifications \in Nat
  BY FS_Subset, FS_CardinalityType DEF Notifications
<1>4. n + Notifications \in Nat
  BY <1>3
<1>5. pending' \in 0 .. MaxPending
  BY <1>4, Counted DEF Rebuild
<1> QED
  BY <1>1, <1>2, <1>5 DEF Rebuild, TypeOK

\* The key of the API spec is taken after a rebuild if it was before: rebuilding again would
\* not change whether anybody has it.
LEMMA DuplicateStays == ASSUME TypeOK, NEW n, Rebuild(n), Duplicate PROVE Duplicate'
<1>1. /\ UNCHANGED <<controllers, spec>> /\ bound' = [k \in Keys |-> Rebound(k)]
      /\ spec \in Templated /\ spec \in Keys /\ Rebound(spec) # None
  BY RestConstants DEF Rebuild, Duplicate
<1>2. bound'[spec] = Rebound(spec) /\ bound[spec] \in Controllers \cup {None, User}
      /\ None \notin Controllers /\ User # None
  BY <1>1, RestConstants DEF TypeOK, Owners, None, User
<1>3. Registered' = Registered
  BY <1>1 DEF Registered
<1>4. CASE \A p \in Registered : spec \notin Offers[controllers[p]]
  <2>1. Rebound(spec) = IF bound[spec] \in Controllers THEN None ELSE bound[spec]
    BY <1>4 DEF Rebound, LastFor
  <2>2. bound'[spec] = User /\ User \notin Controllers
    BY <1>1, <1>2, <2>1, RestConstants
  <2>3. Rebound(spec)' = User
    BY <1>1, <1>3, <1>4, <2>2 DEF Rebound, LastFor
  <2> QED
    BY <1>1, <1>2, <2>3 DEF Duplicate
<1>5. CASE ~ \A p \in Registered : spec \notin Offers[controllers[p]]
  <2>1. \A a, b : LastFor(spec, Registered, a) = LastFor(spec, Registered, b)
    BY <1>5 DEF LastFor
  <2>2. Rebound(spec)' = Rebound(spec)
    BY <1>1, <1>3, <2>1 DEF Rebound, LastFor
  <2> QED
    BY <1>1, <2>2 DEF Duplicate
<1> QED
  BY <1>4, <1>5

\* After a rebuild the table is what the context asks for.
LEMMA RebuildRoutes == ASSUME TypeOK, NEW n, Rebuild(n) PROVE RoutesCurrent'
<1>1. controllers' = controllers /\ spec' = spec /\ bound' = [k \in Keys |-> Rebound(k)]
      /\ routes' = [k \in Keys |-> Rebuilt(k)]
  BY DEF Rebuild
<1>2. \A c : IsBound(c)' <=> IsBound(c)
  BY <1>1 DEF IsBound
<1>3. \A c, k : Claims(c, k)' <=> Claims(c, k)
  BY <1>2 DEF Claims
<1>4. ASSUME Sound', NEW k \in Keys PROVE routes'[k] = Expected(k)'
  <2>1. SpecWorks /\ ~Duplicate /\ \A c \in Broken : ~IsBound(c)
    BY <1>1, <1>2, <1>4, DuplicateStays DEF Sound, SpecWorks, Rebuild
  <2>2. Registered = DOMAIN controllers
    <3>1. ASSUME NEW p \in DOMAIN controllers, NEW q \in 1 .. p PROVE q \in DOMAIN controllers
      BY <3>1 DEF TypeOK
    <3>2. \A q \in DOMAIN controllers : controllers[q] \notin Broken
      BY <2>1 DEF IsBound
    <3> QED
      BY <3>1, <3>2 DEF Registered
  <2>3. routes'[k] = IF spec = k THEN SpecController ELSE Rebound(k)
    BY <1>1, <2>1, <2>2 DEF Rebuilt, AllRegistered
  <2>4. Expected(k)' = IF spec = k THEN SpecController
                       ELSE LastFor(k, DOMAIN controllers, IF Rebound(k) = User THEN User ELSE None)
    BY <1>1 DEF Expected, LastFor
  <2>5. Rebound(k) = LastFor(k, DOMAIN controllers, IF bound[k] \in Controllers THEN None ELSE bound[k])
    BY <2>2 DEF Rebound
  <2>6. controllers \in Seq(Controllers) /\ DOMAIN controllers \in SUBSET DOMAIN controllers
        /\ bound[k] \in Controllers \cup {None, User}
    BY DEF TypeOK, Owners
  <2>7. CASE \A p \in DOMAIN controllers : k \notin Offers[controllers[p]]
    <3>1. Rebound(k) = IF bound[k] \in Controllers THEN None ELSE bound[k]
      BY <2>5, <2>7 DEF LastFor
    <3>2. LastFor(k, DOMAIN controllers, IF Rebound(k) = User THEN User ELSE None)
            = IF Rebound(k) = User THEN User ELSE None
      BY <2>7 DEF LastFor
    <3> QED
      BY <2>3, <2>4, <2>6, <3>1, <3>2
  <2>8. CASE ~ \A p \in DOMAIN controllers : k \notin Offers[controllers[p]]
    <3>1. \A a, b : LastFor(k, DOMAIN controllers, a) = LastFor(k, DOMAIN controllers, b)
      BY <2>8 DEF LastFor
    <3> QED
      BY <2>3, <2>4, <2>5, <3>1
  <2> QED
    BY <2>7, <2>8
<1>5. ASSUME NEW k \in Keys
      PROVE  /\ routes'[k] \in Controllers =>
                    Claims(routes'[k], k) \/ (spec = k /\ IsBound(routes'[k]))
             /\ routes'[k] = User => bound'[k] = User
  <2>1. routes'[k] = Rebuilt(k) /\ bound'[k] = Rebound(k)
    BY <1>1
  <2> QED
    BY <2>1, ReboundOwner DEF Rebuilt, SpecWorks, None, User
<1>6. HandlerUpToDate'
  BY <1>4 DEF HandlerUpToDate
<1>7. NoStrayRoutes'
  <2>1. ASSUME NEW k \in Keys, NEW c \in Controllers, routes'[k] = c
        PROVE  Claims(c, k)' \/ (spec' = k /\ IsBound(c)')
    BY <1>1, <1>2, <1>3, <1>5, <2>1
  <2>2. ASSUME NEW k \in Keys, routes'[k] = User PROVE bound'[k] = User
    BY <1>5, <2>2
  <2> QED
    BY <2>1, <2>2 DEF NoStrayRoutes
<1> QED
  BY <1>6, <1>7 DEF RoutesCurrent

---------------------------------------------------------------------------
(* The inductive invariant. *)

\* No call is under way, and no socket open, before there is a handler; a call that
\* opens or closes a socket has a server.
HandlerFirst ==
    /\ \A c \in Callers :
          /\ call[c].at # "idle" => built
          /\ call[c].at \in {"opening", "closing"} => call[c].server \in Servers
    /\ ListensWithHandler

\* A server that is closed has no connection.
ClosedIsDrained == \A s \in Servers, r \in Requests : phase[s] = "closed" => conn[r] # s

\* Calls are made one at a time.
OneCall == \A c, d \in Callers : call[c].at # "idle" /\ call[d].at # "idle" => c = d

\* What has a socket is the current server.
SocketOfCurrent ==
    \A s \in Servers : phase[s] \in {"opening", "listening", "closing"} => s = current

\* A socket is opened or closed by a call that is just doing that.
SocketOfCall ==
    \A s \in Servers : phase[s] \in {"opening", "closing"} => \E c \in Callers : call[c].at = phase[s]

\* Where a call is, and what has become of its server.
CallOfSocket ==
    \A c \in Callers :
        /\ call[c].at = "starting" =>
              \A s \in Servers : phase[s] \notin {"opening", "listening", "closing"}
        /\ call[c].at = "opening" =>
              call[c].server = current /\ current \in Servers /\ phase[current] = "opening"
        /\ call[c].at = "closing" =>
              call[c].server = current /\ current \in Servers /\ phase[current] \in {"closing", "closed"}

\* Who listens, or has, does so at the port that is bound; who opens its socket has
\* been told that port.
PortKnown ==
    \A s \in Servers :
        /\ phase[s] \in {"listening", "closing", "closed"} => port # 0 /\ addr[s] = port
        /\ phase[s] = "opening" => addr[s] = port

\* What the calls and sockets are as long as the calls do not overlap.
Orderly ==
    ~misused => OneCall /\ SocketOfCurrent /\ SocketOfCall /\ CallOfSocket /\ PortKnown

\* The conjunction that every step preserves: the properties of the server follow from it.
RestIInv == TypeOK /\ RoutesCurrent /\ HandlerFirst /\ ClosedIsDrained /\ Orderly

\* The server begins without a handler, sockets or calls.
LEMMA InitIInv == Init => RestIInv
<1> SUFFICES ASSUME Init PROVE RestIInv
  OBVIOUS
<1> USE DEF Init, HttpInit, Idle
<1>1. TypeOK
  <2>1. controllers \in Seq(Controllers)
    <3>1. \A c \in Controllers : <<c>> \in Seq(Controllers)
      OBVIOUS
    <3>2. <<>> \in Seq(Controllers)
      OBVIOUS
    <3> QED
      BY <3>1, <3>2
  <2>2. HttpTypeOK
    BY DEF HttpTypeOK
  <2>3. call \in [Callers -> [at : {"idle", "starting", "opening", "closing"}, server : Servers \cup {0}]]
    OBVIOUS
  <2>4. changes \in 0 .. MaxChanges /\ pending \in 0 .. MaxPending
    OBVIOUS
  <2> QED
    BY <2>1, <2>2, <2>3, <2>4 DEF TypeOK, Owners
<1>2. RoutesCurrent
  BY DEF RoutesCurrent, HandlerUpToDate, NoStrayRoutes
<1>3. HandlerFirst /\ ClosedIsDrained /\ Orderly
  BY DEF HandlerFirst, ListensWithHandler, ClosedIsDrained, Orderly, OneCall, SocketOfCurrent,
      SocketOfCall, CallOfSocket, PortKnown
<1> QED
  BY <1>1, <1>2, <1>3 DEF RestIInv

\* What is said of the sockets and calls stays true while these stay as they are.
LEMMA SameServer ==
    ASSUME RestIInv, UNCHANGED <<httpVars, serverVars>>, built => built'
    PROVE  HandlerFirst' /\ ClosedIsDrained' /\ Orderly'
BY DEF RestIInv, httpVars, serverVars, HandlerFirst, ListensWithHandler, ClosedIsDrained, Orderly,
    OneCall, SocketOfCurrent, SocketOfCall, CallOfSocket, PortKnown

\* What is said of the routes stays true while context and handler stay as they are.
LEMMA SameRoutes ==
    ASSUME RestIInv, UNCHANGED <<contextVars, handlerVars>>
    PROVE  RoutesCurrent'
<1> USE DEF contextVars, handlerVars
<1>1. \A c : IsBound(c)' <=> IsBound(c)
  BY DEF IsBound
<1>2. \A c, k : Claims(c, k)' <=> Claims(c, k)
  BY <1>1 DEF Claims
<1>3. \A k : Expected(k)' = Expected(k)
  BY DEF Expected, LastFor
<1>4. Sound' <=> Sound
  BY <1>1 DEF Sound, SpecWorks, Duplicate, Rebound, LastFor, Registered
<1> QED
  BY <1>1, <1>2, <1>3, <1>4 DEF RestIInv, RoutesCurrent, HandlerUpToDate, NoStrayRoutes

\* Rebuilding upon a notification preserves it.
LEMMA NotifyIInv == ASSUME RestIInv, Notify PROVE RestIInv'
<1>1. Rebuild(pending - 1) /\ pending - 1 \in Nat /\ TypeOK
  BY DEF Notify, RestIInv, TypeOK
<1>2. UNCHANGED <<httpVars, serverVars>> /\ built' /\ UNCHANGED requestVars
  BY DEF Notify, Rebuild
<1>3. TypeOK'
  BY <1>1, <1>2, RebuildTypes DEF TypeOK, HttpTypeOK, httpVars, serverVars, requestVars
<1>4. RoutesCurrent'
  BY <1>1, RebuildRoutes
<1> QED
  BY <1>2, <1>3, <1>4, SameServer DEF RestIInv

\* A change of the context preserves it: a handler that there is will be notified.
LEMMA ChangedIInv ==
    ASSUME RestIInv, NEW n \in {1, 2}, Changed(n),
           controllers' \in Seq(Controllers), bound' \in [Keys -> Owners],
           spec' \in SpecKeys \cup {None}
    PROVE  RestIInv'
<1>1. UNCHANGED <<httpVars, built, routes, serverVars, requestVars>>
  BY DEF Changed
<1>2. changes' \in 0 .. MaxChanges
  BY DEF Changed, RestIInv, TypeOK
<1>3. pending' \in 0 .. MaxPending /\ (built => pending' > 0)
  <2>1. pending + n \in Nat /\ pending + n > 0 /\ pending \in 0 .. MaxPending
    BY DEF RestIInv, TypeOK
  <2> QED
    BY <2>1, Counted DEF Changed
<1>4. TypeOK'
  BY <1>1, <1>2, <1>3 DEF RestIInv, TypeOK, HttpTypeOK, httpVars, serverVars, requestVars
<1>5. RoutesCurrent'
  BY <1>1, <1>3 DEF RoutesCurrent, HandlerUpToDate, NoStrayRoutes
<1> QED
  BY <1>1, <1>4, <1>5, SameServer DEF RestIInv

\* Controllers, routes and the API spec that come or go preserve it.
LEMMA ContextIInv ==
    ASSUME RestIInv,
           \/ Api
           \/ \E c \in Controllers : BindController(c) \/ UnbindController(c)
           \/ \E k \in Keys : Route(k) \/ UnbindRoute(k)
    PROVE  RestIInv'
<1>0. controllers \in Seq(Controllers) /\ bound \in [Keys -> Owners]
      /\ spec \in SpecKeys \cup {None}
      /\ None \in Owners /\ User \in Owners
  BY DEF RestIInv, TypeOK, Owners
<1>1. CASE Api
  BY <1>0, <1>1, ChangedIInv DEF Api
<1>2. ASSUME NEW c \in Controllers, BindController(c) PROVE RestIInv'
  <2>1. controllers' \in Seq(Controllers)
    BY <1>0, <1>2, AppendProperties DEF BindController
  <2> QED
    BY <1>0, <1>2, <2>1, ChangedIInv DEF BindController
<1>3. ASSUME NEW c \in Controllers, UnbindController(c) PROVE RestIInv'
  <2>1. PICK p \in DOMAIN controllers : controllers' = RemoveAt(controllers, p)
    BY <1>3 DEF UnbindController
  <2>2. SubSeq(controllers, 1, p - 1) \in Seq(Controllers)
        /\ SubSeq(controllers, p + 1, Len(controllers)) \in Seq(Controllers)
    BY <1>0
  <2>3. controllers' \in Seq(Controllers)
    BY <2>1, <2>2, ConcatProperties DEF RemoveAt
  <2> QED
    BY <1>0, <1>3, <2>3, ChangedIInv DEF UnbindController
<1>4. ASSUME NEW k \in Keys, Route(k) PROVE RestIInv'
  BY <1>0, <1>4, ChangedIInv DEF Route
<1>5. ASSUME NEW k \in Keys, UnbindRoute(k) PROVE RestIInv'
  BY <1>0, <1>5, ChangedIInv DEF UnbindRoute
<1> QED
  BY <1>1, <1>2, <1>3, <1>4, <1>5

---------------------------------------------------------------------------
(* The calls of start() and stop(). *)

\* A step of a call or of a socket leaves the routes alone, unless it builds the handler.
LEMMA OfServer ==
    ASSUME RestIInv, UNCHANGED <<contextVars, handlerVars, requestVars>>,
           HttpTypeOK', call' \in [Callers -> [at : {"idle", "starting", "opening", "closing"},
                                               server : Servers \cup {0}]],
           current' \in Servers \cup {0}, port' \in Ports \cup {0}, misused' \in BOOLEAN,
           HandlerFirst', ClosedIsDrained', Orderly'
    PROVE  RestIInv'
<1>1. RoutesCurrent'
  BY SameRoutes
<1>2. TypeOK'
  BY DEF RestIInv, TypeOK, contextVars, handlerVars, requestVars
<1> QED
  BY <1>1, <1>2 DEF RestIInv

\* start() begins in order when no other call is under way and nothing listens.
LEMMA StartIInv == ASSUME RestIInv, NEW c \in Callers, Start(c) PROVE RestIInv'
<1>1. UNCHANGED <<httpVars, requestVars, current, port>> /\ built' /\ misused' \in BOOLEAN
  BY DEF Start, Rebuild, handlerVars, RestIInv, TypeOK
<1>2. call' \in [Callers -> [at : {"idle", "starting", "opening", "closing"},
                             server : Servers \cup {0}]]
  BY DEF Start, RestIInv, TypeOK
<1>3. RoutesCurrent' /\ TypeOK'
  <2>1. CASE built
    <3>1. UNCHANGED <<contextVars, handlerVars>>
      BY <2>1 DEF Start
    <3>2. RoutesCurrent'
      BY <3>1, SameRoutes
    <3> QED
      BY <1>1, <1>2, <3>1, <3>2
         DEF RestIInv, TypeOK, HttpTypeOK, httpVars, requestVars, contextVars, handlerVars
  <2>2. CASE ~built
    <3>1. Rebuild(0) /\ TypeOK
      BY <2>2 DEF Start, RestIInv
    <3>2. RoutesCurrent'
      BY <3>1, RebuildRoutes
    <3> QED
      BY <1>1, <1>2, <3>1, <3>2, RebuildTypes DEF TypeOK, HttpTypeOK, httpVars, requestVars
  <2> QED
    BY <2>1, <2>2
<1>4. HandlerFirst' /\ ClosedIsDrained'
  <2>1. \A d \in Callers : call'[d] = call[d] \/ call'[d].at = "starting"
    BY DEF Start, RestIInv, TypeOK
  <2> QED
    BY <1>1, <2>1 DEF HandlerFirst, ListensWithHandler, ClosedIsDrained, RestIInv, httpVars
<1>5. Orderly'
  <2> SUFFICES ASSUME ~misused' PROVE Orderly'
    BY DEF Orderly
  <2>1. ~misused /\ ~InProcess /\ ~(current # 0 /\ phase[current] = "listening")
    BY DEF Start
  <2>2. OneCall /\ SocketOfCurrent /\ SocketOfCall /\ CallOfSocket /\ PortKnown
    BY <2>1 DEF RestIInv, Orderly
  <2>3. \A d \in Callers : call[d].at = "idle"
    BY <2>1 DEF InProcess
  <2>4. \A s \in Servers : phase[s] \notin {"opening", "listening", "closing"}
    BY <2>1, <2>2, <2>3, HttpConstants DEF SocketOfCurrent, SocketOfCall, Servers
  <2>5. call' = call \/ call' = [call EXCEPT ![c] = [at |-> "starting", server |-> 0]]
    BY DEF Start
  <2>6. \A d \in Callers : d # c => call'[d] = call[d]
    BY <2>5 DEF RestIInv, TypeOK
  <2>7. OneCall'
    BY <2>3, <2>6 DEF OneCall
  <2>8. call'[c].at \in {"idle", "starting"}
    BY <2>3, <2>5 DEF RestIInv, TypeOK
  <2>9. SocketOfCurrent' /\ SocketOfCall' /\ PortKnown'
    BY <1>1, <2>2, <2>4 DEF httpVars, SocketOfCurrent, SocketOfCall, PortKnown
  <2>10. CallOfSocket'
    BY <1>1, <2>3, <2>4, <2>6, <2>8 DEF httpVars, CallOfSocket
  <2> QED
    BY <2>7, <2>9, <2>10 DEF Orderly
<1> QED
  BY <1>3, <1>4, <1>5 DEF RestIInv

\* A socket is opened by the call that starts: no other was open.
LEMMA ListenIInv == ASSUME RestIInv, NEW c \in Callers, Listen(c) PROVE RestIInv'
<1>1. PICK s \in Servers :
          /\ phase[s] = "none" /\ phase' = [phase EXCEPT ![s] = "opening"]
          /\ addr' = [addr EXCEPT ![s] = port] /\ conn' = conn
          /\ current' = s
          /\ call' = [call EXCEPT ![c] = [at |-> "opening", server |-> s]]
  BY DEF Listen, Open
<1>2. call[c].at = "starting" /\ port' = port /\ misused' = misused
      /\ UNCHANGED <<contextVars, handlerVars, requestVars>>
  BY DEF Listen
<1>3. HttpTypeOK' /\ current' \in Servers \cup {0} /\ port' \in Ports \cup {0} /\ misused' \in BOOLEAN
  BY <1>1, <1>2 DEF RestIInv, TypeOK, HttpTypeOK
<1>4. call' \in [Callers -> [at : {"idle", "starting", "opening", "closing"},
                             server : Servers \cup {0}]]
  BY <1>1 DEF RestIInv, TypeOK
<1>5. HandlerFirst'
  BY <1>1, <1>2 DEF RestIInv, TypeOK, HandlerFirst, ListensWithHandler, handlerVars
<1>6. ClosedIsDrained'
  BY <1>1 DEF RestIInv, TypeOK, HttpTypeOK, ClosedIsDrained
<1>7. Orderly'
  <2> SUFFICES ASSUME ~misused' PROVE Orderly'
    BY DEF Orderly
  <2>1. OneCall /\ SocketOfCurrent /\ SocketOfCall /\ CallOfSocket /\ PortKnown
    BY <1>2 DEF RestIInv, Orderly
  <2>2. \A t \in Servers : phase[t] \notin {"opening", "listening", "closing"}
    BY <1>2, <2>1 DEF CallOfSocket
  <2>3. \A d \in Callers : d # c => call[d].at = "idle"
    BY <1>2, <2>1 DEF OneCall
  <2>4. /\ \A d \in Callers : d # c => call'[d] = call[d]
        /\ call'[c].at = "opening" /\ call'[c].server = s
        /\ \A t \in Servers : t # s => phase'[t] = phase[t] /\ addr'[t] = addr[t]
        /\ phase'[s] = "opening" /\ addr'[s] = port
    BY <1>1 DEF RestIInv, TypeOK, HttpTypeOK
  <2>5. OneCall'
    BY <2>3, <2>4 DEF OneCall
  <2>6. SocketOfCurrent' /\ SocketOfCall'
    BY <1>1, <2>2, <2>4 DEF SocketOfCurrent, SocketOfCall
  <2>7. CallOfSocket'
    BY <1>1, <2>3, <2>4 DEF CallOfSocket
  <2>8. PortKnown'
    BY <1>2, <2>1, <2>4 DEF PortKnown
  <2> QED
    BY <2>5, <2>6, <2>7, <2>8 DEF Orderly
<1> QED
  BY <1>2, <1>3, <1>4, <1>5, <1>6, <1>7, OfServer

\* The server listens at the port that start() binds, which is that of those before.
LEMMA ListensIInv == ASSUME RestIInv, NEW c \in Callers, Listens(c) PROVE RestIInv'
<1> DEFINE s == call[c].server
<1>1. PICK p \in Ports :
          /\ addr[s] \in {0, p} /\ addr' = [addr EXCEPT ![s] = p]
          /\ phase[s] = "opening" /\ phase' = [phase EXCEPT ![s] = "listening"] /\ conn' = conn
  BY DEF Listens, ListensOn, Opened, FreePorts
<1>2. /\ call[c].at = "opening" /\ call' = [call EXCEPT ![c] = Idle]
      /\ port' = IF current = 0 THEN port ELSE addr'[current]
      /\ current' = current /\ misused' = misused
      /\ UNCHANGED <<contextVars, handlerVars, requestVars>>
  BY DEF Listens, ListensOn
<1>3. HttpTypeOK'
  BY <1>1 DEF RestIInv, TypeOK, HttpTypeOK
<1>4. call' \in [Callers -> [at : {"idle", "starting", "opening", "closing"},
                             server : Servers \cup {0}]]
  BY <1>2 DEF RestIInv, TypeOK, Idle
<1>5. current' \in Servers \cup {0} /\ port' \in Ports \cup {0} /\ misused' \in BOOLEAN
  BY <1>2, <1>3 DEF RestIInv, TypeOK, HttpTypeOK
<1>6. HandlerFirst'
  BY <1>1, <1>2 DEF RestIInv, TypeOK, HandlerFirst, ListensWithHandler, handlerVars, Idle
<1>7. ClosedIsDrained'
  BY <1>1 DEF RestIInv, TypeOK, HttpTypeOK, ClosedIsDrained
<1>8. Orderly'
  <2> SUFFICES ASSUME ~misused' PROVE Orderly'
    BY DEF Orderly
  <2>1. OneCall /\ SocketOfCurrent /\ SocketOfCall /\ CallOfSocket /\ PortKnown
    BY <1>2 DEF RestIInv, Orderly
  <2>2. s = current /\ s \in Servers /\ s # 0
    BY <1>2, <2>1 DEF CallOfSocket, Servers
  <2>3. \A d \in Callers : d # c => call[d].at = "idle"
    BY <1>2, <2>1 DEF OneCall
  <2>4. \A d \in Callers : call'[d].at = "idle"
    BY <1>2, <2>3 DEF RestIInv, TypeOK, Idle
  <2>5. port' = p /\ p # 0
    BY <1>1, <1>2, <2>2 DEF RestIInv, TypeOK, HttpTypeOK
  <2>6. /\ phase'[s] = "listening" /\ addr'[s] = p
        /\ \A t \in Servers : t # s => phase'[t] = phase[t] /\ addr'[t] = addr[t]
    BY <1>1, <2>2 DEF RestIInv, TypeOK, HttpTypeOK
  <2>7. \A t \in Servers : t # s => phase[t] \notin {"opening", "listening", "closing"}
    BY <2>1, <2>2 DEF SocketOfCurrent
  <2>8. OneCall' /\ CallOfSocket'
    BY <2>4 DEF OneCall, CallOfSocket
  <2>9. SocketOfCurrent' /\ SocketOfCall'
    BY <1>2, <2>2, <2>6, <2>7 DEF SocketOfCurrent, SocketOfCall
  <2>10. addr[s] = port
    BY <1>1, <2>1, <2>2 DEF PortKnown
  <2>11. ASSUME NEW t \in Servers, t # s, phase[t] \in {"listening", "closing", "closed"}
         PROVE  addr'[t] = p
    BY <1>1, <2>1, <2>6, <2>10, <2>11 DEF PortKnown
  <2>12. PortKnown'
    BY <2>5, <2>6, <2>7, <2>11 DEF PortKnown
  <2> QED
    BY <2>8, <2>9, <2>12 DEF Orderly
<1> QED
  BY <1>2, <1>3, <1>4, <1>5, <1>6, <1>7, <1>8, OfServer

\* A server that cannot listen leaves no socket.
LEMMA ListenFailsIInv == ASSUME RestIInv, NEW c \in Callers, ListenFails(c) PROVE RestIInv'
<1> DEFINE s == call[c].server
<1>1. phase[s] = "opening" /\ phase' = [phase EXCEPT ![s] = "failed"] /\ UNCHANGED <<addr, conn>>
  BY DEF ListenFails, OpenFails
<1>2. /\ call[c].at = "opening" /\ call' = [call EXCEPT ![c] = Idle]
      /\ UNCHANGED <<contextVars, handlerVars, requestVars, current, port, misused>>
  BY DEF ListenFails
<1>3. HttpTypeOK' /\ current' \in Servers \cup {0} /\ port' \in Ports \cup {0} /\ misused' \in BOOLEAN
  BY <1>1, <1>2 DEF RestIInv, TypeOK, HttpTypeOK
<1>4. call' \in [Callers -> [at : {"idle", "starting", "opening", "closing"},
                             server : Servers \cup {0}]]
  BY <1>2 DEF RestIInv, TypeOK, Idle
<1>5. HandlerFirst'
  BY <1>1, <1>2 DEF RestIInv, TypeOK, HandlerFirst, ListensWithHandler, handlerVars, Idle
<1>6. ClosedIsDrained'
  BY <1>1 DEF RestIInv, TypeOK, HttpTypeOK, ClosedIsDrained
<1>7. Orderly'
  <2> SUFFICES ASSUME ~misused' PROVE Orderly'
    BY DEF Orderly
  <2>1. OneCall /\ SocketOfCurrent /\ SocketOfCall /\ CallOfSocket /\ PortKnown
    BY <1>2 DEF RestIInv, Orderly
  <2>2. s = current /\ s \in Servers
    BY <1>2, <2>1 DEF CallOfSocket
  <2>3. \A d \in Callers : d # c => call[d].at = "idle"
    BY <1>2, <2>1 DEF OneCall
  <2>4. \A d \in Callers : call'[d].at = "idle"
    BY <1>2, <2>3 DEF RestIInv, TypeOK, Idle
  <2>5. phase'[s] = "failed" /\ \A t \in Servers : t # s => phase'[t] = phase[t]
    BY <1>1, <2>2 DEF RestIInv, TypeOK, HttpTypeOK
  <2>6. \A t \in Servers : phase'[t] \notin {"opening", "listening", "closing"}
    BY <2>1, <2>2, <2>5 DEF SocketOfCurrent
  <2>7. OneCall' /\ CallOfSocket' /\ SocketOfCurrent' /\ SocketOfCall'
    BY <2>4, <2>6 DEF OneCall, CallOfSocket, SocketOfCurrent, SocketOfCall
  <2>8. PortKnown'
    BY <1>1, <1>2, <2>1, <2>5, <2>6 DEF PortKnown
  <2> QED
    BY <2>7, <2>8 DEF Orderly
<1> QED
  BY <1>2, <1>3, <1>4, <1>5, <1>6, <1>7, OfServer

\* stop() closes the current server, or forgets one that does not listen.
LEMMA StopIInv == ASSUME RestIInv, NEW c \in Callers, Stop(c) PROVE RestIInv'
<1>1. /\ current \in Servers /\ call[c].at = "idle"
      /\ UNCHANGED <<contextVars, handlerVars, requestVars, port, addr, conn>>
      /\ misused' = (misused \/ InProcess)
  BY DEF Stop, StopAs, MayCall, Close, RestIInv, TypeOK, httpVars
<1>2. CASE Listening(current)
  <2>1. /\ phase' = [phase EXCEPT ![current] = "closing"] /\ current' = current
        /\ call' = [call EXCEPT ![c] = [at |-> "closing", server |-> current]]
    BY <1>2 DEF Stop, StopAs, Close
  <2>2. HttpTypeOK' /\ current' \in Servers \cup {0} /\ port' \in Ports \cup {0} /\ misused' \in BOOLEAN
    BY <1>1, <2>1 DEF RestIInv, TypeOK, HttpTypeOK
  <2>3. call' \in [Callers -> [at : {"idle", "starting", "opening", "closing"},
                               server : Servers \cup {0}]]
    BY <1>1, <2>1 DEF RestIInv, TypeOK
  <2>4. HandlerFirst'
    BY <1>1, <1>2, <2>1
       DEF RestIInv, TypeOK, HandlerFirst, ListensWithHandler, handlerVars, Listening
  <2>5. ClosedIsDrained'
    BY <1>1, <2>1 DEF RestIInv, TypeOK, HttpTypeOK, ClosedIsDrained
  <2>6. Orderly'
    <3> SUFFICES ASSUME ~misused' PROVE Orderly'
      BY DEF Orderly
    <3>1. OneCall /\ SocketOfCurrent /\ SocketOfCall /\ CallOfSocket /\ PortKnown
      BY <1>1 DEF RestIInv, Orderly
    <3>2. \A d \in Callers : call[d].at = "idle"
      BY <1>1 DEF InProcess
    <3>3. /\ \A d \in Callers : d # c => call'[d].at = "idle"
          /\ call'[c].at = "closing" /\ call'[c].server = current
          /\ phase'[current] = "closing"
          /\ \A t \in Servers : t # current => phase'[t] = phase[t]
      BY <1>1, <2>1, <3>2 DEF RestIInv, TypeOK, HttpTypeOK
    <3>4. \A t \in Servers : t # current => phase[t] \notin {"opening", "listening", "closing"}
      BY <3>1 DEF SocketOfCurrent
    <3>5. OneCall' /\ CallOfSocket' /\ SocketOfCurrent' /\ SocketOfCall'
      BY <1>1, <2>1, <3>3, <3>4 DEF OneCall, CallOfSocket, SocketOfCurrent, SocketOfCall
    <3>6. PortKnown'
      BY <1>1, <1>2, <3>1, <3>3 DEF PortKnown, Listening
    <3> QED
      BY <3>5, <3>6 DEF Orderly
  <2> QED
    BY <1>1, <2>2, <2>3, <2>4, <2>5, <2>6, OfServer
<1>3. CASE ~Listening(current)
  <2>1. current' = 0 /\ UNCHANGED <<httpVars, call>>
    BY <1>3 DEF Stop, StopAs
  <2>2. HttpTypeOK' /\ current' \in Servers \cup {0} /\ port' \in Ports \cup {0}
        /\ misused' \in BOOLEAN /\ call' = call
    BY <1>1, <2>1 DEF RestIInv, TypeOK, HttpTypeOK, httpVars
  <2>3. HandlerFirst' /\ ClosedIsDrained'
    BY <1>1, <2>1 DEF RestIInv, HandlerFirst, ListensWithHandler, ClosedIsDrained, handlerVars, httpVars
  <2>4. Orderly'
    <3> SUFFICES ASSUME ~misused' PROVE Orderly'
      BY DEF Orderly
    <3>1. OneCall /\ SocketOfCurrent /\ SocketOfCall /\ CallOfSocket /\ PortKnown
      BY <1>1 DEF RestIInv, Orderly
    <3>2. \A d \in Callers : call'[d].at = "idle" /\ call[d].at = "idle"
      BY <1>1, <2>1 DEF InProcess
    <3>3. \A t \in Servers : phase'[t] \notin {"opening", "listening", "closing"}
      BY <1>3, <2>1, <3>1, <3>2 DEF SocketOfCurrent, SocketOfCall, Listening, httpVars
    <3>4. OneCall' /\ CallOfSocket' /\ SocketOfCurrent' /\ SocketOfCall'
      BY <3>2, <3>3 DEF OneCall, CallOfSocket, SocketOfCurrent, SocketOfCall
    <3>5. PortKnown'
      BY <1>1, <2>1, <3>1 DEF PortKnown, httpVars
    <3> QED
      BY <3>4, <3>5 DEF Orderly
  <2> QED
    BY <1>1, <2>2, <2>3, <2>4, OfServer DEF RestIInv, TypeOK
<1> QED
  BY <1>2, <1>3

\* stop() returns when its server is closed.
LEMMA StoppedIInv == ASSUME RestIInv, NEW c \in Callers, Stopped(c) PROVE RestIInv'
<1>1. /\ call[c].at = "closing" /\ phase[call[c].server] = "closed"
      /\ call' = [call EXCEPT ![c] = Idle] /\ current' = 0
      /\ UNCHANGED <<httpVars, contextVars, handlerVars, requestVars, port, misused>>
  BY DEF Stopped, StoppedWhen
<1>2. HttpTypeOK' /\ current' \in Servers \cup {0} /\ port' \in Ports \cup {0} /\ misused' \in BOOLEAN
  BY <1>1 DEF RestIInv, TypeOK, HttpTypeOK, httpVars
<1>3. call' \in [Callers -> [at : {"idle", "starting", "opening", "closing"},
                             server : Servers \cup {0}]]
  BY <1>1 DEF RestIInv, TypeOK, Idle
<1>4. HandlerFirst' /\ ClosedIsDrained'
  BY <1>1 DEF RestIInv, TypeOK, HandlerFirst, ListensWithHandler, ClosedIsDrained, handlerVars,
      httpVars, Idle
<1>5. Orderly'
  <2> SUFFICES ASSUME ~misused' PROVE Orderly'
    BY DEF Orderly
  <2>1. OneCall /\ SocketOfCurrent /\ SocketOfCall /\ CallOfSocket /\ PortKnown
    BY <1>1 DEF RestIInv, Orderly
  <2>2. \A d \in Callers : call'[d].at = "idle"
    BY <1>1, <2>1 DEF OneCall, RestIInv, TypeOK, Idle
  <2>3. phase[current] = "closed" /\ phase' = phase
    BY <1>1, <2>1 DEF CallOfSocket, httpVars
  <2>4. \A t \in Servers : phase'[t] \notin {"opening", "listening", "closing"}
    BY <2>1, <2>3 DEF SocketOfCurrent
  <2>5. OneCall' /\ CallOfSocket' /\ SocketOfCurrent' /\ SocketOfCall'
    BY <2>2, <2>4 DEF OneCall, CallOfSocket, SocketOfCurrent, SocketOfCall
  <2>6. PortKnown'
    BY <1>1, <2>1 DEF PortKnown, httpVars
  <2> QED
    BY <2>5, <2>6 DEF Orderly
<1> QED
  BY <1>1, <1>2, <1>3, <1>4, <1>5, OfServer

\* A socket is closed when its connections are gone, or have been ended.
LEMMA SocketIInv == ASSUME RestIInv, NEW s \in Servers, SocketEvent(s) PROVE RestIInv'
<1>1. phase[s] = "closing" /\ UNCHANGED <<contextVars, handlerVars, serverVars, requestVars, addr>>
  BY DEF SocketEvent, Closed, ClosedWhen, GraceEnds
<1>2. \/ phase' = [phase EXCEPT ![s] = "closed"] /\ Connected(s) = {} /\ conn' = conn
      \/ phase' = phase /\ conn' = [r \in Requests |-> IF conn[r] = s THEN 0 ELSE conn[r]]
  BY DEF SocketEvent, Closed, ClosedWhen, GraceEnds
<1>3. HttpTypeOK'
  BY <1>1, <1>2 DEF RestIInv, TypeOK, HttpTypeOK
<1>4. ClosedIsDrained'
  BY <1>2 DEF RestIInv, TypeOK, HttpTypeOK, ClosedIsDrained, Connected, Servers
<1>5. HandlerFirst'
  BY <1>1, <1>2 DEF RestIInv, TypeOK, HttpTypeOK, HandlerFirst, ListensWithHandler, handlerVars, serverVars
<1>6. Orderly'
  <2> SUFFICES ASSUME ~misused' PROVE Orderly'
    BY DEF Orderly
  <2>1. OneCall /\ SocketOfCurrent /\ SocketOfCall /\ CallOfSocket /\ PortKnown
    BY <1>1 DEF RestIInv, Orderly, serverVars
  <2>2. \A t \in Servers : phase'[t] = phase[t] \/ (t = s /\ phase'[t] = "closed")
    BY <1>2 DEF RestIInv, TypeOK, HttpTypeOK
  <2>3. OneCall' /\ SocketOfCurrent' /\ SocketOfCall'
    BY <1>1, <2>1, <2>2 DEF OneCall, SocketOfCurrent, SocketOfCall, serverVars
  <2>4. CallOfSocket'
    BY <1>1, <2>1, <2>2 DEF CallOfSocket, serverVars
  <2>5. PortKnown'
    BY <1>1, <2>1, <2>2 DEF PortKnown, serverVars
  <2> QED
    BY <2>3, <2>4, <2>5 DEF Orderly
<1> QED
  BY <1>1, <1>3, <1>4, <1>5, <1>6, OfServer DEF RestIInv, TypeOK, serverVars

\* Requests come in at servers that listen, and change nothing but themselves.
LEMMA RequestIInv ==
    ASSUME RestIInv, NEW r \in Requests,
           Arrive(r) \/ FindRoute(r) \/ Invoke(r) \/ Respond(r) \/ HangUp(r)
    PROVE  RestIInv'
<1>1. UNCHANGED <<contextVars, handlerVars, serverVars, phase, addr>>
  BY DEF Arrive, Accept, FindRoute, Invoke, Respond, HangUp, Disconnect, Goes, httpVars
<1>2. \/ conn' = conn
      \/ conn' = [conn EXCEPT ![r] = 0]
      \/ \E s \in Servers : phase[s] = "listening" /\ conn' = [conn EXCEPT ![r] = s]
  BY DEF Arrive, Accept, FindRoute, Invoke, Respond, HangUp, Disconnect, Goes, httpVars
<1>3. HttpTypeOK'
  BY <1>1, <1>2 DEF RestIInv, TypeOK, HttpTypeOK
<1>4. ClosedIsDrained'
  BY <1>1, <1>2 DEF RestIInv, TypeOK, HttpTypeOK, ClosedIsDrained, Servers
<1>5. request' \in [Requests -> {"none", "arrived", "found", "running", "answered"}]
  BY DEF RestIInv, TypeOK, Arrive, FindRoute, Invoke, Respond, HangUp, Goes, requestVars
<1>6. owner' \in [Requests -> Owners]
  BY DEF RestIInv, TypeOK, Arrive, FindRoute, Invoke, Respond, HangUp, Goes, requestVars
<1>7. TypeOK'
  BY <1>1, <1>3, <1>5, <1>6 DEF RestIInv, TypeOK, contextVars, handlerVars, serverVars
<1>8. HandlerFirst' /\ Orderly'
  BY <1>1 DEF RestIInv, HandlerFirst, ListensWithHandler, Orderly, OneCall, SocketOfCurrent,
      SocketOfCall, CallOfSocket, PortKnown, handlerVars, serverVars
<1>9. RoutesCurrent'
  BY <1>1, SameRoutes
<1> QED
  BY <1>4, <1>7, <1>8, <1>9 DEF RestIInv

\* Every step preserves the invariant.
LEMMA NextIInv == RestIInv /\ [Next]_vars => RestIInv'
<1> SUFFICES ASSUME RestIInv, [Next]_vars PROVE RestIInv'
  OBVIOUS
<1>1. CASE Notify
  BY <1>1, NotifyIInv
<1>2. CASE \/ Api
           \/ \E c \in Controllers : BindController(c) \/ UnbindController(c)
           \/ \E k \in Keys : Route(k) \/ UnbindRoute(k)
  BY <1>2, ContextIInv
<1>3. ASSUME NEW c \in Callers,
             Start(c) \/ Listen(c) \/ Listens(c) \/ ListenFails(c) \/ Stop(c) \/ Stopped(c)
      PROVE  RestIInv'
  BY <1>3, StartIInv, ListenIInv, ListensIInv, ListenFailsIInv, StopIInv, StoppedIInv
<1>4. ASSUME NEW s \in Servers, SocketEvent(s) PROVE RestIInv'
  BY <1>4, SocketIInv
<1>5. ASSUME NEW r \in Requests, Arrive(r) \/ FindRoute(r) \/ Invoke(r) \/ Respond(r) \/ HangUp(r)
      PROVE  RestIInv'
  BY <1>5, RequestIInv
<1>6. CASE UNCHANGED vars
  <2>1. TypeOK'
    BY <1>6 DEF RestIInv, TypeOK, HttpTypeOK, vars, httpVars, contextVars, handlerVars, serverVars,
        requestVars
  <2>2. RoutesCurrent' /\ HandlerFirst' /\ ClosedIsDrained' /\ Orderly'
    BY <1>6, SameRoutes, SameServer DEF vars, handlerVars
  <2> QED
    BY <2>1, <2>2 DEF RestIInv
<1> QED
  BY <1>1, <1>2, <1>3, <1>4, <1>5, <1>6 DEF Next

---------------------------------------------------------------------------
(* The theorems. *)

\* The inductive invariant holds in every reachable state.
THEOREM Invariance == Spec => []RestIInv
BY InitIInv, NextIInv, PTL DEF Spec

\* When no notification is on its way, the table of the server is what the context of
\* the moment asks for, and after a rebuild that failed it serves nobody who has gone:
\* for any controllers, routes and sequence of changes (_createHttpHandler).
THEOREM TableFollowsContext == Spec => []RoutesCurrent
<1>1. RestIInv => RoutesCurrent
  BY DEF RestIInv
<1> QED
  BY <1>1, Invariance, PTL

\* As long as start() and stop() do not overlap, the socket that is open is that of
\* _httpServer, at the port that it was given first, with a handler behind it.
THEOREM ServerListensRight == Spec => []ListensRight
<1>1. ASSUME RestIInv PROVE ListensRight
  <2>1. TypeOK /\ ListensWithHandler
    BY <1>1 DEF RestIInv, HandlerFirst
  <2>2. OnlyCurrentListens
    BY <1>1 DEF RestIInv, Orderly, SocketOfCurrent, OnlyCurrentListens, Listening
  <2>3. PortKept
    BY <1>1 DEF RestIInv, Orderly, PortKnown, PortKept
  <2> QED
    BY <2>1, <2>2, <2>3 DEF ListensRight
<1> QED
  BY <1>1, Invariance, PTL

\* Whatever is rebuilt, a route of the user's own is lost to nobody but a controller that
\* is bound and offers the same verb and path.
THEOREM UsersKeepRoutes == Spec => UserRoutesKept
<1>1. ASSUME RestIInv, [Next]_vars, NEW k \in Keys, bound[k] = User, bound'[k] # User
      PROVE  UnbindRoute(k) \/ \E c \in Controllers : Claims(c, k)
  <2>1. CASE \E n : Rebuild(n)
    <3>1. bound'[k] = Rebound(k) /\ TypeOK
      BY <1>1, <2>1 DEF Rebuild, RestIInv
    <3> QED
      BY <1>1, <3>1, ReboundOwner
  <2>2. CASE ~ \E n : Rebuild(n)
    <3>1. bound' # bound /\ ~Notify /\ bound \in [Keys -> Owners]
      BY <1>1, <2>2 DEF Notify, RestIInv, TypeOK
    <3>2. \/ UNCHANGED bound
          \/ \E l \in Keys : Route(l) \/ UnbindRoute(l)
      BY <1>1, <2>2, <3>1 DEF Next, vars, contextVars, Api, BindController, UnbindController, Start,
          Listen, Listens, ListensOn, ListenFails, Stop, StopAs, Stopped, StoppedWhen, SocketEvent,
          Arrive, FindRoute, Invoke, Respond, HangUp, Goes
    <3>3. PICK l \in Keys : Route(l) \/ UnbindRoute(l)
      BY <3>1, <3>2
    <3>4. CASE Route(l)
      BY <1>1, <3>1, <3>4 DEF Route
    <3>5. CASE UnbindRoute(l)
      BY <1>1, <3>1, <3>5 DEF UnbindRoute
    <3> QED
      BY <3>3, <3>4, <3>5
  <2> QED
    BY <2>1, <2>2
<1>2. RestIInv /\ [Next]_vars =>
        [\A k \in Keys : bound[k] = User /\ bound'[k] # User =>
            UnbindRoute(k) \/ \E c \in Controllers : Claims(c, k)]_vars
  BY <1>1
<1> QED
  BY <1>2, Invariance, PTL DEF Spec, UserRoutesKept

\* When a stop() that has closed its server returns, no connection of that server is left.
THEOREM StopHasDrained == Spec => StopDrains
<1>1. ASSUME RestIInv, [Next]_vars, NEW c \in Callers, call[c].at = "closing", call'[c].at = "idle",
             NEW r \in Requests
      PROVE  conn[r] # call[c].server
  <2>1. call \in [Callers -> [at : {"idle", "starting", "opening", "closing"},
                              server : Servers \cup {0}]]
    BY <1>1 DEF RestIInv, TypeOK
  <2>2. ASSUME NEW d \in Callers, call' = [call EXCEPT ![d] = Idle], call[d].at = "opening" PROVE FALSE
    BY <1>1, <2>1, <2>2
  <2>3. \/ UNCHANGED call
        \/ \E d \in Callers : Start(d) \/ Listen(d) \/ Listens(d) \/ ListenFails(d) \/ Stop(d) \/ Stopped(d)
    BY <1>1 DEF Next, vars, serverVars, Notify, Api, Changed, BindController, UnbindController, Route,
        UnbindRoute, SocketEvent, Arrive, FindRoute, Invoke, Respond, HangUp, Goes
  <2>4. PICK d \in Callers : Start(d) \/ Listen(d) \/ Listens(d) \/ ListenFails(d) \/ Stop(d) \/ Stopped(d)
    BY <1>1, <2>3
  <2>5. ASSUME Start(d) \/ Listen(d) \/ Stop(d) PROVE FALSE
    BY <1>1, <2>1, <2>5 DEF Start, MayCall, Listen, Stop, StopAs
  <2>6. ASSUME Listens(d) \/ ListenFails(d) PROVE FALSE
    BY <2>2, <2>6 DEF Listens, ListensOn, ListenFails
  <2>7. Stopped(d) /\ d = c
    BY <1>1, <2>1, <2>4, <2>5, <2>6 DEF Stopped, StoppedWhen
  <2>8. phase[call[c].server] = "closed" /\ call[c].server \in Servers
    BY <1>1, <2>7 DEF Stopped, StoppedWhen, RestIInv, HandlerFirst
  <2> QED
    BY <1>1, <2>8 DEF RestIInv, ClosedIsDrained
<1>2. RestIInv /\ [Next]_vars =>
        [\A c \in Callers : call[c].at = "closing" /\ call'[c].at = "idle" =>
            \A r \in Requests : conn[r] # call[c].server]_vars
  BY <1>1
<1> QED
  BY <1>2, Invariance, PTL DEF Spec, StopDrains
===============================================================================

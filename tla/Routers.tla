------------------------------- MODULE Routers -------------------------------
(***************************************************************************)
(* The two routers of packages/rest/src/router as functions of the routes   *)
(* that were added to them, in order, and of a request.                     *)
(*                                                                          *)
(* A path is a sequence of segments, each a literal or the variable of a    *)
(* template that takes all of a segment.  Names are numbers, in the order   *)
(* of the characters they stand for; the encoded form of a name is its      *)
(* negative.  Routes and requests have a verb of Verbs, in lower case, and  *)
(* may end in a slash; the path "/" is no segment and a slash.              *)
(***************************************************************************)
EXTENDS Integers, SequencesExt, Selection, Subject

Literal(n) == [var |-> FALSE, name |-> n]
Variable(n) == [var |-> TRUE, name |-> n]
\* The verbs in the order of HTTP_VERBS.
Verbs == <<"post", "put", "patch", "get", "head", "delete", "options">>

Decode(n) == IF n < 0 THEN 0 - n ELSE n

HasVariables(route) == \E i \in 1..Len(route.path) : route.path[i].var

\* The routes of rs with, or without, variables, the later ones last.
Templates(rs) == Within(rs, {r \in ToSet(rs) : HasVariables(r)})
Statics(rs) == Within(rs, {r \in ToSet(rs) : ~HasVariables(r)})

\* The name a literal segment of a request has to be equal to.
Spells(segment, n) == ~segment.var /\ segment.name = n

NotFound == [found |-> FALSE, route |-> [verb |-> "get", path |-> <<>>, slash |-> TRUE],
             params |-> <<>>]
Found(route, params) == [found |-> TRUE, route |-> route, params |-> params]

\* routesWithoutPathVars: routes by verb and path; a later route replaces an earlier one.
FindStatic(rs, verb, path, slash) ==
    LET same(r) == /\ r.verb = verb /\ r.slash = slash /\ Len(r.path) = Len(path)
                   /\ \A i \in 1..Len(path) : Spells(r.path[i], path[i])
        found == Within(Statics(rs), {r \in ToSet(rs) : same(r)})
    IN  IF found = <<>> THEN NotFound ELSE Found(found[Len(found)], <<>>)

---------------------------------------------------------------------------
(* TrieRouter.  The trie of a verb: the templates that were added, in order.  *)
(* A node is the sequence of segments that leads to it (empty ones are       *)
(* dropped).                                                                 *)

TrieOf(rs, verb) == Within(Templates(rs), {r \in ToSet(rs) : r.verb = verb})

\* The nodes that n keys or fewer lead to.
Nodes(trie, n) ==
    {<<>>} \cup {node \in UNION {Prefixes(r.path) : r \in ToSet(trie)} : Len(node) <= n}

\* The keys of a node's children in the order they were created.
Children(trie, node) ==
    LET n == Len(node) + 1
        below == Within(trie, {r \in ToSet(trie) : Len(r.path) >= n
                                                  /\ SubSeq(r.path, 1, n - 1) = node})
    IN  Distinct([i \in 1..Len(below) |-> below[i].path[n]])

ValuesAt(trie, node) == {i \in 1..Len(trie) : trie[i].path = node}
HasValue(trie, node) == ValuesAt(trie, node) # {}

\* create(): a second value for the same keys throws, and the node keeps its own.
ValueAt(trie, node) ==
    trie[CHOOSE i \in ValuesAt(trie, node) : \A j \in ValuesAt(trie, node) : i <= j]

\* Mutant: the first variable is tried alone.
FirstChild(trie, node, key) ==
    LET children == Children(trie, node)
        literal == Within(children, {s \in ToSet(children) : Spells(s, key)})
        variable == Within(children, {s \in ToSet(children) : s.var})
    IN  IF literal # <<>> THEN literal
        ELSE IF variable # <<>> THEN <<variable[1]>> ELSE <<>>

\* The children that match a key: the literal one alone if there is one.
MatchChildren(trie, node, key) ==
    LET children == Children(trie, node)
        literal == Within(children, {s \in ToSet(children) : Spells(s, key)})
    IN  IF literal # <<>> THEN literal ELSE Within(children, {s \in ToSet(children) : s.var})

Nowhere == [is |-> FALSE, node |-> <<>>]
Reached(node) == [is |-> TRUE, node |-> node]

\* search(): children are tried in order until one leads to a value.
Search(trie, keys) ==
    LET found[node \in Nodes(trie, Len(keys))] ==
            LET children == MatchChildren(trie, node, keys[Len(node) + 1])
                below == [i \in 1..Len(children) |-> found[Append(node, children[i])]]
                good == {i \in DOMAIN below : below[i].is /\ HasValue(trie, below[i].node)}
            IN  IF Len(node) = Len(keys) THEN Reached(node)
                ELSE IF good = {} THEN Nowhere
                ELSE below[CHOOSE i \in good : \A j \in good : i <= j]
    IN  found[<<>>]

\* The values of parameters are decoded; of two with one name the outer one is kept.
TrieParams(node, keys) ==
    LET vars == {i \in 1..Len(node) : node[i].var}
    IN  [n \in {node[i].name : i \in vars} |->
            Decode(keys[CHOOSE i \in vars : /\ node[i].name = n
                                           /\ \A j \in vars : node[j].name = n => i <= j])]

\* match()
TrieMatch(trie, path) ==
    LET resolved == Search(trie, path)
    IN  IF resolved.is /\ HasValue(trie, resolved.node)
        THEN Found(ValueAt(trie, resolved.node), TrieParams(resolved.node, path))
        ELSE NotFound

\* A trailing slash makes no difference, strict or not.
TrieFindRoute(rs, verb, path, slash, strict) ==
    IF FindStatic(rs, verb, path, slash).found THEN FindStatic(rs, verb, path, slash)
    ELSE TrieMatch(TrieOf(rs, verb), path)

---------------------------------------------------------------------------
(* RegExpRouter: the first route, sorted by compareRoute, that matches.      *)

Wild == 1000  \* "{}", above every name

Token(segment) == IF segment.var THEN Wild ELSE segment.name

VerbRank(verb) == CHOOSE i \in 1..Len(Verbs) : Verbs[i] = verb

\* compareRoute(r, s) < 0: by the first tokens that differ, the longer path before its
\* prefix, and the verb last.
Before(r, s) ==
    LET shorter == IF Len(r.path) < Len(s.path) THEN Len(r.path) ELSE Len(s.path)
        differ == {i \in 1..shorter : Token(r.path[i]) # Token(s.path[i])}
        first == CHOOSE i \in differ : \A j \in differ : i <= j
    IN  IF differ # {} THEN Token(r.path[first]) < Token(s.path[first])
        ELSE IF Len(r.path) # Len(s.path) THEN Len(r.path) > Len(s.path)
        ELSE VerbRank(r.verb) < VerbRank(s.verb)

\* The regular expression of a route: a slash at the end of the route is required, one at
\* the end of the request is allowed unless strict.
RegExpMatches(route, verb, path, slash, strict) ==
    /\ route.verb = verb
    /\ Len(route.path) = Len(path)
    /\ \A i \in 1..Len(path) : route.path[i].var \/ Spells(route.path[i], path[i])
    /\ route.slash => slash
    /\ strict => route.slash = slash

\* Of two parameters with one name the last is kept; values are as they come.
BuildPathParams(route, path) ==
    LET vars == {i \in 1..Len(route.path) : route.path[i].var}
    IN  [n \in {route.path[i].name : i \in vars} |->
            path[CHOOSE i \in vars : /\ route.path[i].name = n
                                     /\ \A j \in vars : route.path[j].name = n => j <= i]]

RegExpFindRoute(rs, verb, path, slash, strict) ==
    LET ts == Templates(rs)
        matching == {i \in 1..Len(ts) : RegExpMatches(ts[i], verb, path, slash, strict)}
        \* sort() is stable
        first == CHOOSE i \in matching : \A j \in matching \ {i} :
                    Before(ts[i], ts[j]) \/ (~Before(ts[j], ts[i]) /\ i < j)
    IN  IF FindStatic(rs, verb, path, slash).found THEN FindStatic(rs, verb, path, slash)
        ELSE IF matching = {} THEN NotFound
        ELSE Found(ts[first], BuildPathParams(ts[first], path))

---------------------------------------------------------------------------
(* find() of both: not strict, the path is tried with its slash and without. *)

FindIn(findRoute, request, strict) ==
    LET exact == findRoute[request.slash]
    IN  IF strict \/ exact.found \/ request.path = <<>> THEN exact
        ELSE findRoute[~request.slash]

TrieFind(rs, request, strict) ==
    FindIn([slash \in BOOLEAN |-> TrieFindRoute(rs, request.verb, request.path, slash, strict)],
           request, strict)
RegExpFind(rs, request, strict) ==
    FindIn([slash \in BOOLEAN |-> RegExpFindRoute(rs, request.verb, request.path, slash, strict)],
           request, strict)

---------------------------------------------------------------------------
(* What routers are given: routes, requests and, in both, no path but "/"    *)
(* without a segment.                                                        *)
Segments == [var : {FALSE}, name : 1..(Wild - 1)] \cup [var : {TRUE}, name : Nat]
Addressed(segments) ==
    {r \in [verb : ToSet(Verbs), path : Seq(segments), slash : BOOLEAN] :
        r.path = <<>> => r.slash}
RoutedCalls == [rs : Seq(Addressed(Segments)), requests : SUBSET Addressed(Int)]

---------------------------------------------------------------------------
(* Properties, of routes rs, a request and what the two routers find for it. *)

Results(rs, request, strict) ==
    [trie |-> TrieFind(rs, request, strict), regExp |-> RegExpFind(rs, request, strict)]

\* What it is for a route to match a request, whatever the router.
Matches(route, request) ==
    /\ route.verb = request.verb
    /\ Len(route.path) = Len(request.path)
    /\ \A i \in 1..Len(request.path) :
            route.path[i].var \/ Spells(route.path[i], request.path[i])

\* A literal of some route that hides the routes with a variable in its place.
Shadowed(rs, route, request) ==
    \E s \in 1..Len(rs), i \in 1..Len(request.path) :
        /\ route.path[i].var /\ Len(rs[s].path) >= i /\ rs[s].verb = route.verb
        /\ Spells(rs[s].path[i], request.path[i])
        /\ \A j \in 1..(i - 1) :
                route.path[j] = rs[s].path[j] \/ (route.path[j].var /\ rs[s].path[j].var)

\* Variables in one place, below the same segments, have one name.
NamesAgree(rs) ==
    \A i, j \in 1..Len(rs) : \A n \in 1..Len(rs[i].path) :
        (/\ rs[i].verb = rs[j].verb /\ n <= Len(rs[j].path)
         /\ SubSeq(rs[i].path, 1, n - 1) = SubSeq(rs[j].path, 1, n - 1)
         /\ rs[i].path[n].var /\ rs[j].path[n].var) => rs[i].path[n] = rs[j].path[n]

IsStatic(route) == ~HasVariables(route)

\* What the routers find matches the request, and a route without variables for exactly
\* this path comes before all templates (BaseRouter.find, Trie.match, RegExpRouter).
RouteMatchesRequest(rs, request, results) ==
    \A found \in {results.trie, results.regExp} :
        /\ found.found => Matches(found.route, request)
        /\ (\E i \in 1..Len(rs) : IsStatic(rs[i]) /\ Matches(rs[i], request)
                                  /\ rs[i].slash = request.slash)
            => found.found /\ IsStatic(found.route)

\* "Not found" is said only when no route matches; TrieRouter says it also when a literal
\* of another route hides all those that match, as it does not come back from a literal.
NotFoundOnlyIf(rs, request, results) ==
    LET matching == {i \in 1..Len(rs) : Matches(rs[i], request)}
    IN  /\ matching # {} => results.regExp.found
        /\ (\E i \in matching : IsStatic(rs[i]) \/ ~Shadowed(Templates(rs), rs[i], request))
            => results.trie.found

\* Both routers find the same path, in whatever order the routes were added: provided that
\* one place has one name for its variable, that no template ends in a slash, and that a
\* literal only hides templates from requests its own route matches.
OrderIrrelevant(rs, request, results) ==
    LET ts == Templates(rs)
        inOtherOrder == SetToSeq(ToSet(rs))
        found == RegExpFind(inOtherOrder, request, FALSE)
    IN  (/\ NamesAgree(ts)
         /\ \A i \in 1..Len(ts) :
              /\ ~ts[i].slash
              /\ Matches(ts[i], request) =>
                    \A j \in 1..Len(ts) :
                        Shadowed(<<ts[j]>>, ts[i], request) => Matches(ts[j], request))
        => \A same \in {results.regExp, results.trie} :
                same.found = found.found /\ same.route = found.route

\* What is found has the value of each place under the name of its variable, as long as
\* the names in the path differ.
HasParams(found, values) ==
    LET path == found.route.path
        vars == {i \in 1..Len(path) : path[i].var}
    IN  (found.found /\ \A i, j \in vars : path[i] = path[j] => i = j)
            => \A i \in vars : found.params[path[i].name] = values[i]

\* Each value reaches the parameter of its place: decoded by TrieRouter, raw by
\* RegExpRouter.
ParamsOfPlaces(request, results) ==
    /\ HasParams(results.trie, [i \in 1..Len(request.path) |-> Decode(request.path[i])])
    /\ HasParams(results.regExp, request.path)

\* RouteMatchesRequest, NotFoundOnlyIf, OrderIrrelevant and ParamsOfPlaces: what TrieRouter
\* and RegExpRouter find matches the request, they find nothing only where they may, and
\* they agree whatever the order in which routes were added, on the route and on which
\* value reaches which parameter.
RoutersFind ==
    subject = "routes" => \A request \in input.requests :
        /\ \A results \in {Results(input.rs, request, strict) : strict \in BOOLEAN} :
                RouteMatchesRequest(input.rs, request, results)
        /\ \A results \in {Results(input.rs, request, FALSE)} :
                /\ NotFoundOnlyIf(input.rs, request, results)
                /\ OrderIrrelevant(input.rs, request, results)
                /\ ParamsOfPlaces(request, results)
=============================================================================

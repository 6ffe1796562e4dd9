------------------------------ MODULE MCOperators ------------------------------
(***************************************************************************)
(* One instance for the parts of the system that a single request meets one *)
(* after the other: the routers, the order of interceptors and middleware,  *)
(* the vote of the authorizers, the constraints of relations, inclusion, a  *)
(* relation through another model, a pool of resources, the index of tags,  *)
(* the metadata of decorators and the schemas of models.  The routers,      *)
(* orders, constraints and inclusion are functions, checked on every input  *)
(* of small sets; subject is what a behaviour is about.                     *)
(***************************************************************************)
EXTENDS ThroughRelation, Pooling, TagIndex, Decorators, JsonSchemas, Routers, MiddlewareOrder, AuthorizationVote,
        RelationConstraints, Inclusion, TLC

SeqsUpTo(S, n) == UNION {[1..k -> S] : k \in 0..n}

L(n) == Literal(n)
V(n) == Variable(n)
\* Routes: literals and differently named variables in both places, one that ends in a
\* slash, one of another verb.
Route(verb, path, slash) == [verb |-> verb, path |-> path, slash |-> slash]
Routes ==
    {Route("get", path, FALSE) : path \in
        {<<L(1)>>, <<V(1)>>, <<L(1), V(3)>>, <<V(1), L(1)>>, <<V(1), L(2)>>,
         <<V(2), L(1)>>, <<V(2), V(2)>>, <<V(1), V(2)>>}}
    \cup {Route("post", <<V(1), L(1)>>, FALSE), Route("get", <<V(1)>>, TRUE),
          Route("get", <<L(1)>>, TRUE), Route("get", <<>>, TRUE)}
Requests ==
    {Route("get", path, slash) : path \in SeqsUpTo({1, 2, -1}, 2) \ {<<>>}, slash \in BOOLEAN}
    \cup {Route("get", <<>>, TRUE), Route("post", <<1, 1>>, FALSE)}

RouterInputs == [rs : [1..3 -> Routes], requests : {Requests}]

InterceptorInputs ==
    {[bindings |-> [i \in 1..3 |-> [key |-> i, group |-> groups[i],
                                    sources |-> IF i = 1 THEN restricted ELSE {}]],
      order |-> order, source |-> source, onClass |-> onClass, onMethod |-> onMethod] :
        groups \in [1..3 -> 0..2], restricted \in {{}, {"proxy"}},
        order \in {<<>>, <<2>>, <<2, 1>>, <<1, 0>>}, source \in {"unknown", "route"},
        onClass \in {<<>>, <<<<3, 4>>>>, <<<<4, 5, 4>>, <<3, 4>>>>},
        onMethod \in {<<>>, <<<<5, 5>>>>, <<<<4, 5>>, <<5, 2>>>>}}

Simple == {Condition(f) : f \in PropFunctions({{1}, {2}})}
Compound == {[c EXCEPT !.or = <<x, y>>] : c \in Simple, x \in Simple, y \in {NoCondition, Condition([id |-> {1}])}}
            \cup {[c EXCEPT !.and = <<x>>] : c \in Simple, x \in Simple}
ConstraintInputs ==
    [where : Simple \cup Compound,
     constraint : Simple \cup {[NoCondition EXCEPT !.or = <<x>>] : x \in Simple}
                         \cup {[NoCondition EXCEPT !.and = <<x>>] : x \in Simple},
     data : {[id |-> 1, order |-> 1]}, key : {[id |-> 1]}]
    \cup [where : {NoCondition}, constraint : {NoCondition},
          data : PropFunctions(1..2), key : PropFunctions(1..2)]

Types == {"s", "t"}
Rows(keys) == [i \in 1..Len(keys) |-> [key |-> keys[i], id |-> i]]
Entities(keys) == [i \in 1..Len(keys) |-> [key |-> keys[i]]]
Limits(n, m) == [limit : 0..n, totalLimit : 0..m]

InclusionInputs ==
    [kind : {"hasMany"}, entities : {Entities(k) : k \in SeqsUpTo(0..2, 2)},
     table : {Rows(k) : k \in SeqsUpTo(1..2, 3)}, scope : Limits(2, 2)]
    \cup
    [kind : {"byType"}, entities : [1..2 -> [key : {NoKey, 0, 1, 2}, type : Types]],
     tables : [Types -> {Rows(k) : k \in {<<>>, <<1>>, <<2, 1>>, <<1, 1>>, <<0, 2>>}}],
     scope : Limits(1, 0)]
    \cup
    [kind : {"references"}, entities : {Entities(k) : k \in [1..2 -> SeqsUpTo(0..2, 2)]},
     table : {Rows(k) : k \in {<<>>, <<1>>, <<2, 1>>, <<0, 1, 2>>}}, scope : Limits(1, 0)]
    \cup
    [kind : {"through"}, entities : {Entities(k) : k \in {<<1, 2>>, <<2, 1>>}},
     through : SeqsUpTo([key : 1..2, to : 1..2, type : Types], 2)
               \cup [1..3 -> [key : 1..2, to : 1..2, type : {"s"}]],
     tables : [Types -> {Rows(k) : k \in {<<1>>, <<1, 2>>, <<2, 1>>}}], scope : Limits(1, 0)]

MiddlewareInputs ==
    {[bindings |-> [i \in 1..2 |-> [key |-> i, group |-> groups[i], sources |-> {},
                                    upstream |-> up[i], downstream |-> down[i]]],
      orderedGroups |-> ordered] :
        groups \in [1..2 -> 1..3], up \in [1..2 -> {{}, {1}, {2, 3}}],
        down \in [1..2 -> {{}, {1}, {3}}], ordered \in {<<>>, <<2>>, <<1, 2>>, <<3, 1, 2>>}}

\* The inputs are those that the functions are stated for.
ASSUME InputsAreMeant ==
    /\ RouterInputs \subseteq RoutedCalls
    /\ InterceptorInputs \subseteq InterceptedCalls(1..5, {"proxy", "route"})
    /\ MiddlewareInputs \subseteq MiddlewareChains(1..2)
    /\ ConstraintInputs \subseteq ConstrainedCalls
    /\ InclusionInputs \subseteq IncludedCalls({NoKey, 0, 1, 2}, Types)

Functions ==
    \/ subject = "routes" /\ input \in RouterInputs
    \/ subject = "interceptors" /\ input \in InterceptorInputs
    \/ subject = "middleware" /\ input \in MiddlewareInputs
    \/ subject = "constraints" /\ input \in ConstraintInputs
    \/ subject = "inclusion" /\ input \in InclusionInputs

NoTables == targets = [t \in TargetIds |-> "none"] /\ rows = {}

\* Two bindings with one key and a third.
MCTaggedKey == (1 :> "k") @@ (2 :> "k") @@ (3 :> "other")
MCTagPatterns ==
    {NamePattern(t) : t \in TagNames} \cup {RegExpPattern(ts) : ts \in SUBSET TagNames}
    \cup {MapPattern(names, [t \in ToSet(names) |-> values[t]]) :
            names \in {<<"x">>, <<"x", "y">>}, values \in [TagNames -> {{1}, {1, 2}}]}

\* Two decorators share the first spec, and each may be applied more than once.  As specs and
\* members differ in their number alone, they are first used in its order.
MCSpecOf == <<1, 1, 2, 3, 4>>
MCDecorate ==
    /\ DecoratorNext
    /\ \A i \in 1..Len(applied') : applied'[i].by <= i + 1 /\ applied'[i].member <= i

\* Each model refers to one at most, the first to two.
EdgeTo(to, relation) == [to |-> to, relation |-> relation]
OneEdge == {<<>>} \cup {<<EdgeTo(m, r)>> : m \in Models, r \in BOOLEAN}
TwoEdges ==
    {<<e, f>> : e, f \in [to : Models, relation : BOOLEAN]}
SchemaGraphs ==
    {g \in [Models -> OneEdge \cup TwoEdges] : \A m \in Models \ {1} : g[m] \in OneEdge}
\* Which of the other models is 2 and which 3 makes no difference.
MCGraphs ==
    {g \in SchemaGraphs :
        /\ Len(g[1]) = 2 => g[1][1] # g[1][2] /\ (g[1][1].relation => g[1][2].relation)
        /\ LET others == SelectSeq(g[1], LAMBDA e : e.to # 1)
           IN  others # <<>> => Head(others).to = 2}
NoPolicy == [defaultDecision |-> "deny", precedence |-> "deny",
             defaultMetadata |-> "none", metadata |-> "none"]
NoGraph == [m \in Models |-> <<>>]

otherVars == <<tagVars, decoratorVars, schemaVars, voteVars>>

\* The values of variables that a subject is not about are given before the choices.
MCInit ==
    /\ Init
    /\ PoolInit
    /\ TagInit
    /\ \/ NoTables /\ Functions
       \/ subject \in {"pool", "tags", "metadata", "schemas", "votes"} /\ input = <<>> /\ NoTables
       \/ subject = "relation" /\ input = <<>>
    /\ subject # "metadata" => factory = [kind |-> "property", allowInheritance |-> TRUE]
    /\ DecoratorInit
    /\ SchemaInit(IF subject = "schemas" THEN MCGraphs ELSE {NoGraph})
    /\ subject # "votes" => policy = NoPolicy
    /\ IF subject = "votes" THEN VoteInit(SeqsUpTo(Votes, 1), SeqsUpTo(Votes, 2))
       ELSE VoteInit({<<>>}, {<<>>})

MCNext ==
    /\ \/ subject = "relation" /\ Next /\ UNCHANGED <<poolVars, otherVars>>
       \/ subject = "pool" /\ PoolNext /\ UNCHANGED <<vars, otherVars>>
       \/ subject = "tags" /\ TagNext /\ UNCHANGED <<vars, poolVars, decoratorVars, schemaVars, voteVars>>
       \/ subject = "metadata" /\ MCDecorate /\ UNCHANGED <<vars, poolVars, tagVars, schemaVars, voteVars>>
       \/ subject = "schemas" /\ SchemaNext /\ UNCHANGED <<vars, poolVars, tagVars, decoratorVars, voteVars>>
       \/ subject = "votes" /\ VoteNext /\ UNCHANGED <<vars, poolVars, tagVars, decoratorVars, schemaVars>>
    /\ UNCHANGED <<subject, input>>

MCSpec == MCInit /\ [][MCNext]_<<vars, poolVars, otherVars, subject, input>>

\* Which caller, target or borrower is which makes no difference.
MCSymmetry ==
    Permutations(Callers) \cup Permutations(TargetIds) \cup Permutations(Borrowers)
=============================================================================

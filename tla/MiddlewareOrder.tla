--------------------------- MODULE MiddlewareOrder ---------------------------
(***************************************************************************)
(* The order of the middleware of a chain: MiddlewareView of                *)
(* packages/express/src/middleware.ts with group-sorter.ts.  The binding of *)
(* a middleware is a record of its key, its group and the groups it names   *)
(* as upstream and as downstream; asMiddleware() sees to it that each has  *)
(* a group.  toposort is a library: it may return any order that keeps all  *)
(* the edges.                                                               *)
(***************************************************************************)
EXTENDS InterceptorOrder

\* Mutant: what a middleware names as downstream is left out.
UpstreamOnly(bindings, orderedGroups) ==
    (UNION {{<<d, b.group>> : d \in b.upstream} : b \in ToSet(bindings)})
    \cup {<<orderedGroups[i], orderedGroups[i + 1]>> : i \in 1..(Len(orderedGroups) - 1)}

\* The partial orders of the bindings, and the groups of the options, as edges.
Edges(bindings, orderedGroups) ==
    (UNION {{<<d, b.group>> : d \in b.upstream} : b \in ToSet(bindings)})
    \cup (UNION {{<<b.group, d>> : d \in b.downstream} : b \in ToSet(bindings)})
    \cup {<<orderedGroups[i], orderedGroups[i + 1]>> : i \in 1..(Len(orderedGroups) - 1)}

\* sortListOfGroups: none where the edges have a cycle, when it throws.
SortedGroups(edges) ==
    {order \in SetToSeqs(UNION {{e[1], e[2]} : e \in edges}) :
        \A e \in edges : IndexOf(order, e[1]) < IndexOf(order, e[2])}

\* buildMiddlewareKeys
MiddlewareKeys(bindings, order) ==
    LET sorted == SortByGroup(bindings, order)
    IN  [i \in 1..Len(sorted) |-> sorted[i].key]

---------------------------------------------------------------------------
(* Properties, of the bindings found and the groups of the options. *)

\* What a chain of middleware is given.
MiddlewareChains(keys) ==
    LET groups == {d \in SUBSET Nat : IsFiniteSet(d)}
    IN  [bindings : {s \in Seq([key : keys, group : Nat, sources : {{}},
                                upstream : groups, downstream : groups]) : OnceBound(s)},
         orderedGroups : Seq(Nat)]

\* Whatever order toposort chooses, a middleware runs after those of its upstream groups,
\* before those of its downstream groups, and as the options order the groups; those of
\* one group run as they were found, and those of groups that nobody orders before all
\* the others.
MiddlewareInOrder(bindings, orderedGroups) ==
    LET edges == Edges(bindings, orderedGroups)
        ordered == Len(orderedGroups) > 1
        named(g) == \/ \E b \in ToSet(bindings) :
                        \/ g \in b.upstream \cup b.downstream
                        \/ g = b.group /\ b.upstream \cup b.downstream # {}
                    \/ ordered /\ Contains(orderedGroups, g)
    IN  \A order \in SortedGroups(edges) : \A i, j \in 1..Len(bindings) :
            LET x == bindings[i]
                y == bindings[j]
            IN  (\/ x.group \in y.upstream \/ y.group \in x.downstream
                 \/ ordered /\ Precedes(orderedGroups, x.group, y.group)
                 \/ x.group = y.group /\ i < j
                 \/ ~named(x.group) /\ named(y.group))
                => Precedes(MiddlewareKeys(bindings, order), x.key, y.key)

\* EachOnce, InnermostLevel and GroupOrderKept of InterceptorOrder, for loadInterceptors(),
\* and MiddlewareInOrder: a chain runs each of its interceptors once, at the innermost level
\* that names it and in the order of the groups, and each middleware after its upstream and
\* before its downstream groups.
ChainsInOrder ==
    /\ subject = "interceptors" =>
          /\ EachOnce(input.bindings, input.order, input.source, input.onClass, input.onMethod)
          /\ InnermostLevel(input.bindings, input.order, input.source, input.onClass,
                            input.onMethod)
          /\ GroupOrderKept(input.bindings, input.order, input.source, input.onClass,
                            input.onMethod)
    /\ subject = "middleware" => MiddlewareInOrder(input.bindings, input.orderedGroups)
=============================================================================

--------------------------- MODULE InterceptorOrder ---------------------------
(***************************************************************************)
(* Which interceptors a method is called with, and in which order:          *)
(* InterceptedInvocationContext.loadInterceptors of                         *)
(* packages/context/src/interceptor.ts with binding-sorter.ts.  The chain   *)
(* they make is that of InterceptorChain.                                   *)
(*                                                                          *)
(* An interceptor is a key; a function is a key of its own.  The binding of *)
(* a global interceptor is a record of its key, its group and the sources   *)
(* it is restricted to.  Groups are numbers in alphabetical order, 0 for    *)
(* the empty name of those without a tag.                                   *)
(***************************************************************************)
EXTENDS Integers, SequencesExt, Selection, Subject

\* indexOf
IndexOf(order, x) == SelectInSeq(order, LAMBDA v : v = x)

\* compareByOrder: groups of the order by their places, after all the others, and these
\* by name.
CompareByOrder(a, b, order) ==
    IF IndexOf(order, a) # 0 \/ IndexOf(order, b) # 0
    THEN IndexOf(order, a) - IndexOf(order, b)
    ELSE a - b

\* The elements of s where a strict order R of their indexes puts them.
Arranged(s, R) ==
    LET place == [i \in DOMAIN s |-> 1 + Cardinality({j \in DOMAIN s : <<j, i>> \in R})]
    IN  [p \in DOMAIN s |-> s[CHOOSE i \in DOMAIN s : place[i] = p]]

\* sortBindingsByPhase.  sort() is stable: a binding comes after those it is greater than
\* and those before it that are equal.
SortByGroup(bindings, order) ==
    LET Before(j, i) ==
            LET c == CompareByOrder(bindings[j].group, bindings[i].group, order)
            IN  c < 0 \/ (c = 0 /\ j < i)
    IN  Arranged(bindings, {e \in (DOMAIN bindings) \X (DOMAIN bindings) : Before(e[1], e[2])})

\* No sources: the tag is not there.
ApplicableTo(binding, source) ==
    source = "unknown" \/ binding.sources = {} \/ source \in binding.sources

\* getGlobalInterceptorBindingKeys
GlobalKeys(bindings, order, source) ==
    LET applied == Within(bindings, {b \in ToSet(bindings) : ApplicableTo(b, source)})
        sorted == SortByGroup(applied, order)
    IN  [i \in 1..Len(sorted) |-> sorted[i].key]

\* mergeInterceptors
MergeInterceptors(fromSpec, existing) ==
    Within(Distinct(fromSpec), ToSet(fromSpec) \ ToSet(existing)) \o Distinct(existing)

\* mergeWithOwn of @intercept: decorators are applied from the last to the first.
Decorated(specs) ==
    LET merged[n \in 0 .. Len(specs)] ==
            IF n = 0 THEN <<>>
            ELSE MergeInterceptors(specs[Len(specs) + 1 - n], merged[n - 1])
    IN  merged[Len(specs)]

\* loadInterceptors: class level before method level, global ones before both.
LoadInterceptors(global, onClass, onMethod) ==
    MergeInterceptors(global, MergeInterceptors(Decorated(onClass), Decorated(onMethod)))

---------------------------------------------------------------------------
(* Properties, of what is found on one method. *)

\* What a call of a method is given: the global interceptors found, a key once, the order
\* of their groups, the source of the call, and what @intercept names on class and method.
OnceBound(bindings) ==
    \A i, j \in DOMAIN bindings : bindings[i].key = bindings[j].key => i = j
InterceptedCalls(keys, sources) ==
    [bindings : {s \in Seq([key : keys, group : Nat, sources : SUBSET sources]) : OnceBound(s)},
     order : Seq(Nat), source : sources \cup {"unknown"},
     onClass : Seq(Seq(keys)), onMethod : Seq(Seq(keys))]

\* In s, a comes before b.
Precedes(s, a, b) == \E i, j \in 1..Len(s) : i < j /\ s[i] = a /\ s[j] = b

\* No interceptor runs twice, none that applies is left out, and no other one runs.
EachOnce(bindings, order, source, onClass, onMethod) ==
    LET loaded == LoadInterceptors(GlobalKeys(bindings, order, source), onClass, onMethod)
    IN  /\ IsInjective(loaded)
        /\ ToSet(loaded) =
             {b.key : b \in {x \in ToSet(bindings) :
                source = "unknown" \/ x.sources = {} \/ source \in x.sources}}
             \cup UNION {ToSet(spec) : spec \in ToSet(onClass) \cup ToSet(onMethod)}

\* An interceptor runs at the innermost level that names it: those of the method after
\* those of the class, and these after the global ones.
InnermostLevel(bindings, order, source, onClass, onMethod) ==
    LET loaded == LoadInterceptors(GlobalKeys(bindings, order, source), onClass, onMethod)
        method == UNION {ToSet(spec) : spec \in ToSet(onMethod)}
        class == (UNION {ToSet(spec) : spec \in ToSet(onClass)}) \ method
        \* the decorator furthest from the method that names it does not count
        last(x, specs) == CHOOSE i \in 1..Len(specs) :
            Contains(specs[i], x) /\ \A j \in (i + 1)..Len(specs) : ~Contains(specs[j], x)
    IN  /\ \A x, y \in ToSet(loaded) :
             (y \in method /\ x \notin method) \/ (y \in class /\ x \notin method \cup class)
                => Precedes(loaded, x, y)
        /\ \A x, y \in method : last(x, onMethod) < last(y, onMethod) => Precedes(loaded, x, y)

\* Global interceptors run in the order of their groups: groups outside of the order
\* first, by name, then those of the order; in a group as they were found.
GroupOrderKept(bindings, order, source, onClass, onMethod) ==
    LET loaded == LoadInterceptors(GlobalKeys(bindings, order, source), onClass, onMethod)
        elsewhere == UNION {ToSet(spec) : spec \in ToSet(onClass) \cup ToSet(onMethod)}
        ahead(g, h) == \/ IndexOf(order, g) < IndexOf(order, h)
                       \/ IndexOf(order, g) = IndexOf(order, h) /\ g < h
    IN  \A i, j \in 1..Len(bindings) :
            LET x == bindings[i]
                y == bindings[j]
            IN  (/\ {x.key, y.key} \subseteq ToSet(loaded) \ elsewhere
                 /\ ahead(x.group, y.group) \/ (x.group = y.group /\ i < j))
                => Precedes(loaded, x.key, y.key)
=============================================================================

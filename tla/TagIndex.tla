------------------------------- MODULE TagIndex -------------------------------
(***************************************************************************)
(* ContextTagIndexer (packages/context/src/context-tag-indexer.ts): each    *)
(* context of a chain keeps an index of its bindings by tag, so that        *)
(* findByTag() need not look at all of them.  The index hears of bindings   *)
(* that come and go from the events of its context, and of new tags from    *)
(* those of the bindings.  All of this is synchronous.                      *)
(*                                                                          *)
(* Context 1 is the root of the chain, c - 1 the parent of c.  A value that *)
(* a pattern asks of a tag is the set of values it accepts.                 *)
(***************************************************************************)
EXTENDS Integers, SequencesExt

CONSTANTS
    ChainLength,  \* the number of contexts
    Tagged,       \* the bindings
    TaggedKey,    \* TaggedKey[b]: the key of a binding
    TagNames,
    TagValues,
    TagPatterns   \* what findByTag() is asked for

ASSUME TagAssumption ==
    /\ ChainLength \in Nat \ {0} /\ DOMAIN TaggedKey = Tagged
    /\ \A p \in TagPatterns : p.names \in Seq(TagNames)

VARIABLES
    inContext,  \* inContext[c]: the bindings in the registry of c
    tagMap,     \* tagMap[b]: its tags, a function of some names to values
    tagIndex,   \* tagIndex[c]: the bindings with each tag, as c knows them
    listenedTo  \* listenedTo[c]: the bindings whose changes the index of c hears of

tagVars == <<inContext, tagMap, tagIndex, listenedTo>>

Chain == 1..ChainLength

TagInit ==
    /\ inContext = [c \in Chain |-> {}]
    /\ tagMap = [b \in Tagged |-> <<>>]
    /\ tagIndex = [c \in Chain |-> [t \in TagNames |-> {}]]
    /\ listenedTo = [c \in Chain |-> {}]

Without(index, bs) == [t \in TagNames |-> index[t] \ bs]

\* updateTagIndexForBinding
WithTagsOf(index, b, tags) ==
    [t \in TagNames |-> IF t \in DOMAIN tags THEN index[t] \cup {b} ELSE index[t] \ {b}]

\* Context.add: a binding with the same key is replaced, and its unbind event comes first.
AddTagged(c, b) ==
    LET replaced == {x \in inContext[c] : TaggedKey[x] = TaggedKey[b]}
    IN  /\ b \notin inContext[c]
        /\ inContext' = [inContext EXCEPT ![c] = (@ \ replaced) \cup {b}]
        /\ tagIndex' = [tagIndex EXCEPT ![c] = WithTagsOf(Without(@, replaced), b, tagMap[b])]
        /\ listenedTo' = [listenedTo EXCEPT ![c] = (@ \ replaced) \cup {b}]
        /\ UNCHANGED tagMap

\* Mutant: the listener stays on the binding.
UnbindTaggedOnly(c, b) ==
    /\ b \in inContext[c]
    /\ inContext' = [inContext EXCEPT ![c] = @ \ {b}]
    /\ tagIndex' = [tagIndex EXCEPT ![c] = Without(@, {b})]
    /\ UNCHANGED <<tagMap, listenedTo>>

\* Context.unbind
UnbindTagged(c, b) ==
    /\ b \in inContext[c]
    /\ inContext' = [inContext EXCEPT ![c] = @ \ {b}]
    /\ tagIndex' = [tagIndex EXCEPT ![c] = Without(@, {b})]
    /\ listenedTo' = [listenedTo EXCEPT ![c] = @ \ {b}]
    /\ UNCHANGED tagMap

\* Binding.tag, of a binding that is bound in no context, in one or in several.
TagBinding(b, t, v) ==
    LET tags == [n \in DOMAIN tagMap[b] \cup {t} |-> IF n = t THEN v ELSE tagMap[b][n]]
    IN  /\ tags # tagMap[b]
        /\ tagMap' = [tagMap EXCEPT ![b] = tags]
        /\ tagIndex' = [c \in Chain |-> IF b \in listenedTo[c]
                                        THEN WithTagsOf(tagIndex[c], b, tags)
                                        ELSE tagIndex[c]]
        /\ UNCHANGED <<inContext, listenedTo>>

TagNext ==
    \/ \E c \in Chain, b \in Tagged : AddTagged(c, b) \/ UnbindTagged(c, b)
    \/ \E b \in Tagged, t \in TagNames, v \in TagValues : TagBinding(b, t, v)

TagSpec == TagInit /\ [][TagNext]_tagVars

---------------------------------------------------------------------------
(* Patterns: a name, a regular expression as the names it matches, or a map. *)
NamePattern(t) == [is |-> "name", names |-> <<t>>, accepts |-> [n \in {t} |-> TagValues]]
RegExpPattern(ts) == [is |-> "regexp", names |-> SetToSeq(ts), accepts |-> [n \in ts |-> TagValues]]
MapPattern(names, accepts) == [is |-> "map", names |-> names, accepts |-> accepts]

\* filterByTag: a map needs all of its tags, a regular expression one of its names.  What a
\* pattern accepts is a value: matchers that accept a tag that is missing (matchTagValue) are
\* left out.
TagFilter(p, b) ==
    LET has(t) == t \in DOMAIN tagMap[b] /\ tagMap[b][t] \in p.accepts[t]
    IN  IF p.is = "regexp" THEN \E t \in ToSet(p.names) : has(t)
        ELSE \A t \in ToSet(p.names) : has(t)

\* findByTagIndex: the union for a regular expression; else the bindings in all the sets up
\* to the first that is empty, where the search stops.
FindByTagIndex(c, p) ==
    LET matched(t) == {b \in tagIndex[c][t] : TagFilter(p, b)}
        empty == {i \in 1..Len(p.names) : matched(p.names[i]) = {}}
        visited == {i \in 1..Len(p.names) : \A j \in empty : i < j}
    IN  IF p.is = "regexp" THEN UNION {matched(t) : t \in ToSet(p.names)}
        ELSE IF visited = {} THEN {}
        ELSE {b \in Tagged : \A i \in visited : b \in matched(p.names[i])}

\* _findByTagIndex: a binding of the parent is hidden by one of the child with its key that
\* is found as well (_mergeWithParent).
MergedChain(found, c) ==
    LET merged[d \in 0..ChainLength] ==
            IF d = 0 THEN {}
            ELSE found[d] \cup {b \in merged[d - 1] :
                                    \A x \in found[d] : TaggedKey[x] # TaggedKey[b]}
    IN  merged[c]

FindByTag(c, p) == MergedChain([d \in Chain |-> FindByTagIndex(d, p)], c)

---------------------------------------------------------------------------
\* findByTag() finds by the index of tags what a look at every binding of the chain would
\* find, whatever was bound, unbound, replaced or tagged before, in the context or outside
\* of it.  The empty map is the exception: as a filter it matches all bindings, by the
\* index none.
TagsFindBindings ==
    \A p \in TagPatterns, c \in Chain : p.names # <<>> =>
        FindByTag(c, p) =
            MergedChain([d \in Chain |-> {b \in inContext[d] : TagFilter(p, b)}], c)
=============================================================================

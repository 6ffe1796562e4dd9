--------------------------- MODULE OperatorsProofs ---------------------------
(***************************************************************************)
(* Proofs about parts of the system that MCOperators checks together: a    *)
(* pool of resources, the index of tags, the vote of the authorizers, the  *)
(* schemas of models, the has-many-through relation, the constraints of    *)
(* relations and the inclusion of related models, each for any values of   *)
(* its constants.                                                          *)
(***************************************************************************)
EXTENDS Pooling, TagIndex, Decorators, JsonSchemas, AuthorizationVote, ThroughRelation,
        RelationConstraints, Inclusion, DataFacts, TLAPS

---------------------------------------------------------------------------
(* The pool *)

\* Who holds a resource, or has held one to its end, knows which.
LoanNamesResource ==
    \A b \in Borrowers : loan[b].at \in HoldingAt \cup {"done"} => loan[b].has \in Resources

\* What goes back to the pool has been cleaned up.
ReturnedIsClean ==
    \A b \in Borrowers : loan[b].at = "returning" =>
        loan[b].has \notin used \/ loan[b].has \in again

\* A pool that has been drained lends nothing any more.
DrainedLendsNothing ==
    stopping \in {"clearing", "stopped"} =>
        /\ \A r \in Resources : resource[r] # "lent"
        /\ \A b \in Borrowers : ~LoanAt(b, "waiting")

\* A pool that has been cleared keeps nothing.
ClearedKeepsNothing == stopping = "stopped" => \A r \in Resources : resource[r] # "idle"

\* The conjunction that every step preserves: StopLeavesNothing follows from it.
PoolIInv ==
    /\ PoolTypeOK
    /\ LoanNamesResource
    /\ OneBorrower
    /\ LentIsHeld
    /\ IdleIsClean
    /\ ReturnedIsClean
    /\ DrainedLendsNothing
    /\ ClearedKeepsNothing

USE DEF LoanAt, Holds, HoldingAt

---------------------------------------------------------------------------
(* Every step preserves the invariant. *)

\* The pool begins without resources and loans.
LEMMA PoolInitIInv == PoolInit => PoolIInv
BY PoolAssumption DEF PoolInit, PoolIInv, PoolTypeOK, LoanType, LoanNamesResource, OneBorrower,
    LentIsHeld, IdleIsClean, ReturnedIsClean, DrainedLendsNothing, ClearedKeepsNothing

\* Every step of the pool and of those who borrow from it preserves it.
LEMMA PoolNextIInv == PoolIInv /\ [PoolNext]_poolVars => PoolIInv'
<1> SUFFICES ASSUME PoolIInv, [PoolNext]_poolVars PROVE PoolIInv'
  OBVIOUS
<1> USE DEF PoolIInv, PoolTypeOK, LoanType, LoanNamesResource
<1>1. ASSUME NEW b \in Borrowers, Borrow(b) PROVE PoolIInv'
  BY <1>1 DEF Borrow, Moves, OneBorrower, LentIsHeld, IdleIsClean, ReturnedIsClean,
      DrainedLendsNothing, ClearedKeepsNothing
<1>2. ASSUME NEW b \in Borrowers, Lend(b) PROVE PoolIInv'
  <2>1. PICK r \in Resources :
            /\ resource[r] \in {"idle", "none"}
            /\ resource' = [resource EXCEPT ![r] = "lent"]
            /\ loan' = [loan EXCEPT ![b].at = "setup", ![b].has = r]
            /\ used' = used \cup {r}
            /\ loan[b].at = "waiting" /\ stopping' = stopping /\ again' = again
    BY <1>2 DEF Lend
  <2>2. PoolTypeOK' /\ LoanNamesResource'
    BY <2>1
  \* Nobody held what was idle, or had not been made.
  <2>3. OneBorrower'
    BY <2>1 DEF OneBorrower
  <2>4. LentIsHeld'
    BY <2>1 DEF LentIsHeld
  <2>5. IdleIsClean' /\ ReturnedIsClean'
    BY <2>1 DEF IdleIsClean, ReturnedIsClean, OneBorrower
  <2>6. DrainedLendsNothing' /\ ClearedKeepsNothing'
    BY <2>1 DEF DrainedLendsNothing, ClearedKeepsNothing
  <2> QED
    BY <2>2, <2>3, <2>4, <2>5, <2>6
<1>3. ASSUME NEW b \in Borrowers, SetUp(b) \/ GiveBack(b) PROVE PoolIInv'
  BY <1>3 DEF SetUp, GiveBack, Moves, Discards, OneBorrower, LentIsHeld, IdleIsClean,
      ReturnedIsClean, DrainedLendsNothing, ClearedKeepsNothing
<1>4. ASSUME NEW b \in Borrowers, ReleaseAgain(b) PROVE PoolIInv'
  BY <1>4 DEF ReleaseAgain, Moves, OneBorrower, LentIsHeld, IdleIsClean, ReturnedIsClean,
      DrainedLendsNothing, ClearedKeepsNothing
<1>5. ASSUME NEW b \in Borrowers, CleanUp(b) PROVE PoolIInv'
  <2>1. PoolTypeOK' /\ LoanNamesResource'
    BY <1>5 DEF CleanUp, Moves, Discards
  <2>2. OneBorrower' /\ LentIsHeld'
    BY <1>5 DEF CleanUp, Moves, Discards, OneBorrower, LentIsHeld
  \* The resource is used no longer, and it stays with b.
  <2>3. IdleIsClean' /\ ReturnedIsClean'
    BY <1>5 DEF CleanUp, Moves, Discards, OneBorrower, IdleIsClean, ReturnedIsClean
  <2>4. DrainedLendsNothing' /\ ClearedKeepsNothing'
    BY <1>5 DEF CleanUp, Moves, Discards, DrainedLendsNothing, ClearedKeepsNothing
  <2> QED
    BY <2>1, <2>2, <2>3, <2>4
<1>6. ASSUME NEW b \in Borrowers, Return(b) PROVE PoolIInv'
  <2>1. PoolTypeOK' /\ LoanNamesResource'
    BY <1>6 DEF Return, Moves, Discards
  <2>2. OneBorrower'
    BY <1>6 DEF Return, Moves, Discards, OneBorrower
  <2>3. LentIsHeld'
    BY <1>6 DEF Return, Moves, Discards, LentIsHeld
  \* What b returns has been cleaned up.
  <2>4. IdleIsClean' /\ ReturnedIsClean'
    BY <1>6 DEF Return, Moves, Discards, IdleIsClean, ReturnedIsClean
  <2>5. DrainedLendsNothing' /\ ClearedKeepsNothing'
    BY <1>6 DEF Return, Moves, Discards, DrainedLendsNothing, ClearedKeepsNothing
  <2> QED
    BY <2>1, <2>2, <2>3, <2>4, <2>5
<1>7. ASSUME NEW b \in Borrowers, Discard(b) PROVE PoolIInv'
  BY <1>7 DEF Discard, Moves, OneBorrower, LentIsHeld, IdleIsClean, ReturnedIsClean,
      DrainedLendsNothing, ClearedKeepsNothing
<1>8. ASSUME StopPool \/ Drained \/ Clear PROVE PoolIInv'
  BY <1>8 DEF StopPool, Drained, Clear, OneBorrower, LentIsHeld, IdleIsClean, ReturnedIsClean,
      DrainedLendsNothing, ClearedKeepsNothing
<1>9. CASE UNCHANGED poolVars
  BY <1>9 DEF poolVars, OneBorrower, LentIsHeld, IdleIsClean, ReturnedIsClean,
      DrainedLendsNothing, ClearedKeepsNothing
<1> QED
  BY <1>1, <1>2, <1>3, <1>4, <1>5, <1>6, <1>7, <1>8, <1>9 DEF PoolNext

---------------------------------------------------------------------------
(* Theorems *)

\* The inductive invariant holds in every reachable state.
THEOREM PoolInvariance == PoolSpec => []PoolIInv
BY PoolInitIInv, PoolNextIInv, PTL DEF PoolSpec

\* PoolingService keeps its promises whichever hooks fail and whenever it is stopped: one
\* borrower for a resource, none lost, none lent again unclean, none left by stop().
THEOREM PoolKeepsItsPromises == PoolSpec => []PoolInv
<1>1. PoolIInv => StopLeavesNothing
  \* After stop() nothing is lent, so whoever holds a resource got it twice.
  <2> SUFFICES ASSUME PoolIInv, stopping = "stopped" PROVE StopLeavesNothing
    BY DEF StopLeavesNothing
  <2>1. Live = {}
    BY DEF PoolIInv, DrainedLendsNothing, ClearedKeepsNothing, Live
  <2>2. ASSUME NEW b \in Borrowers, loan[b].at \in HoldingAt PROVE loan[b].has \in again
    BY <2>2 DEF PoolIInv, LoanNamesResource, OneBorrower, DrainedLendsNothing
  <2> QED
    BY <2>1, <2>2 DEF StopLeavesNothing
<1>2. PoolIInv => PoolInv
  BY <1>1 DEF PoolIInv, PoolInv
<1> QED
  BY <1>2, PoolInvariance, PTL

HIDE DEF LoanAt, Holds, HoldingAt

---------------------------------------------------------------------------
(* The index of tags *)

USE TagAssumption

\* An index hears of the bindings of its context and of no others.
ListensToOwn == listenedTo = inContext

\* An index holds with each tag the bindings of its context that have the tag.
IndexOfContext ==
    \A c \in Chain, t \in TagNames :
        tagIndex[c][t] = {b \in inContext[c] : t \in DOMAIN tagMap[b]}

\* The conjunction that every step preserves.
TagIInv ==
    /\ inContext \in [Chain -> SUBSET Tagged]
    /\ DOMAIN tagMap = Tagged
    /\ tagIndex \in [Chain -> [TagNames -> SUBSET Tagged]]
    /\ ListensToOwn
    /\ IndexOfContext

\* The chain begins without bindings.
LEMMA TagInitIInv == TagInit => TagIInv
BY DEF TagInit, TagIInv, ListensToOwn, IndexOfContext

\* The index of a binding's tags holds it with these and with no others.
LEMMA IndexWithTags ==
    ASSUME NEW index \in [TagNames -> SUBSET Tagged], NEW b \in Tagged, NEW tags
    PROVE  /\ WithTagsOf(index, b, tags) \in [TagNames -> SUBSET Tagged]
           /\ \A t \in TagNames, x \in Tagged :
                 x \in WithTagsOf(index, b, tags)[t] <=>
                     IF x = b THEN t \in DOMAIN tags ELSE x \in index[t]
BY DEF WithTagsOf

\* An index without some bindings holds the others as before.
LEMMA IndexWithout ==
    ASSUME NEW index \in [TagNames -> SUBSET Tagged], NEW bs
    PROVE  /\ Without(index, bs) \in [TagNames -> SUBSET Tagged]
           /\ \A t \in TagNames, x \in Tagged :
                 x \in Without(index, bs)[t] <=> x \in index[t] /\ x \notin bs
BY DEF Without

\* A binding that is added comes into the index, and who had its key goes.
LEMMA AddIInv ==
    ASSUME TagIInv, NEW c \in Chain, NEW b \in Tagged, AddTagged(c, b)
    PROVE  TagIInv'
<1> DEFINE replaced == {x \in inContext[c] : TaggedKey[x] = TaggedKey[b]}
           without == Without(tagIndex[c], replaced)
<1>1. /\ inContext' = [inContext EXCEPT ![c] = (@ \ replaced) \cup {b}]
      /\ tagIndex' = [tagIndex EXCEPT ![c] = WithTagsOf(without, b, tagMap[b])]
      /\ listenedTo' = [listenedTo EXCEPT ![c] = (@ \ replaced) \cup {b}]
      /\ tagMap' = tagMap
  BY DEF AddTagged
<1>2. tagIndex[c] \in [TagNames -> SUBSET Tagged] /\ inContext[c] \in SUBSET Tagged
  BY DEF TagIInv
<1> HIDE DEF replaced
<1>3. /\ without \in [TagNames -> SUBSET Tagged]
      /\ \A t \in TagNames, x \in Tagged : x \in without[t] <=> x \in tagIndex[c][t] /\ x \notin replaced
  BY <1>2, IndexWithout
<1> HIDE DEF without
<1>4. /\ WithTagsOf(without, b, tagMap[b]) \in [TagNames -> SUBSET Tagged]
      /\ \A t \in TagNames, x \in Tagged :
            x \in WithTagsOf(without, b, tagMap[b])[t] <=>
                IF x = b THEN t \in DOMAIN tagMap[b] ELSE x \in without[t]
  BY <1>3, IndexWithTags
<1>5. inContext' \in [Chain -> SUBSET Tagged] /\ tagIndex' \in [Chain -> [TagNames -> SUBSET Tagged]]
  BY <1>1, <1>4 DEF TagIInv
<1>6. ListensToOwn'
  BY <1>1 DEF TagIInv, ListensToOwn
<1>7. ASSUME NEW d \in Chain, NEW t \in TagNames
      PROVE  tagIndex'[d][t] = {x \in inContext'[d] : t \in DOMAIN tagMap'[x]}
  <2>1. tagIndex[d][t] = {x \in inContext[d] : t \in DOMAIN tagMap[x]}
    BY DEF TagIInv, IndexOfContext
  <2>2. CASE d # c
    BY <1>1, <2>1, <2>2 DEF TagIInv
  <2>3. CASE d = c
    <3>1. tagIndex'[c] = WithTagsOf(without, b, tagMap[b]) /\ inContext'[c] = (inContext[c] \ replaced) \cup {b}
      BY <1>1 DEF TagIInv
    <3>2. \A x \in Tagged : x \in tagIndex'[c][t] <=> x \in inContext'[c] /\ t \in DOMAIN tagMap[x]
      BY <1>3, <1>4, <2>1, <2>3, <3>1
    <3>3. tagIndex'[c][t] \subseteq Tagged /\ inContext'[c] \subseteq Tagged
      BY <1>5
    <3> QED
      BY <1>1, <2>3, <3>2, <3>3
  <2> QED
    BY <2>2, <2>3
<1> QED
  BY <1>1, <1>5, <1>6, <1>7 DEF TagIInv, IndexOfContext

\* A binding that is unbound goes out of the index.
LEMMA UnbindIInv ==
    ASSUME TagIInv, NEW c \in Chain, NEW b \in Tagged, UnbindTagged(c, b)
    PROVE  TagIInv'
<1>1. /\ inContext' = [inContext EXCEPT ![c] = @ \ {b}]
      /\ tagIndex' = [tagIndex EXCEPT ![c] = Without(@, {b})]
      /\ listenedTo' = [listenedTo EXCEPT ![c] = @ \ {b}]
      /\ tagMap' = tagMap
  BY DEF UnbindTagged
<1>2. tagIndex[c] \in [TagNames -> SUBSET Tagged] /\ inContext[c] \in SUBSET Tagged
  BY DEF TagIInv
<1>3. /\ Without(tagIndex[c], {b}) \in [TagNames -> SUBSET Tagged]
      /\ \A t \in TagNames, x \in Tagged :
            x \in Without(tagIndex[c], {b})[t] <=> x \in tagIndex[c][t] /\ x \notin {b}
  BY <1>2, IndexWithout
<1>4. inContext' \in [Chain -> SUBSET Tagged] /\ tagIndex' \in [Chain -> [TagNames -> SUBSET Tagged]]
  BY <1>1, <1>3 DEF TagIInv
<1>5. ListensToOwn'
  BY <1>1 DEF TagIInv, ListensToOwn
<1>6. ASSUME NEW d \in Chain, NEW t \in TagNames
      PROVE  tagIndex'[d][t] = {x \in inContext'[d] : t \in DOMAIN tagMap'[x]}
  <2>1. tagIndex[d][t] = {x \in inContext[d] : t \in DOMAIN tagMap[x]}
    BY DEF TagIInv, IndexOfContext
  <2>2. CASE d # c
    BY <1>1, <2>1, <2>2 DEF TagIInv
  <2>3. CASE d = c
    <3>1. tagIndex'[c] = Without(tagIndex[c], {b}) /\ inContext'[c] = inContext[c] \ {b}
      BY <1>1 DEF TagIInv
    <3>2. \A x \in Tagged : x \in tagIndex'[c][t] <=> x \in inContext'[c] /\ t \in DOMAIN tagMap[x]
      BY <1>3, <2>1, <2>3, <3>1
    <3>3. tagIndex'[c][t] \subseteq Tagged /\ inContext'[c] \subseteq Tagged
      BY <1>4
    <3> QED
      BY <1>1, <2>3, <3>2, <3>3
  <2> QED
    BY <2>2, <2>3
<1> QED
  BY <1>1, <1>4, <1>5, <1>6 DEF TagIInv, IndexOfContext

\* A binding that is tagged is indexed again wherever it is bound.
LEMMA TagBindingIInv ==
    ASSUME TagIInv, NEW b \in Tagged, NEW n \in TagNames, NEW v \in TagValues, TagBinding(b, n, v)
    PROVE  TagIInv'
<1>1. PICK tags :
          /\ tagMap' = [tagMap EXCEPT ![b] = tags]
          /\ tagIndex' = [c \in Chain |-> IF b \in listenedTo[c]
                                          THEN WithTagsOf(tagIndex[c], b, tags)
                                          ELSE tagIndex[c]]
          /\ UNCHANGED <<inContext, listenedTo>>
  BY DEF TagBinding
<1>2. \A c \in Chain :
          /\ tagIndex[c] \in [TagNames -> SUBSET Tagged] /\ inContext[c] \in SUBSET Tagged
          /\ listenedTo[c] = inContext[c]
  BY DEF TagIInv, ListensToOwn
<1>3. \A c \in Chain : WithTagsOf(tagIndex[c], b, tags) \in [TagNames -> SUBSET Tagged]
  BY <1>2, IndexWithTags
<1>4. DOMAIN tagMap' = Tagged /\ tagMap'[b] = tags /\ \A x \in Tagged : x # b => tagMap'[x] = tagMap[x]
  BY <1>1 DEF TagIInv
<1>5. tagIndex' \in [Chain -> [TagNames -> SUBSET Tagged]]
  BY <1>1, <1>2, <1>3
<1>6. ASSUME NEW c \in Chain, NEW t \in TagNames
      PROVE  tagIndex'[c][t] = {x \in inContext'[c] : t \in DOMAIN tagMap'[x]}
  <2>1. tagIndex[c][t] = {x \in inContext[c] : t \in DOMAIN tagMap[x]}
    BY DEF TagIInv, IndexOfContext
  <2>2. tagIndex'[c][t] \subseteq Tagged /\ inContext'[c] = inContext[c] /\ inContext[c] \subseteq Tagged
    BY <1>1, <1>2, <1>5
  <2>3. CASE b \in inContext[c]
    <3>1. tagIndex'[c] = WithTagsOf(tagIndex[c], b, tags)
      BY <1>1, <1>2, <2>3
    <3>2. \A x \in Tagged : x \in tagIndex'[c][t] <=>
              IF x = b THEN t \in DOMAIN tags ELSE x \in tagIndex[c][t]
      BY <1>2, <3>1, IndexWithTags
    <3>3. \A x \in Tagged : x \in tagIndex'[c][t] <=> x \in inContext[c] /\ t \in DOMAIN tagMap'[x]
      BY <1>4, <2>1, <2>3, <3>2
    <3> QED
      BY <2>2, <3>3
  <2>4. CASE b \notin inContext[c]
    BY <1>1, <1>2, <1>4, <2>1, <2>2, <2>4
  <2> QED
    BY <2>3, <2>4
<1> QED
  BY <1>1, <1>4, <1>5, <1>6 DEF TagIInv, ListensToOwn, IndexOfContext

\* Every step preserves the invariant.
LEMMA TagNextIInv == TagIInv /\ [TagNext]_tagVars => TagIInv'
<1> SUFFICES ASSUME TagIInv, [TagNext]_tagVars PROVE TagIInv'
  OBVIOUS
<1>1. CASE UNCHANGED tagVars
  BY <1>1 DEF TagIInv, ListensToOwn, IndexOfContext, tagVars
<1> QED
  BY <1>1, AddIInv, UnbindIInv, TagBindingIInv DEF TagNext

\* Where the index is that of its context, the search by the index finds what the filter
\* accepts: a regular expression by the union of its tags, a name or map by any of them.
LEMMA FindsByIndex ==
    ASSUME TagIInv, NEW c \in Chain, NEW p, p.names \in Seq(TagNames), p.names # <<>>
    PROVE  FindByTagIndex(c, p) = {b \in inContext[c] : TagFilter(p, b)}
<1> DEFINE found == {b \in inContext[c] : TagFilter(p, b)}
           matched(t) == {b \in tagIndex[c][t] : TagFilter(p, b)}
           has(b, t) == t \in DOMAIN tagMap[b] /\ tagMap[b][t] \in p.accepts[t]
<1>1. /\ Len(p.names) \in Nat /\ Len(p.names) # 0 /\ 1 \in 1 .. Len(p.names)
      /\ \A i \in 1 .. Len(p.names) : p.names[i] \in TagNames
      /\ ToSet(p.names) = {p.names[i] : i \in 1 .. Len(p.names)}
  BY DEF ToSet
<1>2. \A t \in TagNames : matched(t) = {b \in inContext[c] : t \in DOMAIN tagMap[b] /\ TagFilter(p, b)}
  BY DEF TagIInv, IndexOfContext
<1>3. found \subseteq Tagged
  BY DEF TagIInv
<1>4. CASE p.is = "regexp"
  <2>1. FindByTagIndex(c, p) = UNION {matched(t) : t \in ToSet(p.names)}
    BY <1>4 DEF FindByTagIndex
  <2>2. \A b : TagFilter(p, b) => \E t \in ToSet(p.names) : t \in DOMAIN tagMap[b]
    BY <1>4 DEF TagFilter
  <2>3. ToSet(p.names) \subseteq TagNames
    BY <1>1
  <2>4. \A b : b \in UNION {matched(t) : t \in ToSet(p.names)} <=> b \in found
    BY <1>2, <2>2, <2>3
  <2> QED
    BY <2>1, <2>4
<1>5. CASE p.is # "regexp"
  <2> DEFINE empty == {i \in 1 .. Len(p.names) : matched(p.names[i]) = {}}
             lookedAt == {i \in 1 .. Len(p.names) : \A j \in empty : i < j}
  <2>1. FindByTagIndex(c, p) =
            IF lookedAt = {} THEN {} ELSE {b \in Tagged : \A i \in lookedAt : b \in matched(p.names[i])}
    BY <1>5 DEF FindByTagIndex
  <2>2. \A b : TagFilter(p, b) => \A t \in ToSet(p.names) : t \in DOMAIN tagMap[b]
    BY <1>5 DEF TagFilter
  <2>3. \A i \in 1 .. Len(p.names) : matched(p.names[i]) = found
    BY <1>1, <1>2, <2>2
  <2> HIDE DEF matched, found
  <2>4. CASE found = {}
    <3>1. empty = 1 .. Len(p.names)
      BY <2>3, <2>4
    <3>2. lookedAt = {}
      <4>1. \A i \in 1 .. Len(p.names) : i \in empty
        BY <3>1
      <4>2. \A i \in Int : ~(i < i)
        OBVIOUS
      <4> HIDE DEF empty
      <4> QED
        BY <1>1, <4>1, <4>2
    <3> QED
      BY <2>1, <2>4, <3>2 DEF found
  <2>5. CASE found # {}
    <3>1. empty = {}
      BY <2>3, <2>5
    <3>2. lookedAt = 1 .. Len(p.names) /\ lookedAt # {}
      BY <1>1, <3>1
    <3>3. FindByTagIndex(c, p) = {b \in Tagged : \A i \in 1 .. Len(p.names) : b \in found}
      BY <2>1, <2>3, <3>2
    <3> QED
      BY <1>1, <1>3, <3>3 DEF found
  <2> QED
    BY <2>4, <2>5
<1> QED
  BY <1>4, <1>5

---------------------------------------------------------------------------
(* The theorems. *)

\* The inductive invariant holds in every reachable state.
THEOREM TagInvariance == TagSpec => []TagIInv
BY TagInitIInv, TagNextIInv, PTL DEF TagSpec

\* However bindings come, go, are replaced, are shared by contexts and get tags, the index
\* finds what a look at every binding would: for any chain, any tags and any patterns
\* (findByTagIndex against filterByTag).
THEOREM IndexFindsAll == TagSpec => []TagsFindBindings
<1>1. ASSUME TagIInv PROVE TagsFindBindings
  <2>1. ASSUME NEW p \in TagPatterns, NEW c \in Chain, p.names # <<>>
        PROVE  FindByTag(c, p) =
                  MergedChain([d \in Chain |-> {b \in inContext[d] : TagFilter(p, b)}], c)
    <3>1. \A d \in Chain : FindByTagIndex(d, p) = {b \in inContext[d] : TagFilter(p, b)}
      BY <1>1, <2>1, FindsByIndex
    <3>2. [d \in Chain |-> FindByTagIndex(d, p)]
            = [d \in Chain |-> {b \in inContext[d] : TagFilter(p, b)}]
      BY <3>1
    <3> QED
      BY <3>2 DEF FindByTag
  <2> QED
    BY <2>1 DEF TagsFindBindings
<1> QED
  BY <1>1, TagInvariance, PTL

HIDE TagAssumption

---------------------------------------------------------------------------
(* The metadata of decorators *)

\* The objects of specs and copies are records with a value and a target.
Objects(O) ==
    /\ O = [o \in 1 .. 2 * Specs |-> O[o]]
    /\ \A o \in 1 .. 2 * Specs : O[o] = [value |-> O[o].value, target |-> O[o].target]

UsedSpecs == {SpecOf[applied[i].by] : i \in DOMAIN applied}

Decorations == DecorationsIn(Classes, Members)

\* The decorations of a class, or of its member, among all decorations.
LEMMA DecorationsPart ==
    ASSUME NEW cls \in Classes, NEW m \in Members
    PROVE  /\ DecorationsIn({cls}, {m}) = {a \in Decorations : a.at = cls /\ a.member = m}
           /\ DecorationsIn({cls}, Members) = {a \in Decorations : a.at = cls}
<1>1. DecorationsIn({cls}, {m}) = {a \in Decorations : a.at = cls /\ a.member = m}
  BY DEF Decorations, DecorationsIn
<1>2. DecorationsIn({cls}, Members) = {a \in Decorations : a.at = cls}
  BY DEF Decorations, DecorationsIn
<1> QED
  BY <1>1, <1>2

\* A member of the subclass inherits an object.
Inherits(m) == factory.allowInheritance /\ DecorationsOf("base", m) # <<>>

\* Object o has this value and, where targets are looked at, this target.
Held(O, o, value, target) ==
    /\ o \in 1 .. 2 * Specs /\ O[o].value = value
    /\ factory.kind # "multi" => O[o].target = target

\* A member of the base class has the spec of its first decoration, with what it should have
\* by now.
BaseMember(O, o, m) ==
    LET own == DecorationsOf("base", m)
    IN  IF own = <<>> THEN o = NoObject
        ELSE /\ o = SpecOf[own[1].by]
             /\ Held(O, o, OwnValue("base", m), "base")
             /\ factory.kind # "multi" => Len(own) = 1

BaseHolds(O, F) == \A m \in Members : BaseMember(O, F[m], m)

\* What a member of the subclass has once the subclass has metadata of its own.
SubValueIs(m) ==
    LET own == OwnValue("sub", m)
        inherited == OwnValue("base", m)
        merges == factory.kind = "parameter" \/ FirstOf("sub").member = m
    IN  IF ~factory.allowInheritance THEN own
        ELSE IF factory.kind = "multi" THEN inherited \o own
        ELSE IF own = <<>> THEN inherited
        ELSE IF merges THEN Assigned(inherited, own) ELSE own

\* A member of the subclass has a copy of what it inherits, or the spec of its first
\* decoration, with what it should have by now.
SubMember(O, o, m) ==
    LET own == DecorationsOf("sub", m)
    IN  IF own = <<>> /\ ~Inherits(m) THEN o = NoObject
        ELSE /\ \/ Inherits(m) /\ o = metadata["base"].of[m] + Specs
                \/ own # <<>> /\ o = SpecOf[own[1].by]
             /\ Held(O, o, SubValueIs(m), IF own = <<>> THEN "none" ELSE "sub")
             /\ factory.kind # "multi" => Len(own) <= 1

SubHolds(O, F) == \A m \in Members : SubMember(O, F[m], m)

\* The member of the class is as it should be.
MemberHolds(cls, m) ==
    IF cls = "base" THEN BaseMember(object, metadata["base"].of[m], m)
    ELSE SubMember(object, metadata["sub"].of[m], m)

\* The metadata where nothing is shared: what no decorator has used is as it was.
Undisturbed ==
    /\ Objects(object)
    /\ metadata \in [Classes -> [is : BOOLEAN, of : [Members -> 0 .. 2 * Specs]]]
    /\ \A s \in 1 .. Specs \ UsedSpecs :
          object[s] = [value |-> SpecValue(s), target |-> "none"]
    /\ \A cls \in Classes : metadata[cls].is <=> \E m \in Members : DecorationsOf(cls, m) # <<>>
    /\ BaseHolds(object, metadata["base"].of)
    /\ IF metadata["sub"].is THEN SubHolds(object, metadata["sub"].of)
       ELSE metadata["sub"].of = NoMetadata.of

\* A decoration was refused for a reason.
RightlyRefused(r) ==
    \/ factory.kind # "multi" /\ DecorationsOf(r.at, r.member) # <<>>
    \/ LaterInherited(r)

DecoratorIInv ==
    /\ factory \in [kind : Factories, allowInheritance : BOOLEAN]
    /\ applied \in Seq(Decorations)
    /\ NothingShared(applied) => Undisturbed
    /\ \A r \in refused : NothingShared(Append(applied, r)) => RightlyRefused(r)

\* The decorations of a member are some of those applied; of two members they are different,
\* and so are their specs if nothing is shared.
LEMMA DecorationsAre ==
    ASSUME applied \in Seq(Decorations), NEW cls \in Classes, NEW m \in Members
    PROVE  /\ DecorationsOf(cls, m) \in Seq(Decorations)
           /\ ToSet(DecorationsOf(cls, m)) =
                 {a \in ToSet(applied) : a.at = cls /\ a.member = m}
           /\ DecorationsOf(cls, m) # <<>> =>
                 LET a == DecorationsOf(cls, m)[1]
                 IN  /\ a \in ToSet(applied) /\ a \in Decorations
                     /\ a.at = cls /\ a.member = m /\ SpecOf[a.by] \in UsedSpecs
<1> DEFINE S == {a \in Decorations : a.at = cls /\ a.member = m}
           own == Within(applied, S)
<1>1. own \in Seq(Decorations) /\ ToSet(own) = ToSet(applied) \cap S
  BY WithinType, WithinElements
<1>2. ToSet(applied) \subseteq Decorations
  BY DEF ToSet
<1>3. own = DecorationsOf(cls, m)
  BY DecorationsPart, Zenon DEF DecorationsOf
<1>4. ToSet(own) = {a \in ToSet(applied) : a.at = cls /\ a.member = m}
  BY <1>1, <1>2
<1> HIDE DEF own
<1>5. ASSUME own # <<>> PROVE own[1] \in ToSet(own)
  BY <1>1, <1>5 DEF ToSet
<1>6. \A a \in ToSet(applied) : SpecOf[a.by] \in UsedSpecs
  BY DEF ToSet, UsedSpecs
<1> QED
  BY <1>1, <1>2, <1>3, <1>4, <1>5, <1>6

\* A spec is that of one decoration.
LEMMA SpecsApart ==
    ASSUME applied \in Seq(Decorations), NothingShared(applied),
           NEW a \in ToSet(applied), NEW b \in ToSet(applied), SpecOf[a.by] = SpecOf[b.by]
    PROVE  a = b
<1>1. PICK i \in DOMAIN applied, j \in DOMAIN applied : applied[i] = a /\ applied[j] = b
  BY DEF ToSet
<1>2. DOMAIN applied = 1 .. Len(applied)
  OBVIOUS
<1> QED
  BY <1>1, <1>2 DEF NothingShared

\* A further decoration comes behind those of its member and its class, and changes no others.
LEMMA DecorationAdded ==
    ASSUME applied \in Seq(Decorations), NEW a \in Decorations, applied' = Append(applied, a),
           NEW cls \in Classes, NEW m \in Members
    PROVE  /\ DecorationsOf(cls, m)' =
                 IF a.at = cls /\ a.member = m THEN Append(DecorationsOf(cls, m), a)
                 ELSE DecorationsOf(cls, m)
           /\ DecorationsOf(cls, m) # <<>> => FirstOf(cls)' = FirstOf(cls)
           /\ (a.at = cls /\ \A k \in Members : DecorationsOf(cls, k) = <<>>) =>
                 FirstOf(cls)' = a
<1> DEFINE S == {x \in Decorations : x.at = cls /\ x.member = m}
           C == {x \in Decorations : x.at = cls}
           all == Within(applied, C)
<1>1. DecorationsOf(cls, m)' = IF a \in S THEN Append(Within(applied, S), a)
                               ELSE Within(applied, S)
  <2>1. DecorationsOf(cls, m)' = Within(Append(applied, a), S)
    BY DecorationsPart, Zenon DEF DecorationsOf
  <2> QED
    BY <2>1, WithinAppend
<1>2. Within(Append(applied, a), C) = IF a \in C THEN Append(all, a) ELSE all
  BY WithinAppend
<1>3. all \in Seq(Decorations) /\ ToSet(all) = ToSet(applied) \cap C
  BY WithinType, WithinElements
<1>4. ToSet(applied) \subseteq Decorations
  BY DEF ToSet
<1>5. FirstOf(cls) = all[1] /\ FirstOf(cls)' = Within(Append(applied, a), C)[1]
  BY DecorationsPart, Zenon DEF FirstOf
<1> HIDE DEF all
<1>6. all = <<>> <=> ToSet(all) = {}
  BY <1>3 DEF ToSet
<1>7. DecorationsOf(cls, m) # <<>> => FirstOf(cls)' = FirstOf(cls)
  <2> SUFFICES ASSUME DecorationsOf(cls, m) # <<>> PROVE FirstOf(cls)' = FirstOf(cls)
    OBVIOUS
  <2>1. ToSet(all) # {}
    BY <1>3, DecorationsAre
  <2>2. Len(all) \in Nat /\ Len(all) >= 1
    BY <1>3, <1>6, <2>1
  <2>3. Append(all, a)[1] = all[1]
    BY <1>3, <2>2
  <2> QED
    BY <1>2, <1>5, <2>3, Zenon
<1>8. ASSUME a.at = cls, \A k \in Members : DecorationsOf(cls, k) = <<>>
      PROVE  FirstOf(cls)' = a
  <2>1. ToSet(all) = {}
    <3> SUFFICES ASSUME NEW x \in ToSet(applied), x.at = cls PROVE FALSE
      BY <1>3
    <3>1. x.member \in Members
      BY <1>4 DEF Decorations, DecorationsIn
    <3>2. x \in ToSet(DecorationsOf(cls, x.member))
      BY <3>1, DecorationsAre
    <3>3. ToSet(<<>>) = {}
      BY DEF ToSet
    <3> QED
      BY <1>8, <3>1, <3>2, <3>3
  <2>2. all = <<>>
    BY <1>6, <2>1
  <2> QED
    BY <1>2, <1>5, <1>8, <2>2
<1>9. DecorationsOf(cls, m) = Within(applied, S)
  BY DecorationsPart, Zenon DEF DecorationsOf
<1> QED
  BY <1>1, <1>7, <1>8, <1>9

\* What the decorations of a member alone give it: nothing if there are none.
LEMMA OwnValueIs ==
    ASSUME applied \in Seq(Decorations), NEW cls \in Classes, NEW m \in Members
    PROVE  /\ DecorationsOf(cls, m) = <<>> => OwnValue(cls, m) = <<>>
           /\ factory.kind = "multi" => OwnValue(cls, m) \in Seq(1 .. Specs)
<1> DEFINE own == DecorationsOf(cls, m)
           specs == [i \in 1 .. Len(own) |-> SpecOf[own[i].by]]
<1>1. own \in Seq(Decorations)
  BY DecorationsAre
<1>2. OwnValue(cls, m) = IF own = <<>> THEN <<>>
                         ELSE IF factory.kind = "multi" THEN specs ELSE SpecValue(specs[1])
  BY Zenon DEF OwnValue
<1> HIDE DEF own
<1>3. \A i \in 1 .. Len(own) : SpecOf[own[i].by] \in 1 .. Specs
  <2>1. \A i \in 1 .. Len(own) : own[i] \in Decorations
    BY <1>1
  <2>2. \A x \in Decorations : SpecOf[x.by] \in 1 .. Specs
    BY DecoratorAssumption DEF Decorations, DecorationsIn
  <2> QED
    BY <2>1, <2>2
<1>4. specs \in Seq(1 .. Specs)
  BY <1>1, <1>3
<1> HIDE DEF specs
<1>5. <<>> \in Seq(1 .. Specs)
  OBVIOUS
<1> QED
  BY <1>2, <1>4, <1>5 DEF own

\* A further decoration adds its spec to the member it is of, and nothing to the others.
LEMMA OwnValueGrows ==
    ASSUME applied \in Seq(Decorations), NEW a \in Decorations, applied' = Append(applied, a),
           UNCHANGED factory, NEW cls \in Classes, NEW m \in Members
    PROVE  /\ ~(a.at = cls /\ a.member = m) => OwnValue(cls, m)' = OwnValue(cls, m)
           /\ a.at = cls /\ a.member = m =>
                 /\ factory.kind = "multi" =>
                       OwnValue(cls, m)' = Append(OwnValue(cls, m), SpecOf[a.by])
                 /\ factory.kind # "multi" /\ DecorationsOf(cls, m) = <<>> =>
                       OwnValue(cls, m)' = SpecValue(SpecOf[a.by])
<1> DEFINE own == DecorationsOf(cls, m)
           Specified(x) == [i \in 1 .. Len(x) |-> SpecOf[x[i].by]]
           Value(kind, s) == IF kind = "multi" THEN <<s>> ELSE [f \in {0, s} |-> s]
           Alone(x, kind) == IF x = <<>> THEN <<>>
                             ELSE IF kind = "multi" THEN Specified(x)
                             ELSE Value(kind, Specified(x)[1])
<1>1. own \in Seq(Decorations)
  BY DecorationsAre
<1>2. OwnValue(cls, m) = Alone(own, factory.kind)
  BY Zenon DEF OwnValue, SpecValue
<1>3. OwnValue(cls, m)' = Alone(own', factory.kind)
  <2>1. OwnValue(cls, m)' = Alone(own', factory'.kind)
    BY Zenon DEF OwnValue, SpecValue
  <2> QED
    BY <2>1, Zenon
<1>4. own' = IF a.at = cls /\ a.member = m THEN Append(own, a) ELSE own
  BY DecorationAdded, Zenon
<1> HIDE DEF own, Alone
<1>5. CASE ~(a.at = cls /\ a.member = m)
  <2>1. own' = own
    BY <1>4, <1>5
  <2> QED
    BY <1>2, <1>3, <1>5, <2>1, Zenon
<1>6. CASE a.at = cls /\ a.member = m
  <2>1. own' = Append(own, a) /\ own' # <<>>
    BY <1>1, <1>4, <1>6
  <2>2. Specified(own') = Append(Specified(own), SpecOf[a.by])
    BY <1>1, <2>1
  <2>3. own = <<>> => Specified(own) = <<>> /\ Specified(own')[1] = SpecOf[a.by]
    BY <2>1
  <2>4. factory.kind = "multi" => Alone(own', factory.kind) = Specified(own')
    BY <2>1, Zenon DEF Alone
  <2>5. factory.kind = "multi" => Alone(own, factory.kind) = Specified(own)
    <3>1. own = <<>> => Specified(own) = own
      BY <2>3
    <3> QED
      BY <3>1, Zenon DEF Alone
  <2>6. factory.kind # "multi" /\ own = <<>> =>
           Alone(own', factory.kind) = SpecValue(SpecOf[a.by])
    <3> HIDE DEF Specified
    <3> QED
      BY <2>1, <2>3, Zenon DEF Alone, SpecValue
  <2> HIDE DEF Specified
  <2> QED
    BY <1>2, <1>3, <1>6, <2>1, <2>2, <2>4, <2>5, <2>6 DEF own
<1> QED
  BY <1>5, <1>6

\* The first decoration of a class that has decorations is one of them.
LEMMA FirstIs ==
    ASSUME applied \in Seq(Decorations), NEW cls \in Classes, NEW m \in Members,
           DecorationsOf(cls, m) # <<>>
    PROVE  DecorationsOf(cls, FirstOf(cls).member) # <<>>
<1> DEFINE C == {x \in Decorations : x.at = cls}
           all == Within(applied, C)
           first == FirstOf(cls)
<1>1. all \in Seq(Decorations) /\ ToSet(all) = ToSet(applied) \cap C
  BY WithinType, WithinElements
<1>2. first = all[1]
  BY DecorationsPart, Zenon DEF FirstOf
<1> HIDE DEF all, first
<1>3. ToSet(all) # {}
  <2>1. ToSet(applied) \subseteq Decorations
    BY DEF ToSet
  <2> QED
    BY <1>1, <2>1, DecorationsAre
<1>4. first \in ToSet(all)
  BY <1>1, <1>2, <1>3 DEF ToSet
<1>5. first \in ToSet(applied) /\ first.at = cls /\ first.member \in Members
  BY <1>1, <1>4 DEF Decorations, DecorationsIn
<1>6. first \in ToSet(DecorationsOf(cls, first.member))
  BY <1>5, DecorationsAre
<1>7. ToSet(<<>>) = {}
  BY DEF ToSet
<1>8. DecorationsOf(cls, first.member) # <<>>
  BY <1>6, <1>7
<1> QED
  BY <1>8 DEF first

\* The spec of a decoration with which nothing is shared was not used before.
LEMMA SpecUnused ==
    ASSUME applied \in Seq(Decorations), NEW a \in Decorations,
           NothingShared(Append(applied, a))
    PROVE  /\ NothingShared(applied) /\ UsedSpecs \subseteq 1 .. Specs
           /\ SpecOf[a.by] \in 1 .. Specs \ UsedSpecs
<1> DEFINE more == Append(applied, a)
           n == Len(applied)
<1>1. /\ n \in Nat /\ Len(more) = n + 1 /\ more[n + 1] = a /\ DOMAIN applied = 1 .. n
      /\ \A i \in 1 .. n : more[i] = applied[i] /\ applied[i] \in Decorations
  OBVIOUS
<1>2. \A i, j \in 1 .. n + 1 : SpecOf[more[i].by] = SpecOf[more[j].by] => i = j
  BY <1>1 DEF NothingShared
<1> HIDE DEF more, n
<1>3. \A i \in 1 .. n : i \in 1 .. n + 1 /\ i # n + 1
  BY <1>1
<1>4. n + 1 \in 1 .. n + 1
  BY <1>1
<1>5. NothingShared(applied)
  BY <1>1, <1>2, <1>3 DEF NothingShared, n
<1>6. SpecOf[a.by] \notin UsedSpecs
  BY <1>1, <1>2, <1>3, <1>4 DEF UsedSpecs
<1>7. \A x \in Decorations : SpecOf[x.by] \in 1 .. Specs
  BY DecoratorAssumption DEF Decorations, DecorationsIn
<1>8. UsedSpecs \subseteq 1 .. Specs
  BY <1>1, <1>7 DEF UsedSpecs
<1> QED
  BY <1>5, <1>6, <1>7, <1>8

\* A further decoration uses its spec.
LEMMA UsedSpecsGrow ==
    ASSUME applied \in Seq(Decorations), NEW a \in Decorations, applied' = Append(applied, a)
    PROVE  UsedSpecs' = UsedSpecs \cup {SpecOf[a.by]}
<1> DEFINE n == Len(applied)
<1>1. /\ n \in Nat /\ DOMAIN applied' = 1 .. n + 1 /\ DOMAIN applied = 1 .. n /\ applied'[n + 1] = a
      /\ \A i \in 1 .. n : applied'[i] = applied[i]
  OBVIOUS
<1>2. 1 .. n + 1 = 1 .. n \cup {n + 1}
  BY <1>1
<1> QED
  BY <1>1, <1>2 DEF UsedSpecs

\* The objects and the members that a decoration starts from: those of the class, or the
\* copies of those it inherits.
Ready(cls, O, F) ==
    /\ Objects(O) /\ F \in [Members -> 0 .. 2 * Specs]
    /\ \A s \in 1 .. Specs : O[s] = object[s]
    /\ IF cls = "base" THEN BaseHolds(O, F) ELSE SubHolds(O, F)

\* Members of the base class have used specs, one each.
LEMMA BaseApart ==
    ASSUME applied \in Seq(Decorations), NothingShared(applied), UsedSpecs \subseteq 1 .. Specs,
           NEW O, NEW F, BaseHolds(O, F), NEW m \in Members
    PROVE  /\ F[m] = NoObject <=> DecorationsOf("base", m) = <<>>
           /\ F[m] # NoObject => F[m] \in UsedSpecs
           /\ \A k \in Members : F[m] # NoObject /\ F[k] = F[m] => k = m
<1>1. \A k \in Members :
         IF DecorationsOf("base", k) = <<>> THEN F[k] = NoObject
         ELSE F[k] = SpecOf[DecorationsOf("base", k)[1].by]
  BY DEF BaseHolds, BaseMember
<1>2. \A k \in Members : DecorationsOf("base", k) # <<>> =>
         LET a == DecorationsOf("base", k)[1]
         IN  a \in ToSet(applied) /\ a.member = k /\ SpecOf[a.by] \in UsedSpecs
  BY DecorationsAre DEF Classes
<1>3. NoObject \notin UsedSpecs
  BY DEF NoObject
<1>4. ASSUME NEW k \in Members, F[m] # NoObject, F[k] = F[m] PROVE k = m
  BY <1>1, <1>2, <1>4, SpecsApart
<1> QED
  BY <1>1, <1>2, <1>3, <1>4

\* Members of the subclass have copies of the objects of the base class or used specs, one
\* each, and none of the base class.
LEMMA SubApart ==
    ASSUME applied \in Seq(Decorations), NothingShared(applied), UsedSpecs \subseteq 1 .. Specs,
           NEW O, NEW F, SubHolds(O, F), NEW m \in Members,
           BaseHolds(object, metadata["base"].of)
    PROVE  /\ F[m] # NoObject => F[m] \in UsedSpecs \/ F[m] > Specs
           /\ \A k \in Members : F[m] # NoObject =>
                 F[m] # metadata["base"].of[k] /\ (F[k] = F[m] => k = m)
<1> DEFINE B == metadata["base"].of
           own(k) == DecorationsOf("sub", k)
<1>1. \A k \in Members : F[k] # NoObject =>
         \/ Inherits(k) /\ F[k] = B[k] + Specs
         \/ own(k) # <<>> /\ F[k] = SpecOf[own(k)[1].by]
  BY DEF SubHolds, SubMember
<1>2. \A k \in Members : own(k) # <<>> =>
         LET a == own(k)[1]
         IN  a \in ToSet(applied) /\ a.at = "sub" /\ a.member = k /\ SpecOf[a.by] \in UsedSpecs
  BY DecorationsAre DEF Classes
<1>3. \A k \in Members : B[k] # NoObject =>
         LET a == DecorationsOf("base", k)[1]
         IN  a \in ToSet(applied) /\ a.at = "base" /\ SpecOf[a.by] \in UsedSpecs /\ B[k] = SpecOf[a.by]
  BY DecorationsAre DEF Classes, BaseHolds, BaseMember
<1>4. \A k \in Members : Inherits(k) => B[k] # NoObject
  BY BaseApart DEF Inherits
<1>5. \A k, l \in Members : B[k] # NoObject /\ B[l] = B[k] => l = k
  BY BaseApart
<1> HIDE DEF own, B
<1>7. Specs \in Nat /\ NoObject = 0
  BY DecoratorAssumption DEF NoObject
<1>8. ASSUME F[m] # NoObject PROVE F[m] \in UsedSpecs \/ F[m] > Specs
  <2>1. CASE Inherits(m) /\ F[m] = B[m] + Specs
    <3>1. B[m] \in 1 .. Specs
      BY <1>3, <1>4, <2>1
    <3> QED
      BY <1>7, <2>1, <3>1
  <2> QED
    BY <1>1, <1>2, <1>8, <2>1
<1>9. ASSUME NEW k \in Members, F[m] # NoObject PROVE F[m] # B[k]
  <2>1. CASE Inherits(m) /\ F[m] = B[m] + Specs
    <3>1. B[m] \in 1 .. Specs /\ (B[k] # NoObject => B[k] \in 1 .. Specs)
      BY <1>3, <1>4, <2>1
    <3> QED
      BY <1>7, <1>9, <2>1, <3>1
  <2>2. CASE own(m) # <<>> /\ F[m] = SpecOf[own(m)[1].by]
    <3> SUFFICES ASSUME B[k] = F[m] PROVE FALSE
      OBVIOUS
    <3>1. own(m)[1] = DecorationsOf("base", k)[1]
      BY <1>2, <1>3, <1>9, <2>2, SpecsApart
    <3> QED
      BY <1>2, <1>3, <1>9, <2>2, <3>1
  <2> QED
    BY <1>1, <1>9, <2>1, <2>2
<1>10. ASSUME NEW k \in Members, F[m] # NoObject, F[k] = F[m] PROVE k = m
  <2>1. CASE own(m) # <<>> /\ own(k) # <<>> /\ SpecOf[own(m)[1].by] = SpecOf[own(k)[1].by]
    BY <1>2, <2>1, SpecsApart
  <2>2. CASE Inherits(m) /\ Inherits(k) /\ F[m] = B[m] + Specs /\ F[k] = B[k] + Specs
    <3>1. B[m] \in 1 .. Specs /\ B[k] \in 1 .. Specs
      BY <1>3, <1>4, <2>2
    <3>2. B[k] = B[m]
      BY <1>7, <1>10, <2>2, <3>1
    <3> QED
      BY <1>4, <1>5, <2>2, <3>2
  <2>3. ASSUME NEW x \in Members, NEW y \in Members, Inherits(x), F[x] = B[x] + Specs,
               own(y) # <<>>, F[y] = SpecOf[own(y)[1].by], F[x] = F[y]
        PROVE  FALSE
    <3>1. B[x] \in 1 .. Specs /\ F[y] \in 1 .. Specs
      BY <1>2, <1>3, <1>4, <2>3
    <3> QED
      BY <1>7, <2>3, <3>1
  <2> QED
    BY <1>1, <1>10, <2>1, <2>2, <2>3
<1> QED
  BY <1>8, <1>9, <1>10 DEF B

\* Where the member is as it should be after a decoration that changes only the objects of
\* its spec and of the member, all else is as it should be as well.
LEMMA Settled ==
    ASSUME applied \in Seq(Decorations), NEW a \in Decorations, applied' = Append(applied, a),
           NothingShared(Append(applied, a)), Undisturbed, UNCHANGED factory,
           a.at = "base" => ~metadata["sub"].is,
           NEW O, NEW F, Ready(a.at, O, F), NEW o, Objects(object'),
           \A p \in 1 .. 2 * Specs : p \notin {SpecOf[a.by], F[a.member]} => object'[p] = O[p],
           metadata' = [metadata EXCEPT ![a.at] =
                           [is |-> TRUE, of |-> [F EXCEPT ![a.member] = o]]],
           MemberHolds(a.at, a.member)'
    PROVE  Undisturbed'
<1> DEFINE cls == a.at
           m == a.member
           s == SpecOf[a.by]
           B == metadata["base"].of
<1>1. /\ cls \in Classes /\ m \in Members /\ Specs \in Nat /\ NoObject = 0
      /\ NothingShared(applied) /\ UsedSpecs \subseteq 1 .. Specs
      /\ s \in 1 .. Specs \ UsedSpecs /\ UsedSpecs' = UsedSpecs \cup {s}
  BY SpecUnused, UsedSpecsGrow, DecoratorAssumption DEF Decorations, DecorationsIn, NoObject
<1>2. \A c \in Classes, k \in Members :
         DecorationsOf(c, k)' = IF c = cls /\ k = m THEN Append(DecorationsOf(c, k), a)
                                ELSE DecorationsOf(c, k)
  BY DecorationAdded, Zenon
<1>3. \A c \in Classes, k \in Members :
         ~(c = cls /\ k = m) => OwnValue(c, k)' = OwnValue(c, k)
  BY OwnValueGrows, Zenon
<1>4. DecorationsOf(cls, m)' # <<>>
  BY <1>1, <1>2, DecorationsAre
<1>5. /\ metadata \in [Classes -> [is : BOOLEAN, of : [Members -> 0 .. 2 * Specs]]]
      /\ F \in [Members -> 0 .. 2 * Specs]
  BY DEF Undisturbed, Ready
<1>6. /\ metadata'[cls].is /\ metadata'[cls].of[m] = o
      /\ \A k \in Members : k # m => metadata'[cls].of[k] = F[k]
      /\ \A c \in Classes : c # cls => metadata'[c] = metadata[c]
  BY <1>1, <1>5
<1>7. BaseHolds(object, B) /\ \A k \in Members : B[k] # NoObject => B[k] \in UsedSpecs
  BY <1>1, BaseApart DEF Undisturbed
<1>8. /\ F[m] # NoObject => F[m] \in UsedSpecs \/ F[m] > Specs
      /\ \A k \in Members : k # m /\ F[k] # NoObject => F[k] \notin {s, F[m]}
  <2>1. CASE cls = "base"
    <3>1. BaseHolds(O, F)
      BY <2>1 DEF Ready
    <3> QED
      BY <1>1, <3>1, BaseApart
  <2>2. CASE cls = "sub"
    <3>1. SubHolds(O, F)
      BY <2>2 DEF Ready
    <3>2. \A k \in Members : F[k] # NoObject => F[k] \in UsedSpecs \/ F[k] > Specs
      BY <1>1, <1>7, <3>1, SubApart
    <3>3. \A k \in Members : F[k] # NoObject /\ F[m] = F[k] => m = k
      BY <1>1, <1>7, <3>1, SubApart
    <3>4. s \in 1 .. Specs /\ s \notin UsedSpecs
      BY <1>1
    <3> HIDE DEF s, m
    <3> QED
      BY <1>1, <3>2, <3>3, <3>4
  <2> QED
    BY <1>1, <2>1, <2>2 DEF Classes
<1>9. cls = "sub" => \A k \in Members : B[k] # NoObject => B[k] \notin {s, F[m]}
  <2> SUFFICES ASSUME cls = "sub", NEW k \in Members, B[k] # NoObject
               PROVE  B[k] # s /\ B[k] # F[m]
    OBVIOUS
  <2>1. SubHolds(O, F)
    BY DEF Ready
  <2>2. F[m] # NoObject => F[m] # B[k]
    BY <1>1, <1>7, <2>1, SubApart
  <2> QED
    BY <1>1, <1>7, <2>2
<1>10. \A p \in 1 .. Specs : O[p] = object[p]
  BY DEF Ready
<1> HIDE DEF B, cls, m, s
<1>11. \A p \in 1 .. 2 * Specs : p \notin {s, F[m]} => object'[p] = O[p]
  BY DEF s, m
<1>12. \A p \in 1 .. Specs \ UsedSpecs' :
          object'[p] = [value |-> SpecValue(p), target |-> "none"]
  <2> SUFFICES ASSUME NEW p \in 1 .. Specs \ UsedSpecs'
               PROVE  object'[p] = [value |-> SpecValue(p), target |-> "none"]
    OBVIOUS
  <2>1. p \in 1 .. 2 * Specs /\ p \notin {s, F[m]} /\ p \in 1 .. Specs \ UsedSpecs
    BY <1>1, <1>8
  <2> QED
    BY <1>10, <1>11, <2>1 DEF Undisturbed
<1>13. metadata' \in [Classes -> [is : BOOLEAN, of : [Members -> 0 .. 2 * Specs]]]
  <2>1. o \in 1 .. 2 * Specs
    <3>1. CASE cls = "base"
      BY <1>4, <1>6, <3>1 DEF MemberHolds, BaseMember, Held, cls, m
    <3>2. CASE cls = "sub"
      BY <1>4, <1>6, <3>2 DEF MemberHolds, SubMember, Held, cls, m
    <3> QED
      BY <1>1, <3>1, <3>2 DEF Classes
  <2>2. [F EXCEPT ![m] = o] \in [Members -> 0 .. 2 * Specs]
    BY <1>1, <1>5, <2>1
  <2> QED
    BY <1>1, <1>5, <2>2 DEF cls, m
<1>14. \A c \in Classes :
          metadata'[c].is <=> \E k \in Members : DecorationsOf(c, k)' # <<>>
  <2> SUFFICES ASSUME NEW c \in Classes
               PROVE  metadata'[c].is <=> \E k \in Members : DecorationsOf(c, k)' # <<>>
    OBVIOUS
  <2>1. CASE c = cls
    BY <1>1, <1>4, <1>6, <2>1
  <2>2. CASE c # cls
    BY <1>2, <1>6, <2>2 DEF Undisturbed
  <2> QED
    BY <2>1, <2>2
<1>15. BaseHolds(object, metadata["base"].of)'
  <2> SUFFICES ASSUME NEW k \in Members
               PROVE  BaseMember(object, metadata["base"].of[k], k)'
    BY DEF BaseHolds
  <2>1. CASE cls = "base" /\ k = m
    BY <2>1 DEF MemberHolds, cls, m
  <2>2. CASE ~(cls = "base" /\ k = m)
    <3> DEFINE G == IF cls = "base" THEN O ELSE object
    <3>1. DecorationsOf("base", k)' = DecorationsOf("base", k)
      BY <1>2, <2>2 DEF Classes
    <3>2. OwnValue("base", k)' = OwnValue("base", k)
      BY <1>3, <2>2 DEF Classes
    <3> PICK b : b = metadata'["base"].of[k]
      OBVIOUS
    <3>3. b = IF cls = "base" THEN F[k] ELSE B[k]
      BY <1>1, <1>6, <2>2 DEF Classes, B
    <3>4. BaseMember(G, b, k)
      BY <1>7, <3>3 DEF BaseHolds, Ready, cls
    <3>5. b # NoObject => b \in UsedSpecs /\ b \notin {s, F[m]}
      <4>1. CASE cls = "base"
        <5>1. BaseHolds(O, F)
          BY <4>1 DEF Ready, cls
        <5> QED
          BY <1>1, <1>8, <2>2, <3>3, <4>1, <5>1, BaseApart
      <4>2. CASE cls # "base"
        BY <1>1, <1>7, <1>9, <3>3, <4>2 DEF Classes
      <4> QED
        BY <4>1, <4>2
    <3>6. b # NoObject => b \in 1 .. 2 * Specs /\ object'[b] = G[b]
      <4> SUFFICES ASSUME b # NoObject PROVE b \in 1 .. 2 * Specs /\ object'[b] = G[b]
        OBVIOUS
      <4>1. b \in 1 .. Specs
        BY <1>1, <3>5
      <4>2. b \in 1 .. 2 * Specs
        BY <1>1, <4>1
      <4>3. object'[b] = O[b] /\ O[b] = object[b]
        BY <1>10, <1>11, <3>5, <4>1, <4>2
      <4> QED
        BY <4>2, <4>3
    <3> HIDE DEF G
    <3>7. b = NoObject <=> DecorationsOf("base", k) = <<>>
      BY <1>1, <3>4, DecoratorAssumption, DecorationsAre DEF BaseMember, Held, Classes
    <3> QED
      BY <3>1, <3>2, <3>4, <3>6, <3>7 DEF BaseMember, Held
  <2> QED
    BY <2>1, <2>2
<1>16. IF metadata'["sub"].is THEN SubHolds(object, metadata["sub"].of)'
       ELSE metadata'["sub"].of = NoMetadata.of
  <2>1. CASE cls = "base"
    BY <1>6, <2>1 DEF Undisturbed, Classes, cls
  <2>2. CASE cls = "sub"
    <3> SUFFICES ASSUME NEW k \in Members
                 PROVE  SubMember(object, metadata["sub"].of[k], k)'
      BY <1>6, <2>2 DEF SubHolds
    <3>1. CASE k = m
      BY <2>2, <3>1 DEF MemberHolds, cls, m
    <3>2. CASE k # m
      <4>1. /\ DecorationsOf("sub", k)' = DecorationsOf("sub", k)
            /\ DecorationsOf("base", k)' = DecorationsOf("base", k)
            /\ OwnValue("sub", k)' = OwnValue("sub", k)
            /\ OwnValue("base", k)' = OwnValue("base", k)
        BY <1>2, <1>3, <2>2, <3>2 DEF Classes
      <4>2. metadata'["sub"].of[k] = F[k] /\ metadata'["base"] = metadata["base"]
        BY <1>6, <2>2, <3>2 DEF Classes
      <4>3. SubMember(O, F[k], k)
        BY <2>2 DEF Ready, SubHolds, cls
      <4>4. Inherits(k)' = Inherits(k)
        BY <4>1, Zenon DEF Inherits
      <4>5. SubValueIs(k)' = SubValueIs(k)
        <5>1. CASE DecorationsOf("sub", k) = <<>>
          BY <4>1, <5>1, OwnValueIs DEF SubValueIs, Classes
        <5>2. CASE DecorationsOf("sub", k) # <<>>
          <6>1. FirstOf("sub")' = FirstOf("sub")
            BY <5>2, DecorationAdded DEF Classes
          <6> QED
            BY <4>1, <6>1, Zenon DEF SubValueIs, Assigned
        <5> QED
          BY <5>1, <5>2
      <4>6. F[k] \in 1 .. 2 * Specs => object'[F[k]] = O[F[k]]
        <5>1. F[k] \in 1 .. 2 * Specs => F[k] # NoObject
          BY <1>1
        <5> QED
          BY <1>8, <1>11, <3>2, <5>1
      <4> QED
        BY <4>1, <4>2, <4>3, <4>4, <4>5, <4>6 DEF SubMember, Held
    <3> QED
      BY <3>1, <3>2
  <2> QED
    BY <1>1, <2>1, <2>2 DEF Classes
<1>17. Objects(object)'
  BY DEF Objects
<1>18. \A p : SpecValue(p)' = SpecValue(p)
  BY Zenon DEF SpecValue
<1> QED
  BY <1>12, <1>13, <1>14, <1>15, <1>16, <1>17, <1>18 DEF Undisturbed

\* A class starts from what it has, where it has metadata or may not inherit any.
LEMMA OwnReady ==
    ASSUME applied \in Seq(Decorations), Undisturbed, NEW cls \in Classes,
           metadata[cls].is \/ ~factory.allowInheritance
    PROVE  Ready(cls, object, metadata[cls].of)
<1>1. Objects(object) /\ metadata[cls].of \in [Members -> 0 .. 2 * Specs]
  BY DEF Undisturbed
<1>2. cls = "base" => BaseHolds(object, metadata[cls].of)
  BY DEF Undisturbed
<1>3. cls # "base" => SubHolds(object, metadata[cls].of)
  <2> SUFFICES ASSUME cls = "sub", ~metadata["sub"].is, NEW m \in Members
               PROVE  SubMember(object, metadata["sub"].of[m], m)
    BY DEF Undisturbed, SubHolds, Classes
  <2>1. DecorationsOf("sub", m) = <<>> /\ metadata["sub"].of[m] = NoObject
    BY DEF Undisturbed, NoMetadata, Classes
  <2> QED
    BY <2>1 DEF SubMember, Inherits
<1> QED
  BY <1>1, <1>2, <1>3 DEF Ready

\* A class that may inherit metadata starts from copies of what it inherits.
LEMMA CloneReady ==
    ASSUME applied \in Seq(Decorations), NothingShared(applied), UsedSpecs \subseteq 1 .. Specs,
           Undisturbed, NEW cls \in Classes, ~metadata[cls].is, factory.allowInheritance
    PROVE  LET copy == CloneDeep(object, IF cls = "sub" THEN metadata["base"].of
                                         ELSE NoMetadata.of)
           IN  Ready(cls, copy.objects, copy.of)
<1> DEFINE inherited == IF cls = "sub" THEN metadata["base"].of ELSE NoMetadata.of
           O == [o \in 1 .. 2 * Specs |->
                    IF o > Specs THEN [object[o - Specs] EXCEPT !.target = "none"]
                    ELSE object[o]]
           F == [m \in Members |->
                    IF inherited[m] = NoObject THEN NoObject ELSE inherited[m] + Specs]
<1>1. CloneDeep(object, inherited) = [objects |-> O, of |-> F]
  BY Zenon DEF CloneDeep
<1>2. Specs \in Nat /\ NoObject = 0
  BY DecoratorAssumption DEF NoObject
<1>3. \A o \in 1 .. 2 * Specs :
         object[o] = [value |-> object[o].value, target |-> object[o].target]
  BY DEF Undisturbed, Objects
<1>4. /\ \A o \in 1 .. Specs : o \in 1 .. 2 * Specs /\ o + Specs \in 1 .. 2 * Specs
      /\ \A o \in 1 .. Specs : o + Specs > Specs /\ ~(o > Specs) /\ (o + Specs) - Specs = o
  BY <1>2
<1>5. \A o \in 1 .. Specs :
         O[o] = object[o] /\ O[o + Specs] = [value |-> object[o].value, target |-> "none"]
  <2> SUFFICES ASSUME NEW o \in 1 .. Specs
               PROVE  /\ O[o] = object[o]
                      /\ O[o + Specs] = [value |-> object[o].value, target |-> "none"]
    OBVIOUS
  <2>1. O[o] = object[o] /\ O[o + Specs] = [object[o] EXCEPT !.target = "none"]
    BY <1>4
  <2>2. object[o] = [value |-> object[o].value, target |-> object[o].target]
    BY <1>3, <1>4
  <2>3. [object[o] EXCEPT !.target = "none"] = [value |-> object[o].value, target |-> "none"]
    BY <2>2
  <2> QED
    BY <2>1, <2>3
<1>6. Objects(O)
  <2>1. \A o \in 1 .. 2 * Specs : O[o] = [value |-> O[o].value, target |-> O[o].target]
    <3> SUFFICES ASSUME NEW o \in 1 .. 2 * Specs
                 PROVE  O[o] = [value |-> O[o].value, target |-> O[o].target]
      OBVIOUS
    <3>1. CASE o > Specs
      <4>1. o - Specs \in 1 .. Specs /\ (o - Specs) + Specs = o
        BY <1>2, <3>1
      <4> HIDE DEF O
      <4>2. O[o] = [value |-> object[o - Specs].value, target |-> "none"]
        BY <1>5, <4>1
      <4> QED
        BY <4>2
    <3>2. CASE ~(o > Specs)
      <4>1. O[o] = object[o]
        BY <3>2
      <4> HIDE DEF O
      <4> QED
        BY <1>3, <4>1, Zenon
    <3> QED
      BY <3>1, <3>2
  <2> QED
    BY <2>1 DEF Objects
<1>7. \A m \in Members :
         DecorationsOf(cls, m) = <<>> /\ (cls = "sub" => DecorationsOf("sub", m) = <<>>)
  BY DEF Undisturbed
<1>8. \A m \in Members : inherited[m] # NoObject =>
         /\ cls = "sub" /\ inherited[m] = metadata["base"].of[m] /\ inherited[m] \in 1 .. Specs
         /\ DecorationsOf("base", m) # <<>>
         /\ Held(object, inherited[m], OwnValue("base", m), "base")
  <2>1. BaseHolds(object, metadata["base"].of)
    BY DEF Undisturbed
  <2>2. \A m \in Members : metadata["base"].of[m] # NoObject =>
           metadata["base"].of[m] \in UsedSpecs /\ DecorationsOf("base", m) # <<>>
    BY <2>1, BaseApart
  <2> QED
    BY <2>1, <2>2 DEF BaseHolds, BaseMember, NoMetadata
<1>9. \A m \in Members : cls = "sub" /\ inherited[m] = NoObject => DecorationsOf("base", m) = <<>>
  <2>1. BaseHolds(object, metadata["base"].of)
    BY DEF Undisturbed
  <2> QED
    BY <2>1, BaseApart
<1>10. \A m \in Members :
          F[m] = IF inherited[m] = NoObject THEN NoObject ELSE inherited[m] + Specs
  OBVIOUS
<1>11. F \in [Members -> 0 .. 2 * Specs]
  <2>1. \A m \in Members : F[m] \in 0 .. 2 * Specs
    BY <1>2, <1>4, <1>8, <1>10
  <2> QED
    BY <2>1
<1> HIDE DEF O, F, inherited
<1>12. cls = "base" => BaseHolds(O, F)
  BY <1>7, <1>8, <1>10 DEF BaseHolds, BaseMember
<1>13. cls # "base" => SubHolds(O, F)
  <2> SUFFICES ASSUME cls = "sub", NEW m \in Members PROVE SubMember(O, F[m], m)
    BY DEF SubHolds, Classes
  <2>1. CASE inherited[m] = NoObject
    BY <1>7, <1>9, <1>10, <2>1 DEF SubMember, Inherits
  <2>2. CASE inherited[m] # NoObject
    <3>1. F[m] = metadata["base"].of[m] + Specs /\ Inherits(m)
      BY <1>8, <1>10, <2>2 DEF Inherits
    <3>2. OwnValue("sub", m) = <<>> /\ (factory.kind = "multi" => OwnValue("base", m) \in Seq(1 .. Specs))
      BY <1>7, OwnValueIs DEF Classes
    <3>3. SubValueIs(m) = OwnValue("base", m)
      BY <3>2 DEF SubValueIs
    <3>4. F[m] \in 1 .. 2 * Specs
      BY <1>4, <1>8, <2>2, <3>1
    <3>5. O[F[m]].value = OwnValue("base", m) /\ O[F[m]].target = "none"
      <4>1. /\ inherited[m] \in 1 .. Specs /\ F[m] = inherited[m] + Specs
            /\ object[inherited[m]].value = OwnValue("base", m)
        BY <1>8, <1>10, <2>2 DEF Held
      <4>2. O[inherited[m] + Specs] = [value |-> object[inherited[m]].value, target |-> "none"]
        BY <1>5, <4>1
      <4> QED
        BY <4>1, <4>2
    <3>6. Held(O, F[m], SubValueIs(m), "none")
      BY <3>3, <3>4, <3>5 DEF Held
    <3> QED
      BY <1>7, <3>1, <3>6 DEF SubMember
  <2> QED
    BY <2>1, <2>2
<1>14. Ready(cls, O, F)
  BY <1>5, <1>6, <1>11, <1>12, <1>13 DEF Ready
<1> QED
  BY <1>1, <1>14 DEF inherited

\* What changes when the target or the value of an object is set.
Set(O, P, p, value, target) ==
    /\ Objects(P) /\ P[p].value = value /\ P[p].target = target
    /\ \A q \in 1 .. 2 * Specs : q # p => P[q] = O[q]

LEMMA TargetSet ==
    ASSUME NEW O, Objects(O), NEW p \in 1 .. 2 * Specs, NEW t
    PROVE  Set(O, [O EXCEPT ![p].target = t], p, O[p].value, t)
<1> DEFINE P == [O EXCEPT ![p].target = t]
<1>1. DOMAIN O = 1 .. 2 * Specs /\ DOMAIN P = 1 .. 2 * Specs /\ P = [q \in DOMAIN P |-> P[q]]
  BY DEF Objects
<1>2. P[p] = [O[p] EXCEPT !.target = t] /\ \A q \in 1 .. 2 * Specs : q # p => P[q] = O[q]
  BY <1>1
<1>3. P[p] = [value |-> O[p].value, target |-> t]
  BY <1>2 DEF Objects
<1> HIDE DEF P
<1>4. Objects(P)
  BY <1>1, <1>2, <1>3 DEF Objects
<1>5. Set(O, P, p, O[p].value, t)
  BY <1>2, <1>3, <1>4 DEF Set
<1> QED
  BY <1>5 DEF P

LEMMA ValueSet ==
    ASSUME NEW O, Objects(O), NEW p \in 1 .. 2 * Specs, NEW v
    PROVE  Set(O, [O EXCEPT ![p].value = v], p, v, O[p].target)
<1> DEFINE P == [O EXCEPT ![p].value = v]
<1>1. DOMAIN O = 1 .. 2 * Specs /\ DOMAIN P = 1 .. 2 * Specs /\ P = [q \in DOMAIN P |-> P[q]]
  BY DEF Objects
<1>2. P[p] = [O[p] EXCEPT !.value = v] /\ \A q \in 1 .. 2 * Specs : q # p => P[q] = O[q]
  BY <1>1
<1>3. P[p] = [value |-> v, target |-> O[p].target]
  BY <1>2 DEF Objects
<1> HIDE DEF P
<1>4. Objects(P)
  BY <1>1, <1>2, <1>3 DEF Objects
<1>5. Set(O, P, p, v, O[p].target)
  BY <1>2, <1>3, <1>4 DEF Set
<1> QED
  BY <1>5 DEF P

\* An object and the metadata of the class after a decoration.
Decorated(a, F, o) ==
    /\ applied' = Append(applied, a) /\ UNCHANGED factory
    /\ metadata' = [metadata EXCEPT ![a.at] =
                       [is |-> TRUE, of |-> [F EXCEPT ![a.member] = o]]]

\* The spec of the decoration is as it was, and what the member should have with it.
LEMMA SpecReady ==
    ASSUME applied \in Seq(Decorations), NEW a \in Decorations, Undisturbed,
           NothingShared(Append(applied, a)), NEW O, NEW F, Ready(a.at, O, F),
           applied' = Append(applied, a), UNCHANGED factory
    PROVE  /\ a.at \in Classes /\ a.member \in Members
           /\ SpecOf[a.by] \in 1 .. 2 * Specs /\ Specs \in Nat
           /\ O[SpecOf[a.by]].value = SpecValue(SpecOf[a.by]) /\ O[SpecOf[a.by]].target = "none"
           /\ DecorationsOf(a.at, a.member)' = Append(DecorationsOf(a.at, a.member), a)
           /\ DecorationsOf(a.at, a.member) = <<>> =>
                 /\ DecorationsOf(a.at, a.member)' = <<a>>
                 /\ OwnValue(a.at, a.member)' = SpecValue(SpecOf[a.by])
           /\ a.at = "sub" => /\ DecorationsOf("base", a.member)' = DecorationsOf("base", a.member)
                              /\ OwnValue("base", a.member)' = OwnValue("base", a.member)
<1> DEFINE s == SpecOf[a.by]
           own == DecorationsOf(a.at, a.member)
<1>1. /\ a.at \in Classes /\ a.member \in Members /\ Specs \in Nat
      /\ s \in 1 .. Specs \ UsedSpecs
  BY SpecUnused, DecoratorAssumption DEF Decorations, DecorationsIn
<1>2. s \in 1 .. 2 * Specs
  BY <1>1
<1>3. O[s] = [value |-> SpecValue(s), target |-> "none"]
  BY <1>1 DEF Ready, Undisturbed
<1>4. own' = Append(own, a)
  BY <1>1, DecorationAdded, Zenon
<1>5. own = <<>> => own' = <<a>>
  BY <1>4
<1>6. own = <<>> => OwnValue(a.at, a.member)' = SpecValue(s)
  <2>1. factory.kind = "multi" /\ own = <<>> => OwnValue(a.at, a.member)' = <<s>>
    <3>1. own = <<>> => OwnValue(a.at, a.member) = <<>>
      BY <1>1, OwnValueIs
    <3>2. factory.kind = "multi" =>
             OwnValue(a.at, a.member)' = Append(OwnValue(a.at, a.member), s)
      BY <1>1, OwnValueGrows, Zenon
    <3>3. Append(<<>>, s) = <<s>>
      OBVIOUS
    <3> QED
      BY <3>1, <3>2, <3>3, Zenon
  <2>2. factory.kind # "multi" /\ own = <<>> => OwnValue(a.at, a.member)' = SpecValue(s)
    BY <1>1, OwnValueGrows, Zenon
  <2>3. factory.kind = "multi" => SpecValue(s) = <<s>>
    BY Zenon DEF SpecValue
  <2> QED
    BY <2>1, <2>2, <2>3
<1>7. a.at = "sub" => /\ DecorationsOf("base", a.member)' = DecorationsOf("base", a.member)
                      /\ OwnValue("base", a.member)' = OwnValue("base", a.member)
  <2> SUFFICES ASSUME a.at = "sub"
               PROVE  /\ DecorationsOf("base", a.member)' = DecorationsOf("base", a.member)
                      /\ OwnValue("base", a.member)' = OwnValue("base", a.member)
    OBVIOUS
  <2>1. "base" \in Classes /\ ~(a.at = "base" /\ a.member = a.member)
    BY DEF Classes
  <2>2. DecorationsOf("base", a.member)' = DecorationsOf("base", a.member)
    BY <1>1, <2>1, DecorationAdded, Zenon
  <2>3. OwnValue("base", a.member)' = OwnValue("base", a.member)
    BY <1>1, <2>1, OwnValueGrows, Zenon
  <2> QED
    BY <2>2, <2>3
<1> QED
  BY <1>1, <1>2, <1>3, <1>4, <1>5, <1>6, <1>7

\* What a member of the subclass should have after a decoration.
LEMMA SubValueAfter ==
    ASSUME UNCHANGED factory, NEW m, NEW inherited, NEW own,
           OwnValue("base", m)' = inherited, OwnValue("sub", m)' = own
    PROVE  SubValueIs(m)' =
              IF ~factory.allowInheritance THEN own
              ELSE IF factory.kind = "multi" THEN inherited \o own
              ELSE IF own = <<>> THEN inherited
              ELSE IF factory.kind = "parameter" \/ FirstOf("sub")'.member = m
                   THEN Assigned(inherited, own) ELSE own
BY Zenon DEF SubValueIs, Assigned

\* A member that inherits nothing, or has it replaced, is given the spec itself.
LEMMA SpecGiven ==
    ASSUME applied \in Seq(Decorations), NEW a \in Decorations, Undisturbed,
           NothingShared(Append(applied, a)), a.at = "base" => ~metadata["sub"].is,
           NEW O, NEW F, Ready(a.at, O, F), Decorated(a, F, SpecOf[a.by]),
           object' = [O EXCEPT ![SpecOf[a.by]].target = a.at],
           DecorationsOf(a.at, a.member) = <<>>,
           a.at = "sub" /\ Inherits(a.member) =>
              factory.kind \notin {"parameter", "multi"} /\ FirstOf("sub")'.member # a.member
    PROVE  Undisturbed'
<1> DEFINE cls == a.at
           m == a.member
           s == SpecOf[a.by]
           value == SpecValue(s)
<1>1. applied' = Append(applied, a) /\ UNCHANGED factory
  BY DEF Decorated
<1>2. /\ cls \in Classes /\ m \in Members /\ s \in 1 .. 2 * Specs
      /\ O[s].value = value /\ DecorationsOf(cls, m)' = <<a>> /\ OwnValue(cls, m)' = value
      /\ cls = "sub" => /\ DecorationsOf("base", m)' = DecorationsOf("base", m)
                        /\ OwnValue("base", m)' = OwnValue("base", m)
  BY <1>1, SpecReady
<1>3. Set(O, object', s, value, cls)
  BY <1>2, TargetSet DEF Ready
<1>4. metadata'[cls].of[m] = s
  BY <1>2 DEF Decorated, Ready, Undisturbed
<1> HIDE DEF value
<1>5. cls = "sub" => SubValueIs(m)' = value
  <2> SUFFICES ASSUME cls = "sub" PROVE SubValueIs(m)' = value
    OBVIOUS
  <2>1. SubValueIs(m)' =
           IF ~factory.allowInheritance THEN value
           ELSE IF factory.kind = "multi" THEN OwnValue("base", m) \o value
           ELSE IF value = <<>> THEN OwnValue("base", m)
           ELSE IF factory.kind = "parameter" \/ FirstOf("sub")'.member = m
                THEN Assigned(OwnValue("base", m), value) ELSE value
    BY <1>1, <1>2, SubValueAfter
  <2>2. factory.kind # "multi" => value # <<>> /\ Assigned(<<>>, value) = value
    <3>1. factory.kind # "multi" => value = [f \in {0, s} |-> s]
      BY Zenon DEF SpecValue, value
    <3>2. [f \in {0, s} |-> s] # <<>> /\ Assigned(<<>>, [f \in {0, s} |-> s]) = [f \in {0, s} |-> s]
      BY DEF Assigned
    <3> QED
      BY <3>1, <3>2
  <2>3. factory.kind = "multi" => <<>> \o value = value
    <3>1. factory.kind = "multi" => value = <<s>>
      BY Zenon DEF SpecValue, value
    <3> QED
      BY <3>1
  <2>4. CASE ~factory.allowInheritance
    BY <2>1, <2>4
  <2>5. CASE factory.allowInheritance /\ ~Inherits(m)
    <3>1. OwnValue("base", m) = <<>>
      BY <1>2, <2>5, OwnValueIs DEF Inherits, Classes
    <3> QED
      BY <2>1, <2>2, <2>3, <2>5, <3>1
  <2>6. CASE factory.allowInheritance /\ Inherits(m)
    BY <2>1, <2>2, <2>6
  <2> QED
    BY <2>4, <2>5, <2>6
<1>6. Held(object', s, value, cls) /\ factory' = factory
  BY <1>1, <1>2, <1>3 DEF Held, Set
<1>7. MemberHolds(cls, m)'
  <2>1. <<a>> # <<>> /\ <<a>>[1] = a /\ Len(<<a>>) = 1
    OBVIOUS
  <2>2. CASE cls = "base"
    <3>1. BaseMember(object, metadata["base"].of[m], m)'
      BY <1>2, <1>4, <1>6, <2>1, <2>2 DEF BaseMember, Held
    <3> QED
      BY <2>2, <3>1 DEF MemberHolds
  <2>3. CASE cls = "sub"
    <3>1. /\ DecorationsOf("sub", m)' = <<a>> /\ metadata'["sub"].of[m] = s
          /\ SubValueIs(m)' = value
      BY <1>2, <1>4, <1>5, <2>3
    <3>2. /\ s \in 1 .. 2 * Specs /\ object'[s].value = value
          /\ factory'.kind # "multi" => object'[s].target = "sub"
      BY <1>6, <2>3 DEF Held
    <3>3. PICK own : own = <<a>>
      OBVIOUS
    <3>4. own # <<>> /\ SpecOf[own[1].by] = s /\ Len(own) <= 1
      BY <2>1, <3>3
    <3>5. DecorationsOf("sub", m)' = own
      BY <3>1, <3>3
    <3>6. SubMember(object, metadata["sub"].of[m], m)'
      BY <3>1, <3>2, <3>4, <3>5, Zenon DEF SubMember, Held
    <3> QED
      BY <2>3, <3>6 DEF MemberHolds
  <2> QED
    BY <1>2, <2>2, <2>3 DEF Classes
<1>8. Objects(object') /\ \A p \in 1 .. 2 * Specs : p \notin {s, F[m]} => object'[p] = O[p]
  BY <1>3 DEF Set
<1> QED
  BY <1>1, <1>7, <1>8, Settled DEF Decorated

\* One item more, at the end of one sequence or of two.
OneMore(x, y, z) == y \o <<z>> = Append(y, z) /\ (x \o y) \o <<z>> = x \o Append(y, z)

LEMMA OneMoreItem ==
    ASSUME NEW T, NEW x \in Seq(T), NEW y \in Seq(T), NEW z \in T
    PROVE  OneMore(x, y, z)
<1>1. x \o y \in Seq(T)
  BY ConcatProperties
<1>2. y \o <<z>> = Append(y, z) /\ (x \o y) \o <<z>> = Append(x \o y, z)
  BY <1>1, AppendIsConcat
<1>3. x \o Append(y, z) = Append(x \o y, z)
  BY ConcatAppend
<1> QED
  BY <1>2, <1>3, Zenon DEF OneMore

\* A decorated member of the subclass is as it should be.
LEMMA SubMemberIs ==
    ASSUME NEW m, NEW o \in 1 .. 2 * Specs, NEW own, own # <<>>, factory.kind # "multi" => Len(own) <= 1,
           DecorationsOf("sub", m)' = own, metadata'["sub"].of[m] = o, UNCHANGED factory,
           \/ Inherits(m)' /\ o = metadata'["base"].of[m] + Specs
           \/ o = SpecOf[own[1].by],
           object'[o].value = SubValueIs(m)', factory.kind # "multi" => object'[o].target = "sub"
    PROVE  MemberHolds("sub", m)'
<1>1. SubMember(object, metadata["sub"].of[m], m)'
  BY Zenon DEF SubMember, Held
<1> QED
  BY <1>1 DEF MemberHolds

\* A copy of what the member inherits has the spec merged into it.
LEMMA MergedIntoCopy ==
    ASSUME applied \in Seq(Decorations), NEW a \in Decorations, Undisturbed,
           NothingShared(Append(applied, a)), a.at = "sub",
           NEW O, NEW F, Ready("sub", O, F), Decorated(a, F, F[a.member]),
           object' = [[O EXCEPT ![F[a.member]].value =
                          Assigned(O[F[a.member]].value, O[SpecOf[a.by]].value)]
                      EXCEPT ![F[a.member]].target = "sub"],
           DecorationsOf("sub", a.member) = <<>>, F[a.member] # NoObject, factory.kind # "multi",
           factory.kind = "parameter" \/ FirstOf("sub")'.member = a.member
    PROVE  Undisturbed'
<1> DEFINE m == a.member
           s == SpecOf[a.by]
           o == F[m]
           inherited == OwnValue("base", m)
           merged == Assigned(inherited, SpecValue(s))
<1>1. applied' = Append(applied, a) /\ UNCHANGED factory
  BY DEF Decorated
<1>2. /\ m \in Members /\ s \in 1 .. 2 * Specs
      /\ O[s].value = SpecValue(s) /\ DecorationsOf("sub", m)' = <<a>>
      /\ OwnValue("sub", m)' = SpecValue(s)
      /\ DecorationsOf("base", m)' = DecorationsOf("base", m) /\ OwnValue("base", m)' = inherited
  BY <1>1, SpecReady
<1>3. /\ Inherits(m) /\ o = metadata["base"].of[m] + Specs
      /\ o \in 1 .. 2 * Specs /\ O[o].value = SubValueIs(m)
  <2>1. SubMember(O, o, m)
    BY <1>2 DEF Ready, SubHolds
  <2> QED
    BY <2>1 DEF SubMember, Held
<1>4. OwnValue("sub", m) = <<>>
  BY <1>2, OwnValueIs DEF Classes
<1>5. O[o].value = inherited
  BY <1>3, <1>4 DEF SubValueIs, Inherits
<1>6. object' = [[O EXCEPT ![o].value = merged] EXCEPT ![o].target = "sub"]
  BY <1>2, <1>5
<1>7. metadata'["sub"].of[m] = o /\ metadata'["base"] = metadata["base"]
  BY <1>2 DEF Decorated, Ready, Undisturbed, Classes
<1> HIDE DEF inherited, merged, o
<1>8. /\ Objects(object') /\ object'[o].value = merged /\ object'[o].target = "sub"
      /\ \A p \in 1 .. 2 * Specs : p # o => object'[p] = O[p]
  <2> DEFINE P == [O EXCEPT ![o].value = merged]
  <2>1. Objects(O)
    BY DEF Ready
  <2>2. Set(O, P, o, merged, O[o].target)
    BY <1>3, <2>1, ValueSet, Zenon
  <2> HIDE DEF P
  <2>3. Objects(P) /\ P[o].value = merged /\ \A p \in 1 .. 2 * Specs : p # o => P[p] = O[p]
    BY <2>2 DEF Set
  <2>4. Set(P, [P EXCEPT ![o].target = "sub"], o, P[o].value, "sub")
    BY <1>3, <2>3, TargetSet, Zenon
  <2>5. Set(P, object', o, merged, "sub")
    BY <1>6, <2>3, <2>4, Zenon DEF P
  <2> QED
    BY <2>3, <2>5 DEF Set
<1>9. SubValueIs(m)' = merged
  <2>1. SubValueIs(m)' =
           IF ~factory.allowInheritance THEN SpecValue(s)
           ELSE IF factory.kind = "multi" THEN inherited \o SpecValue(s)
           ELSE IF SpecValue(s) = <<>> THEN inherited
           ELSE IF factory.kind = "parameter" \/ FirstOf("sub")'.member = m
                THEN Assigned(inherited, SpecValue(s)) ELSE SpecValue(s)
    BY <1>1, <1>2, SubValueAfter
  <2>2. SpecValue(s) = [f \in {0, s} |-> s]
    BY Zenon DEF SpecValue
  <2>3. [f \in {0, s} |-> s] # <<>>
    OBVIOUS
  <2> QED
    BY <1>3, <2>1, <2>2, <2>3, Zenon DEF merged, Inherits
<1>10. Inherits(m)'
  BY <1>1, <1>2, <1>3, Zenon DEF Inherits
<1>11. MemberHolds("sub", m)'
  <2> PICK own : own = <<a>>
    OBVIOUS
  <2>1. own # <<>> /\ (factory.kind # "multi" => Len(own) <= 1)
    OBVIOUS
  <2>2. \/ Inherits(m)' /\ o = metadata'["base"].of[m] + Specs
        \/ o = SpecOf[own[1].by]
    BY <1>3, <1>7, <1>10
  <2>3. object'[o].value = SubValueIs(m)' /\ (factory.kind # "multi" => object'[o].target = "sub")
    BY <1>8, <1>9, Zenon
  <2>4. /\ o \in 1 .. 2 * Specs /\ DecorationsOf("sub", m)' = own
        /\ metadata'["sub"].of[m] = o
    BY <1>2, <1>3, <1>7
  <2> QED
    BY <1>1, <2>1, <2>2, <2>3, <2>4, SubMemberIs, Zenon
<1>12. MemberHolds(a.at, a.member)'
  BY <1>11 DEF MemberHolds
<1>13. \A p \in 1 .. 2 * Specs : p \notin {SpecOf[a.by], F[a.member]} => object'[p] = O[p]
  BY <1>8 DEF o
<1>14. Ready(a.at, O, F) /\ (a.at = "base" => ~metadata["sub"].is)
  OBVIOUS
<1>15. metadata' = [metadata EXCEPT ![a.at] =
                       [is |-> TRUE, of |-> [F EXCEPT ![a.member] = F[a.member]]]]
  BY Zenon DEF Decorated
<1> QED
  BY <1>1, <1>8, <1>12, <1>13, <1>14, <1>15, Settled, Zenon

\* An array grows.
LEMMA AddedToArray ==
    ASSUME applied \in Seq(Decorations), NEW a \in Decorations, Undisturbed,
           NothingShared(Append(applied, a)), a.at = "base" => ~metadata["sub"].is,
           NEW O, NEW F, Ready(a.at, O, F), Decorated(a, F, F[a.member]),
           object' = [[O EXCEPT ![F[a.member]].value =
                          O[F[a.member]].value \o O[SpecOf[a.by]].value]
                      EXCEPT ![SpecOf[a.by]].target = a.at],
           F[a.member] # NoObject, factory.kind = "multi"
    PROVE  Undisturbed'
<1> DEFINE cls == a.at
           m == a.member
           s == SpecOf[a.by]
           o == F[m]
           own == DecorationsOf(cls, m)
           value == IF cls = "base" THEN OwnValue("base", m) ELSE SubValueIs(m)
<1>1. applied' = Append(applied, a) /\ UNCHANGED factory
  BY DEF Decorated
<1>2. /\ cls \in Classes /\ m \in Members /\ s \in 1 .. 2 * Specs
      /\ O[s].value = SpecValue(s) /\ own' = Append(own, a)
      /\ cls = "sub" => /\ DecorationsOf("base", m)' = DecorationsOf("base", m)
                        /\ OwnValue("base", m)' = OwnValue("base", m)
  BY <1>1, SpecReady
<1>3. /\ o \in 1 .. 2 * Specs /\ O[o].value = value
      /\ \/ cls = "base" /\ own # <<>> /\ o = SpecOf[own[1].by]
         \/ cls = "sub" /\ Inherits(m) /\ o = metadata["base"].of[m] + Specs
         \/ cls = "sub" /\ own # <<>> /\ o = SpecOf[own[1].by]
  <2>1. CASE cls = "base"
    <3>1. BaseMember(O, o, m)
      BY <1>2, <2>1 DEF Ready, BaseHolds
    <3> QED
      BY <2>1, <3>1 DEF BaseMember, Held
  <2>2. CASE cls = "sub"
    <3>1. SubMember(O, o, m)
      BY <1>2, <2>2 DEF Ready, SubHolds
    <3> QED
      BY <2>2, <3>1 DEF SubMember, Held
  <2> QED
    BY <1>2, <2>1, <2>2 DEF Classes
<1>4. SpecValue(s) = <<s>> /\ OwnValue(cls, m)' = Append(OwnValue(cls, m), s)
  BY <1>1, <1>2, OwnValueGrows, Zenon DEF SpecValue
<1>5. /\ OwnValue(cls, m) \in Seq(1 .. Specs) /\ OwnValue("base", m) \in Seq(1 .. Specs)
      /\ s \in 1 .. Specs
  BY <1>2, OwnValueIs, DecoratorAssumption DEF Classes, Decorations, DecorationsIn
<1>6. /\ cls = "base" => OwnValue("base", m)' = value \o <<s>>
      /\ cls = "sub" => SubValueIs(m)' = value \o <<s>>
  <2>1. CASE cls = "base"
    <3>1. OwnValue("base", m)' = Append(OwnValue("base", m), s) /\ value = OwnValue("base", m)
      BY <1>4, <2>1
    <3>2. Append(OwnValue("base", m), s) = OwnValue("base", m) \o <<s>>
      BY <1>5, AppendIsConcat
    <3> QED
      BY <2>1, <3>1, <3>2
  <2>2. CASE cls = "sub"
    <3> PICK more : more = Append(OwnValue("sub", m), s)
      OBVIOUS
    <3>1. SubValueIs(m)' =
             IF ~factory.allowInheritance THEN Append(OwnValue("sub", m), s)
             ELSE OwnValue("base", m) \o Append(OwnValue("sub", m), s)
      <4>1. OwnValue("base", m)' = OwnValue("base", m) /\ OwnValue("sub", m)' = more
        BY <1>2, <1>4, <2>2
      <4>2. SubValueIs(m)' =
               IF ~factory.allowInheritance THEN more
               ELSE IF factory.kind = "multi" THEN OwnValue("base", m) \o more
               ELSE IF more = <<>> THEN OwnValue("base", m)
               ELSE IF factory.kind = "parameter" \/ FirstOf("sub")'.member = m
                    THEN Assigned(OwnValue("base", m), more) ELSE more
        BY <1>1, <4>1, SubValueAfter, Zenon
      <4> QED
        BY <4>2
    <3>2. value = IF ~factory.allowInheritance THEN OwnValue("sub", m)
                  ELSE OwnValue("base", m) \o OwnValue("sub", m)
      BY <2>2, Zenon DEF SubValueIs
    <3> HIDE DEF value
    <3>3. /\ Append(OwnValue("sub", m), s) = OwnValue("sub", m) \o <<s>>
          /\ OwnValue("base", m) \o Append(OwnValue("sub", m), s) =
                (OwnValue("base", m) \o OwnValue("sub", m)) \o <<s>>
      <4>1. OwnValue("sub", m) \in Seq(1 .. Specs)
        BY <1>5, <2>2, Zenon
      <4>2. OneMore(OwnValue("base", m), OwnValue("sub", m), s)
        BY <1>5, <4>1, OneMoreItem, Zenon
      <4> QED
        BY <4>2, Zenon DEF OneMore
    <3> QED
      BY <2>2, <3>1, <3>2, <3>3
  <2> QED
    BY <1>2, <2>1, <2>2 DEF Classes
<1> HIDE DEF value
<1>7. object' = [[O EXCEPT ![o].value = value \o <<s>>] EXCEPT ![s].target = cls]
  BY <1>2, <1>3, <1>4
<1>8. /\ metadata'[cls].of[m] = o
      /\ cls = "sub" => metadata'["base"] = metadata["base"]
  BY <1>2 DEF Decorated, Ready, Undisturbed, Classes
<1> HIDE DEF o
<1>9. /\ Objects(object') /\ object'[o].value = value \o <<s>>
      /\ \A p \in 1 .. 2 * Specs : p \notin {s, o} => object'[p] = O[p]
  <2> DEFINE P == [O EXCEPT ![o].value = value \o <<s>>]
  <2>1. Objects(O)
    BY DEF Ready
  <2>2. Set(O, P, o, value \o <<s>>, O[o].target)
    BY <1>3, <2>1, ValueSet, Zenon
  <2> HIDE DEF P
  <2>3. /\ Objects(P) /\ P[o].value = value \o <<s>>
        /\ \A p \in 1 .. 2 * Specs : p # o => P[p] = O[p]
    BY <2>2 DEF Set
  <2>4. Set(P, [P EXCEPT ![s].target = cls], s, P[s].value, cls)
    BY <1>2, <2>3, TargetSet, Zenon
  <2>5. Set(P, object', s, P[s].value, cls)
    BY <1>7, <2>4, Zenon DEF P
  <2> QED
    BY <1>3, <2>3, <2>5 DEF Set
<1>10. own' # <<>> /\ (own # <<>> => own'[1] = own[1])
  <2>1. own \in Seq(Decorations)
    BY <1>2, DecorationsAre
  <2> HIDE DEF own
  <2> QED
    BY <1>2, <2>1
<1> HIDE DEF own
<1>11. MemberHolds(cls, m)'
  <2>1. CASE cls = "base"
    <3>1. /\ DecorationsOf("base", m)' = own' /\ metadata'["base"].of[m] = o
          /\ OwnValue("base", m)' = value \o <<s>>
          /\ o = SpecOf[own'[1].by]
      BY <1>3, <1>6, <1>8, <1>10, <2>1 DEF own
    <3>2. BaseMember(object, metadata["base"].of[m], m)'
      BY <1>1, <1>3, <1>9, <1>10, <3>1 DEF BaseMember, Held
    <3> QED
      BY <2>1, <3>2 DEF MemberHolds
  <2>2. CASE cls = "sub"
    <3>1. DecorationsOf("sub", m)' = own' /\ metadata'["sub"].of[m] = o
      BY <1>8, <2>2 DEF own
    <3>2. Inherits(m)' = Inherits(m)
      BY <1>1, <1>2, <2>2, Zenon DEF Inherits
    <3>3. \/ Inherits(m)' /\ o = metadata'["base"].of[m] + Specs
          \/ o = SpecOf[own'[1].by]
      BY <1>3, <1>8, <1>10, <2>2, <3>2
    <3>4. PICK new : new = own'
      OBVIOUS
    <3>5. /\ new # <<>> /\ (factory.kind # "multi" => Len(new) <= 1)
          /\ DecorationsOf("sub", m)' = new
          /\ \/ Inherits(m)' /\ o = metadata'["base"].of[m] + Specs
             \/ o = SpecOf[new[1].by]
      BY <1>10, <3>1, <3>3, <3>4
    <3>6. /\ object'[o].value = SubValueIs(m)'
          /\ factory.kind # "multi" => object'[o].target = "sub"
      BY <1>6, <1>9, <2>2
    <3>7. MemberHolds("sub", m)'
      BY <1>1, <1>3, <3>1, <3>5, <3>6, SubMemberIs, Zenon
    <3> QED
      BY <2>2, <3>7
  <2> QED
    BY <1>2, <2>1, <2>2 DEF Classes
<1> QED
  BY <1>1, <1>9, <1>11, Settled DEF Decorated, o

\* The results of a merge that a decoration may end with: the spec alone, the spec merged into
\* a copy, or an array that has grown.
GivesSpec(a, O, F, merge) ==
    /\ merge = MergeOf(O, SpecOf[a.by], SpecOf[a.by])
    /\ DecorationsOf(a.at, a.member) = <<>>
    /\ a.at = "sub" /\ Inherits(a.member) =>
          /\ factory.kind \notin {"parameter", "multi"}
          /\ applied' = Append(applied, a) => FirstOf("sub")'.member # a.member

MergesCopy(a, O, F, merge) ==
    /\ merge = MergeOf([O EXCEPT ![F[a.member]].value = Assigned(@, O[SpecOf[a.by]].value)],
                       F[a.member], F[a.member])
    /\ a.at = "sub" /\ DecorationsOf("sub", a.member) = <<>>
    /\ F[a.member] # NoObject /\ factory.kind # "multi"
    /\ \/ factory.kind = "parameter"
       \/ applied' = Append(applied, a) => FirstOf("sub")'.member = a.member

GrowsArray(a, O, F, merge) ==
    /\ merge = MergeOf([O EXCEPT ![F[a.member]].value = @ \o O[SpecOf[a.by]].value],
                       F[a.member], SpecOf[a.by])
    /\ F[a.member] # NoObject /\ factory.kind = "multi"

\* Each of them defines the metadata as it should be.
LEMMA MergeDefined ==
    ASSUME applied \in Seq(Decorations), NEW a \in Decorations, Undisturbed,
           NothingShared(Append(applied, a)), UNCHANGED factory,
           a.at = "base" => ~metadata["sub"].is,
           NEW O, NEW F, Ready(a.at, O, F), NEW merge,
           Define(a.by, a.at, a.member, F, merge),
           \/ GivesSpec(a, O, F, merge)
           \/ MergesCopy(a, O, F, merge)
           \/ GrowsArray(a, O, F, merge)
    PROVE  applied' = Append(applied, a) /\ UNCHANGED refused /\ Undisturbed'
<1> DEFINE m == a.member
           s == SpecOf[a.by]
           o == F[m]
<1>1. /\ a.at \in Classes /\ m \in Members /\ s \in 1 .. 2 * Specs /\ O[s].target = "none"
      /\ Objects(O) /\ F \in [Members -> 0 .. 2 * Specs] /\ a = [by |-> a.by, at |-> a.at, member |-> m]
  <2>1. s \in 1 .. Specs \ UsedSpecs /\ Specs \in Nat
    BY SpecUnused, DecoratorAssumption
  <2>2. O[s] = [value |-> SpecValue(s), target |-> "none"]
    BY <2>1 DEF Undisturbed, Ready
  <2> QED
    BY <2>1, <2>2 DEF Ready, Decorations, DecorationsIn
<1>2. ASSUME merge.objects[merge.target].target \in {"none", a.at}
      PROVE  /\ object' = [merge.objects EXCEPT ![merge.target].target = a.at]
             /\ applied' = Append(applied, a) /\ UNCHANGED refused
             /\ Decorated(a, F, merge.of)
  <2>1. /\ object' = [merge.objects EXCEPT ![merge.target].target = a.at]
        /\ metadata' = [metadata EXCEPT ![a.at] =
                           [is |-> TRUE, of |-> [F EXCEPT ![m] = merge.of]]]
        /\ applied' = Append(applied, [by |-> a.by, at |-> a.at, member |-> m])
        /\ UNCHANGED refused
    BY <1>2, Zenon DEF Define
  <2> QED
    BY <1>1, <2>1 DEF Decorated
<1>3. CASE GivesSpec(a, O, F, merge)
  <2>1. merge.objects = O /\ merge.of = s /\ merge.target = s
    BY <1>3 DEF GivesSpec, MergeOf
  <2>2. /\ object' = [O EXCEPT ![s].target = a.at]
        /\ applied' = Append(applied, a) /\ UNCHANGED refused /\ Decorated(a, F, s)
    BY <1>1, <1>2, <2>1
  <2>3. /\ DecorationsOf(a.at, m) = <<>>
        /\ a.at = "sub" /\ Inherits(m) =>
              factory.kind \notin {"parameter", "multi"} /\ FirstOf("sub")'.member # m
    BY <1>3, <2>2, Zenon DEF GivesSpec
  <2>4. Undisturbed'
    BY <2>2, <2>3, SpecGiven
  <2> QED
    BY <2>2, <2>4
<1>4. CASE MergesCopy(a, O, F, merge)
  <2> DEFINE P == [O EXCEPT ![o].value = Assigned(O[o].value, O[s].value)]
  <2>1. merge.objects = P /\ merge.of = o /\ merge.target = o
    BY <1>4 DEF MergesCopy, MergeOf
  <2>2. /\ a.at = "sub" /\ DecorationsOf("sub", m) = <<>> /\ o # NoObject /\ factory.kind # "multi"
        /\ factory.kind = "parameter" \/ (applied' = Append(applied, a) => FirstOf("sub")'.member = m)
    BY <1>4, Zenon DEF MergesCopy
  <2>3. o \in 1 .. 2 * Specs /\ O[o].target = "none"
    <3>1. SubMember(O, o, m)
      BY <1>1, <2>2 DEF Ready, SubHolds
    <3> QED
      BY <2>2, <3>1 DEF SubMember, Held
  <2>4. P[o].target = "none"
    <3>1. Set(O, P, o, Assigned(O[o].value, O[s].value), O[o].target)
      BY <1>1, <2>3, ValueSet, Zenon
    <3> HIDE DEF P
    <3> QED
      BY <2>3, <3>1 DEF Set
  <2>5. /\ object' = [P EXCEPT ![o].target = "sub"]
        /\ applied' = Append(applied, a) /\ UNCHANGED refused /\ Decorated(a, F, o)
    <3> HIDE DEF P
    <3> QED
      BY <1>2, <2>1, <2>2, <2>4
  <2>6. Undisturbed'
    <3>1. Ready("sub", O, F) /\ (factory.kind = "parameter" \/ FirstOf("sub")'.member = m)
      BY <2>2, <2>5
    <3> QED
      BY <2>2, <2>5, <3>1, MergedIntoCopy, Zenon
  <2> QED
    BY <2>5, <2>6
<1>5. CASE GrowsArray(a, O, F, merge)
  <2> DEFINE P == [O EXCEPT ![o].value = O[o].value \o O[s].value]
  <2>1. merge.objects = P /\ merge.of = o /\ merge.target = s
    BY <1>5 DEF GrowsArray, MergeOf
  <2>2. o # NoObject /\ factory.kind = "multi" /\ o \in 1 .. 2 * Specs
    BY <1>1, <1>5 DEF GrowsArray, NoObject
  <2>3. P[s].target = "none"
    <3>1. Set(O, P, o, O[o].value \o O[s].value, O[o].target)
      BY <1>1, <2>2, ValueSet, Zenon
    <3> HIDE DEF P, o, s
    <3>2. CASE s = o
      BY <1>1, <3>1, <3>2 DEF Set
    <3>3. CASE s # o
      BY <1>1, <3>1, <3>3 DEF Set
    <3> QED
      BY <3>2, <3>3
  <2>4. /\ object' = [P EXCEPT ![s].target = a.at]
        /\ applied' = Append(applied, a) /\ UNCHANGED refused /\ Decorated(a, F, o)
    <3> HIDE DEF P
    <3> QED
      BY <1>2, <2>1, <2>3
  <2>5. Undisturbed'
    BY <2>2, <2>4, AddedToArray, Zenon
  <2> QED
    BY <2>4, <2>5
<1> QED
  BY <1>3, <1>4, <1>5

\* A decoration of a class that has metadata, or may not inherit any, is refused for a reason
\* or leaves the metadata as it should be.
LEMMA OwnMerged ==
    ASSUME applied \in Seq(Decorations), NEW a \in Decorations, Undisturbed,
           factory.kind \in Factories, NothingShared(Append(applied, a)), UNCHANGED factory,
           a.at = "base" => ~metadata["sub"].is,
           metadata[a.at].is \/ ~factory.allowInheritance,
           MergeWithOwn(a.by, a.at, a.member)
    PROVE  \/ applied' = Append(applied, a) /\ UNCHANGED refused /\ Undisturbed'
           \/ Refuse(a.by, a.at, a.member) /\ RightlyRefused(a)
<1> DEFINE cls == a.at
           m == a.member
           s == SpecOf[a.by]
           F == metadata[cls].of
           own == DecorationsOf(cls, m)
           duplicate == F[m] # NoObject /\ (factory.kind = "property" \/ object[F[m]].target = cls)
           merge == CASE factory.kind = "multi" -> MergeArray(object, F[m], s)
                      [] factory.kind = "parameter" -> Inherit(object, F[m], s)
                      [] OTHER -> MergeOf(object, s, s)
<1>1. IF factory.kind # "multi" /\ duplicate THEN Refuse(a.by, cls, m)
      ELSE Define(a.by, cls, m, F, merge)
  BY Zenon DEF MergeWithOwn
<1>2. cls \in Classes /\ m \in Members /\ NoObject = 0
  BY DEF Decorations, DecorationsIn, NoObject
<1>3. Ready(cls, object, F)
  BY <1>2, OwnReady
<1>4. cls = "base" => BaseMember(object, F[m], m)
  BY <1>2, <1>3 DEF Ready, BaseHolds
<1>5. cls = "sub" => SubMember(object, F[m], m)
  BY <1>2, <1>3 DEF Ready, SubHolds
<1>6. F[m] = NoObject => own = <<>> /\ (cls = "sub" => ~Inherits(m))
  <2>1. CASE cls = "base"
    BY <1>2, <1>4, <2>1 DEF BaseMember, Held
  <2>2. CASE cls = "sub"
    BY <1>2, <1>5, <2>2 DEF SubMember, Held
  <2> QED
    BY <1>2, <2>1, <2>2 DEF Classes
<1>7. factory.kind # "multi" /\ own # <<>> => F[m] # NoObject /\ object[F[m]].target = cls
  <2>1. CASE cls = "base"
    BY <1>2, <1>4, <2>1 DEF BaseMember, Held
  <2>2. CASE cls = "sub"
    BY <1>2, <1>5, <2>2 DEF SubMember, Held
  <2> QED
    BY <1>2, <2>1, <2>2 DEF Classes
<1>8. own = <<>> /\ F[m] # NoObject =>
         /\ cls = "sub" /\ Inherits(m)
         /\ factory.kind # "multi" => object[F[m]].target = "none"
  <2>1. CASE cls = "base"
    BY <1>2, <1>4, <2>1 DEF BaseMember
  <2>2. CASE cls = "sub"
    BY <1>2, <1>5, <2>2 DEF SubMember, Held
  <2> QED
    BY <1>2, <2>1, <2>2 DEF Classes
<1>9. CASE factory.kind # "multi" /\ duplicate
  <2>1. own = <<>> => factory.kind = "property" /\ cls = "sub" /\ Inherits(m)
    BY <1>8, <1>9
  <2>2. Inherits(m) /\ cls = "sub" => metadata["sub"].is /\ DecorationsOf("base", m) # <<>>
    BY DEF Inherits
  <2> QED
    BY <1>1, <1>9, <2>1, <2>2 DEF RightlyRefused, LaterInherited
<1>10. CASE ~(factory.kind # "multi" /\ duplicate)
  <2>1. Define(a.by, cls, m, F, merge)
    BY <1>1, <1>10, Zenon
  <2>2. factory.kind # "multi" => own = <<>>
    BY <1>7, <1>10
  <2>3. CASE factory.kind = "multi"
    <3>1. merge = IF F[m] = NoObject THEN MergeOf(object, s, s)
                  ELSE MergeOf([object EXCEPT ![F[m]].value = @ \o object[s].value], F[m], s)
      BY <2>3 DEF MergeArray
    <3> HIDE DEF merge
    <3>2. GivesSpec(a, object, F, merge) \/ GrowsArray(a, object, F, merge)
      BY <1>6, <2>3, <3>1 DEF GivesSpec, GrowsArray
    <3> QED
      BY <1>3, <2>1, <3>2, MergeDefined
  <2>4. CASE factory.kind = "parameter"
    <3>1. merge = IF F[m] = NoObject \/ ~factory.allowInheritance THEN MergeOf(object, s, s)
                  ELSE MergeOf([object EXCEPT ![F[m]].value = Assigned(@, object[s].value)],
                               F[m], F[m])
      BY <2>4 DEF Inherit
    <3> HIDE DEF merge
    <3>2. CASE F[m] = NoObject
      <4>1. GivesSpec(a, object, F, merge)
        BY <1>6, <3>1, <3>2 DEF GivesSpec
      <4> QED
        BY <1>3, <2>1, <4>1, MergeDefined
    <3>3. CASE F[m] # NoObject
      <4>1. cls = "sub" /\ own = <<>> /\ factory.allowInheritance
        BY <1>8, <2>2, <2>4, <3>3 DEF Inherits
      <4>2. MergesCopy(a, object, F, merge)
        BY <2>4, <3>1, <3>3, <4>1 DEF MergesCopy
      <4> QED
        BY <1>3, <2>1, <4>2, MergeDefined
    <3> QED
      BY <3>2, <3>3
  <2>5. CASE factory.kind \notin {"multi", "parameter"}
    <3>1. merge = MergeOf(object, s, s)
      BY <2>5
    <3> HIDE DEF merge
    <3>2. ASSUME cls = "sub", Inherits(m), applied' = Append(applied, a)
          PROVE  FirstOf("sub")'.member # m
      <4>1. metadata["sub"].is
        BY <3>2 DEF Inherits
      <4>2. PICK k \in Members : DecorationsOf("sub", k) # <<>>
        BY <4>1 DEF Undisturbed, Classes
      <4>3. FirstOf("sub")' = FirstOf("sub")
        BY <3>2, <4>2, DecorationAdded DEF Classes
      <4>4. DecorationsOf("sub", FirstOf("sub").member) # <<>>
        BY <4>2, FirstIs DEF Classes
      <4>5. DecorationsOf("sub", m) = <<>>
        BY <2>2, <2>5, <3>2
      <4>6. FirstOf("sub").member # m
        BY <4>4, <4>5, Zenon
      <4> QED
        BY <4>3, <4>6, Zenon
    <3>3. GivesSpec(a, object, F, merge)
      BY <2>2, <2>5, <3>1, <3>2 DEF GivesSpec
    <3> QED
      BY <1>3, <2>1, <3>3, MergeDefined
  <2> QED
    BY <2>3, <2>4, <2>5
<1> QED
  BY <1>9, <1>10

\* The first decoration of a class that may inherit leaves the metadata as it should be.
LEMMA InheritedMerged ==
    ASSUME applied \in Seq(Decorations), NEW a \in Decorations, Undisturbed,
           NothingShared(Append(applied, a)), UNCHANGED factory,
           a.at = "base" => ~metadata["sub"].is,
           ~metadata[a.at].is, factory.allowInheritance,
           MergeWithInherited(a.by, a.at, a.member)
    PROVE  applied' = Append(applied, a) /\ UNCHANGED refused /\ Undisturbed'
<1> DEFINE cls == a.at
           m == a.member
           s == SpecOf[a.by]
           copy == CloneDeep(object, IF cls = "sub" THEN metadata["base"].of ELSE NoMetadata.of)
           O == copy.objects
           F == copy.of
           own == DecorationsOf(cls, m)
           merge == IF factory.kind = "multi" THEN MergeArray(O, F[m], s) ELSE Inherit(O, F[m], s)
<1>1. Define(a.by, cls, m, F, merge)
  BY Zenon DEF MergeWithInherited
<1>2. cls \in Classes /\ m \in Members /\ NoObject = 0
  BY DEF Decorations, DecorationsIn, NoObject
<1>3. Ready(cls, O, F)
  <2>1. NothingShared(applied) /\ UsedSpecs \subseteq 1 .. Specs
    BY SpecUnused
  <2> QED
    BY <1>2, <2>1, CloneReady, Zenon
<1>4. merge = IF factory.kind = "multi"
              THEN IF F[m] = NoObject THEN MergeOf(O, s, s)
                   ELSE MergeOf([O EXCEPT ![F[m]].value = @ \o O[s].value], F[m], s)
              ELSE IF F[m] = NoObject THEN MergeOf(O, s, s)
                   ELSE MergeOf([O EXCEPT ![F[m]].value = Assigned(@, O[s].value)], F[m], F[m])
  BY DEF MergeArray, Inherit
<1>5. \A k \in Members : DecorationsOf(cls, k) = <<>>
  BY <1>2 DEF Undisturbed
<1> HIDE DEF O, F, merge, copy
<1>6. F[m] = NoObject => (cls = "sub" => ~Inherits(m))
  <2> SUFFICES ASSUME F[m] = NoObject, cls = "sub" PROVE ~Inherits(m)
    OBVIOUS
  <2>1. SubMember(O, F[m], m)
    BY <1>2, <1>3 DEF Ready, SubHolds
  <2> QED
    BY <1>2, <2>1 DEF SubMember, Held
<1>7. F[m] # NoObject => cls = "sub"
  <2> SUFFICES ASSUME cls = "base" PROVE F[m] = NoObject
    BY <1>2 DEF Classes
  <2>1. BaseMember(O, F[m], m)
    BY <1>2, <1>3 DEF Ready, BaseHolds
  <2> QED
    BY <1>2, <1>5, <2>1 DEF BaseMember
<1>8. applied' = Append(applied, a) => FirstOf(cls)'.member = m
  <2>1. applied' = Append(applied, a) => FirstOf(cls)' = a
    BY <1>2, <1>5, DecorationAdded, Zenon
  <2> QED
    BY <2>1
<1>9. \/ GivesSpec(a, O, F, merge)
      \/ MergesCopy(a, O, F, merge)
      \/ GrowsArray(a, O, F, merge)
  <2>1. CASE F[m] = NoObject
    BY <1>2, <1>4, <1>5, <1>6, <2>1 DEF GivesSpec
  <2>2. CASE F[m] # NoObject /\ factory.kind = "multi"
    BY <1>4, <2>2 DEF GrowsArray
  <2>3. CASE F[m] # NoObject /\ factory.kind # "multi"
    BY <1>2, <1>4, <1>5, <1>7, <1>8, <2>3 DEF MergesCopy
  <2> QED
    BY <2>1, <2>2, <2>3
<1> QED
  BY <1>1, <1>3, <1>9, MergeDefined

\* Without decorations there is no metadata.
LEMMA DecoratorInitHolds == ASSUME DecoratorInit PROVE DecoratorIInv
<1>1. /\ factory \in [kind : Factories, allowInheritance : BOOLEAN]
      /\ object = [o \in 1 .. 2 * Specs |->
                      [value |-> IF o > Specs THEN <<>> ELSE SpecValue(o), target |-> "none"]]
      /\ metadata = [cls \in Classes |-> NoMetadata] /\ applied = <<>> /\ refused = {}
  BY Zenon DEF DecoratorInit
<1>2. applied \in Seq(Decorations)
  BY <1>1
<1>3. Specs \in Nat /\ NoObject = 0
  BY DecoratorAssumption DEF NoObject
<1>4. \A cls \in Classes, m \in Members : DecorationsOf(cls, m) = <<>>
  <2> SUFFICES ASSUME NEW cls \in Classes, NEW m \in Members PROVE DecorationsOf(cls, m) = <<>>
    OBVIOUS
  <2>1. ToSet(<<>>) = {}
    BY DEF ToSet
  <2>2. DecorationsOf(cls, m) # <<>> => DecorationsOf(cls, m)[1] \in ToSet(applied)
    BY <1>2, DecorationsAre
  <2> QED
    BY <1>1, <2>1, <2>2
<1>5. Objects(object)
  BY <1>1 DEF Objects
<1>6. \A s \in 1 .. Specs \ UsedSpecs :
         object[s] = [value |-> SpecValue(s), target |-> "none"]
  <2>1. \A s \in 1 .. Specs : s \in 1 .. 2 * Specs /\ ~(s > Specs)
    BY <1>3
  <2> QED
    BY <1>1, <2>1
<1>7. /\ metadata \in [Classes -> [is : BOOLEAN, of : [Members -> 0 .. 2 * Specs]]]
      /\ \A cls \in Classes : ~metadata[cls].is /\ metadata[cls].of = NoMetadata.of
      /\ \A m \in Members : NoMetadata.of[m] = NoObject
  <2>1. NoMetadata \in [is : BOOLEAN, of : [Members -> 0 .. 2 * Specs]] /\ ~NoMetadata.is
    BY <1>3 DEF NoMetadata
  <2>2. \A m \in Members : NoMetadata.of[m] = NoObject
    BY DEF NoMetadata
  <2> QED
    BY <1>1, <2>1, <2>2
<1>8. BaseHolds(object, metadata["base"].of)
  BY <1>4, <1>7 DEF BaseHolds, BaseMember, Classes
<1>9. Undisturbed
  BY <1>4, <1>5, <1>6, <1>7, <1>8 DEF Undisturbed, Classes
<1> QED
  BY <1>1, <1>2, <1>9 DEF DecoratorIInv

\* What is as it should be stays so if nothing changes.
LEMMA MetadataSame ==
    ASSUME UNCHANGED <<factory, object, metadata, applied>>
    PROVE  Undisturbed' = Undisturbed /\ \A r : RightlyRefused(r)' = RightlyRefused(r)
<1>1. factory' = factory /\ object' = object /\ metadata' = metadata /\ applied' = applied
  OBVIOUS
<1>2. \A cls, m : /\ DecorationsOf(cls, m)' = DecorationsOf(cls, m)
                  /\ FirstOf(cls)' = FirstOf(cls)
  BY Zenon DEF DecorationsOf, FirstOf
<1>3. UsedSpecs' = UsedSpecs /\ \A s : SpecValue(s)' = SpecValue(s)
  BY <1>1, Zenon DEF UsedSpecs, SpecValue
<1>4. \A cls, m : OwnValue(cls, m)' = OwnValue(cls, m)
  BY <1>1, <1>2, <1>3 DEF OwnValue
<1>5. \A m : SubValueIs(m)' = SubValueIs(m) /\ Inherits(m)' = Inherits(m)
  BY <1>1, <1>2, <1>4 DEF SubValueIs, Inherits
<1>6. \A O, o, m : BaseMember(O, o, m)' = BaseMember(O, o, m)
  <2> SUFFICES ASSUME NEW O, NEW o, NEW m PROVE BaseMember(O, o, m)' = BaseMember(O, o, m)
    OBVIOUS
  <2> QED
    BY <1>1, <1>2, <1>4, Zenon DEF BaseMember, Held
<1>7. \A O, o, m : SubMember(O, o, m)' = SubMember(O, o, m)
  <2> SUFFICES ASSUME NEW O, NEW o, NEW m PROVE SubMember(O, o, m)' = SubMember(O, o, m)
    OBVIOUS
  <2> QED
    BY <1>1, <1>2, <1>5, Zenon DEF SubMember, Held
<1>8. \A O, F : BaseHolds(O, F)' = BaseHolds(O, F) /\ SubHolds(O, F)' = SubHolds(O, F)
  BY <1>6, <1>7 DEF BaseHolds, SubHolds
<1>9. Undisturbed' = Undisturbed
  BY <1>1, <1>2, <1>3, <1>8 DEF Undisturbed
<1> QED
  BY <1>1, <1>2, <1>9, Zenon DEF RightlyRefused, LaterInherited

\* A further decoration is refused for a reason, or leaves the metadata as it should be.
LEMMA DecorateKeeps ==
    ASSUME DecoratorIInv, refused = {}, NEW a \in Decorations, Decorate(a.by, a.at, a.member)
    PROVE  DecoratorIInv'
<1>1. /\ factory \in [kind : Factories, allowInheritance : BOOLEAN] /\ applied \in Seq(Decorations)
      /\ NothingShared(applied) => Undisturbed
      /\ factory' = factory /\ a.at \in Classes
      /\ a = [by |-> a.by, at |-> a.at, member |-> a.member]
  BY DEF DecoratorIInv, Decorate, Decorations, DecorationsIn
<1>2. IF ~metadata[a.at].is /\ factory.allowInheritance
      THEN MergeWithInherited(a.by, a.at, a.member)
      ELSE MergeWithOwn(a.by, a.at, a.member)
  BY DEF Decorate
<1>3. \/ applied' = Append(applied, a) /\ refused' = {}
      \/ /\ UNCHANGED <<object, metadata, applied>> /\ refused' = {a}
  <2>1. \A of, merge : Define(a.by, a.at, a.member, of, merge) =>
           \/ applied' = Append(applied, a) /\ refused' = refused
           \/ Refuse(a.by, a.at, a.member)
    BY <1>1, Zenon DEF Define
  <2>2. \/ applied' = Append(applied, a) /\ refused' = refused
        \/ Refuse(a.by, a.at, a.member)
    BY <1>2, <2>1, Zenon DEF MergeWithInherited, MergeWithOwn
  <2> QED
    BY <1>1, <2>2 DEF Refuse
<1>4. CASE NothingShared(Append(applied, a))
  <2>1. NothingShared(applied) /\ Undisturbed
    BY <1>1, <1>4, SpecUnused
  <2>2. a.at = "base" => ~metadata["sub"].is
    <3> SUFFICES ASSUME a.at = "base", NEW m \in Members PROVE DecorationsOf("sub", m) = <<>>
      BY <2>1 DEF Undisturbed, Classes
    <3>1. \A x \in ToSet(applied) : x.at = "base"
      BY <1>1 DEF Decorate, ToSet
    <3>2. DecorationsOf("sub", m) # <<>> => DecorationsOf("sub", m)[1].at = "sub"
      BY <1>1, DecorationsAre DEF Classes
    <3>3. DecorationsOf("sub", m) # <<>> => DecorationsOf("sub", m)[1] \in ToSet(applied)
      BY <1>1, DecorationsAre DEF Classes
    <3> QED
      BY <3>1, <3>2, <3>3
  <2>3. \/ applied' = Append(applied, a) /\ UNCHANGED refused /\ Undisturbed'
        \/ Refuse(a.by, a.at, a.member) /\ RightlyRefused(a)
    <3>1. CASE ~metadata[a.at].is /\ factory.allowInheritance
      BY <1>1, <1>2, <1>4, <2>1, <2>2, <3>1, InheritedMerged
    <3>2. CASE ~(~metadata[a.at].is /\ factory.allowInheritance)
      BY <1>1, <1>2, <1>4, <2>1, <2>2, <3>2, OwnMerged
    <3> QED
      BY <3>1, <3>2
  <2>4. CASE applied' = Append(applied, a) /\ UNCHANGED refused /\ Undisturbed'
    <3>1. applied' \in Seq(Decorations)
      BY <1>1, <2>4
    <3> QED
      BY <1>1, <2>4, <3>1 DEF DecoratorIInv
  <2>5. CASE Refuse(a.by, a.at, a.member) /\ RightlyRefused(a)
    <3>1. UNCHANGED <<object, metadata, applied>> /\ refused' = {a}
      BY <1>1, <2>5 DEF Refuse
    <3>2. Undisturbed' /\ RightlyRefused(a)'
      BY <1>1, <2>1, <2>5, <3>1, MetadataSame
    <3> QED
      BY <1>1, <3>1, <3>2 DEF DecoratorIInv
  <2> QED
    BY <2>3, <2>4, <2>5
<1>5. CASE ~NothingShared(Append(applied, a))
  <2>1. CASE applied' = Append(applied, a) /\ refused' = {}
    <3>1. applied' \in Seq(Decorations) /\ ~NothingShared(applied')
      BY <1>1, <1>5, <2>1
    <3> QED
      BY <1>1, <2>1, <3>1 DEF DecoratorIInv
  <2>2. CASE UNCHANGED <<object, metadata, applied>> /\ refused' = {a}
    <3>1. NothingShared(applied) => Undisturbed'
      BY <1>1, <2>2, MetadataSame
    <3> QED
      BY <1>1, <1>5, <2>2, <3>1 DEF DecoratorIInv
  <2> QED
    BY <1>3, <2>1, <2>2
<1> QED
  BY <1>4, <1>5

\* Metadata that is as it should be is what the inspector finds.
LEMMA InspectorFinds == ASSUME DecoratorIInv PROVE DecoratorsInherit
<1>1. factory.kind \in Factories /\ applied \in Seq(Decorations) /\ NoObject = 0
  BY DEF DecoratorIInv, NoObject
<1>2. ASSUME NothingShared(applied), NEW m \in Members
      PROVE  /\ GetMetadata("base", m) = OwnValue("base", m)
             /\ SubGets(m, GetMetadata("sub", m))
             /\ factory.kind # "multi" => \A cls \in Classes : Len(DecorationsOf(cls, m)) <= 1
  <2>1. Undisturbed
    BY <1>2 DEF DecoratorIInv
  <2>2. BaseMember(object, metadata["base"].of[m], m)
    BY <1>2, <2>1 DEF Undisturbed, BaseHolds
  <2>3. metadata["sub"].is => SubMember(object, metadata["sub"].of[m], m)
    BY <1>2, <2>1 DEF Undisturbed, SubHolds
  <2>4. \A cls \in Classes : DecorationsOf(cls, m) = <<>> => OwnValue(cls, m) = <<>>
    BY <1>1, <1>2, OwnValueIs
  <2>5. ~metadata["sub"].is => DecorationsOf("sub", m) = <<>>
    BY <1>2, <2>1 DEF Undisturbed, Classes
  <2>6. (IF metadata["base"].of[m] = NoObject THEN <<>> ELSE object[metadata["base"].of[m]].value)
           = OwnValue("base", m)
    BY <1>1, <2>2, <2>4 DEF BaseMember, Held, Classes
  <2>7. GetMetadata("base", m) = OwnValue("base", m)
    BY <2>6, Zenon DEF GetMetadata
  <2>8. SubGets(m, GetMetadata("sub", m))
    <3>1. CASE ~metadata["sub"].is
      <4>1. GetMetadata("sub", m) = OwnValue("base", m)
        BY <2>6, <3>1, Zenon DEF GetMetadata
      <4> QED
        BY <3>1, <4>1, Zenon DEF SubGets
    <3>2. CASE metadata["sub"].is
      <4>1. GetMetadata("sub", m) = SubValueIs(m) => SubGets(m, GetMetadata("sub", m))
        BY <3>2, Zenon DEF SubGets, SubValueIs
      <4>2. GetMetadata("sub", m) = IF metadata["sub"].of[m] = NoObject THEN <<>>
                                    ELSE object[metadata["sub"].of[m]].value
        BY <3>2, Zenon DEF GetMetadata
      <4>3. CASE metadata["sub"].of[m] # NoObject
        BY <2>3, <3>2, <4>1, <4>2, <4>3 DEF SubMember, Held
      <4>4. CASE metadata["sub"].of[m] = NoObject
        <5>1. DecorationsOf("sub", m) = <<>> /\ ~Inherits(m)
          BY <1>1, <2>3, <3>2, <4>4 DEF SubMember, Held
        <5>2. OwnValue("sub", m) = <<>> /\ (factory.allowInheritance => OwnValue("base", m) = <<>>)
          BY <2>4, <5>1 DEF Inherits, Classes
        <5>3. SubValueIs(m) = <<>>
          BY <5>2 DEF SubValueIs
        <5> QED
          BY <4>1, <4>2, <4>4, <5>3
      <4> QED
        BY <4>3, <4>4
    <3> QED
      BY <3>1, <3>2
  <2>9. Len(<<>>) = 0
    OBVIOUS
  <2>10. factory.kind # "multi" => Len(DecorationsOf("base", m)) <= 1
    <3>1. \/ DecorationsOf("base", m) = <<>>
          \/ factory.kind # "multi" => Len(DecorationsOf("base", m)) = 1
      BY <2>2 DEF BaseMember
    <3>2. CASE DecorationsOf("base", m) = <<>>
      BY <2>9, <3>2
    <3>3. CASE factory.kind # "multi" => Len(DecorationsOf("base", m)) = 1
      <4>1. \A n : n = 1 => n <= 1
        OBVIOUS
      <4> QED
        BY <3>3, <4>1, Zenon
    <3> QED
      BY <3>1, <3>2, <3>3
  <2>11. factory.kind # "multi" => Len(DecorationsOf("sub", m)) <= 1
    <3>1. CASE ~metadata["sub"].is
      BY <2>5, <2>9, <3>1
    <3>2. CASE metadata["sub"].is
      <4>1. DecorationsOf("sub", m) = <<>> \/ (factory.kind # "multi" => Len(DecorationsOf("sub", m)) <= 1)
        BY <2>3, <3>2 DEF SubMember
      <4> QED
        BY <2>9, <4>1
    <3> QED
      BY <3>1, <3>2
  <2> QED
    BY <2>7, <2>8, <2>10, <2>11 DEF Classes
<1>3. \A r \in refused : NothingShared(Append(applied, r)) => RightlyRefused(r)
  BY DEF DecoratorIInv
<1> QED
  BY <1>2, <1>3, Zenon DEF DecoratorsInherit, RightlyRefused

\* Where no two decorations share a spec, whatever the factory of the decorators, decorating a
\* subclass leaves the base class as it is, and each member of the subclass has what its
\* decorator adds to what it inherits.
THEOREM MetadataInherited == DecoratorSpec => []DecoratorsInherit
<1>1. DecoratorInit => DecoratorIInv
  BY DecoratorInitHolds
<1>2. DecoratorIInv /\ [DecoratorNext]_decoratorVars => DecoratorIInv'
  <2> SUFFICES ASSUME DecoratorIInv, [DecoratorNext]_decoratorVars PROVE DecoratorIInv'
    OBVIOUS
  <2>1. CASE DecoratorNext
    <3>1. PICK d \in DOMAIN SpecOf, cls \in Classes, m \in Members : Decorate(d, cls, m)
      BY <2>1 DEF DecoratorNext
    <3> DEFINE a == [by |-> d, at |-> cls, member |-> m]
    <3>2. a \in Decorations /\ refused = {} /\ a.by = d /\ a.at = cls /\ a.member = m
      BY <2>1 DEF Decorations, DecorationsIn, DecoratorNext
    <3>3. Decorate(a.by, a.at, a.member)
      BY <3>1, <3>2
    <3> HIDE DEF a
    <3> QED
      BY <3>2, <3>3, DecorateKeeps
  <2>2. CASE UNCHANGED decoratorVars
    <3>1. UNCHANGED <<factory, object, metadata, applied>> /\ refused' = refused
      BY <2>2 DEF decoratorVars
    <3> QED
      BY <3>1, MetadataSame, Zenon DEF DecoratorIInv
  <2> QED
    BY <2>1, <2>2
<1>3. DecoratorIInv => DecoratorsInherit
  BY InspectorFinds
<1> QED
  BY <1>1, <1>2, <1>3, PTL DEF DecoratorSpec

---------------------------------------------------------------------------
(* The vote of the authorizers *)

\* Before the end nothing is settled, and the decision so far is that of those who were heard.
StillOpen ==
    /\ verdict = "begun" => consulted = 0 /\ finalDecision = policy.defaultDecision
    /\ verdict = "asking" =>
          /\ Protected /\ "unresolved" \notin ToSet(authorizers)
          /\ Heard \cap {policy.precedence, "throws"} = {}
          /\ finalDecision = DecisionOf(Heard)

VoteIInv == VoteDecides /\ StillOpen

\* Nobody is heard at first, all are in the end, and who is asked in between is one more.
LEMMA HeardIs ==
    ASSUME VoteTypeOK
    PROVE  /\ consulted = 0 => Heard = {}
           /\ Heard \subseteq ToSet(authorizers) /\ ToSet(authorizers) \subseteq Votes
           /\ consulted = Len(authorizers) => Heard = ToSet(authorizers)
<1>1. /\ authorizers \in Seq(Votes) /\ Len(authorizers) \in Nat
      /\ consulted \in 0 .. Len(authorizers)
  BY DEF VoteTypeOK
<1> QED
  BY <1>1 DEF Heard, ToSet

LEMMA SkipAuthorizationKeeps == ASSUME VoteIInv, SkipAuthorization PROVE VoteIInv'
<1> USE DEF VoteIInv, VoteDecides, SkipAuthorization, Protected, Heard
<1>1. VoteTypeOK'
  BY DEF VoteTypeOK
<1>2. PrecedencePrevails'
  BY DEF PrecedencePrevails
<1>3. AskedUntilSettled'
  BY DEF AskedUntilSettled
<1> QED
  BY <1>1, <1>2, <1>3 DEF StillOpen

LEMMA LoadAuthorizersKeeps == ASSUME VoteIInv, LoadAuthorizers PROVE VoteIInv'
<1>1. VoteTypeOK /\ AskedUntilSettled /\ consulted = 0 /\ verdict = "begun" /\ Protected
  BY DEF VoteIInv, VoteDecides, StillOpen, LoadAuthorizers
<1>2. UNCHANGED <<policy, authorizers, consulted, finalDecision>>
  BY DEF LoadAuthorizers
<1>3. Heard = {} /\ Heard' = {} /\ ToSet(authorizers') = ToSet(authorizers) /\ Protected'
  BY <1>1, <1>2, HeardIs DEF Heard, Protected
<1>4. verdict' = IF "unresolved" \in ToSet(authorizers) THEN "error" ELSE "asking"
  <2>1. authorizers \in Seq(Votes)
    BY <1>1 DEF VoteTypeOK
  <2>2. Contains(authorizers, "unresolved") <=> "unresolved" \in ToSet(authorizers)
    BY <2>1, ContainsIs
  <2> QED
    BY <2>2 DEF LoadAuthorizers
<1>5. VoteTypeOK'
  BY <1>1, <1>2, <1>4 DEF VoteTypeOK
<1>6. PrecedencePrevails'
  BY <1>3, <1>4 DEF PrecedencePrevails
<1>7. AskedUntilSettled'
  BY <1>1, <1>2, <1>4 DEF AskedUntilSettled
<1>8. StillOpen'
  <2>1. finalDecision = policy.defaultDecision
    BY <1>1 DEF VoteIInv, StillOpen
  <2> QED
    BY <1>1, <1>2, <1>3, <1>4, <2>1 DEF StillOpen, DecisionOf
<1> QED
  BY <1>5, <1>6, <1>7, <1>8 DEF VoteIInv, VoteDecides

\* The vote of the next authorizer settles the matter, or counts if it is a decision.
LEMMA AskKeeps == ASSUME VoteIInv, Ask PROVE VoteIInv'
<1> DEFINE vote == authorizers[consulted + 1]
<1>1. /\ VoteTypeOK /\ AskedUntilSettled /\ verdict = "asking" /\ Protected
      /\ "unresolved" \notin ToSet(authorizers)
      /\ Heard \cap {policy.precedence, "throws"} = {}
      /\ finalDecision = DecisionOf(Heard)
  BY DEF VoteIInv, VoteDecides, StillOpen, Ask
<1>2. /\ authorizers \in Seq(Votes) /\ Len(authorizers) \in Nat
      /\ consulted \in Nat /\ consulted + 1 \in 1 .. Len(authorizers)
      /\ policy.precedence \in {"allow", "deny"} /\ policy.defaultDecision \in {"allow", "deny"}
  BY <1>1 DEF VoteTypeOK, Policies, Ask
<1>3. /\ consulted' = consulted + 1 /\ UNCHANGED <<policy, authorizers>>
      /\ finalDecision' = IF vote \in {"allow", "deny"} THEN vote ELSE finalDecision
      /\ verdict' = IF vote = "throws" THEN "error"
                    ELSE IF vote # policy.precedence THEN "asking"
                    ELSE IF vote = "deny" THEN "denied" ELSE "next"
  BY DEF Ask
<1>4. vote \in ToSet(authorizers) /\ vote \in Votes \ {"unresolved"}
  <2>1. vote \in ToSet(authorizers) /\ ToSet(authorizers) \subseteq Votes
    BY <1>2 DEF ToSet
  <2> QED
    BY <1>1, <2>1
<1> HIDE DEF vote
<1>5. Heard' = Heard \cup {vote} /\ Protected'
  <2>1. \A i \in 1 .. consulted + 1 : i \in 1 .. consulted \/ i = consulted + 1
    BY <1>2
  <2>2. \A i \in 1 .. consulted : i \in 1 .. consulted + 1
    BY <1>2
  <2>3. consulted + 1 \in 1 .. consulted + 1
    BY <1>2
  <2> QED
    BY <1>1, <1>3, <2>1, <2>2, <2>3 DEF Heard, Protected, vote
<1>6. VoteTypeOK'
  BY <1>1, <1>2, <1>3 DEF VoteTypeOK
<1>7. DecisionOf(ToSet(authorizers))' = DecisionOf(ToSet(authorizers))
  BY <1>3 DEF DecisionOf
<1>8. PrecedencePrevails'
  BY <1>1, <1>3, <1>4, <1>5 DEF PrecedencePrevails, DecisionOf
<1>9. AskedUntilSettled'
  <2>1. ~\E i \in 1 .. consulted : authorizers[i] \in {policy.precedence, "throws"}
    BY <1>1 DEF Heard
  <2>2. \A i \in 1 .. consulted' : authorizers[i] \in {policy.precedence, "throws"} => i = consulted'
    BY <1>2, <1>3, <2>1
  <2>3. verdict' \in {"next", "denied"} => authorizers[consulted'] \in {policy.precedence, "throws"}
    BY <1>3 DEF vote
  <2> QED
    BY <1>1, <1>3, <2>2, <2>3 DEF AskedUntilSettled
<1>10. StillOpen'
  <2> SUFFICES ASSUME verdict' = "asking" PROVE StillOpen'
    BY <1>3, <1>4 DEF StillOpen
  <2>1. vote \notin {policy.precedence, "throws"}
    BY <1>3
  <2>2. finalDecision' = DecisionOf(Heard \cup {vote})
    BY <1>1, <1>2, <1>3, <1>4, <2>1 DEF DecisionOf, Votes
  <2>3. DecisionOf(Heard)' = DecisionOf(Heard \cup {vote})
    BY <1>3, <1>5 DEF DecisionOf
  <2> QED
    BY <1>1, <1>3, <1>5, <2>1, <2>2, <2>3 DEF StillOpen
<1> QED
  BY <1>6, <1>8, <1>9, <1>10 DEF VoteIInv, VoteDecides

LEMMA DecideKeeps == ASSUME VoteIInv, Decide PROVE VoteIInv'
<1>1. /\ VoteTypeOK /\ AskedUntilSettled /\ verdict = "asking" /\ Protected
      /\ "unresolved" \notin ToSet(authorizers)
      /\ Heard \cap {policy.precedence, "throws"} = {}
      /\ finalDecision = DecisionOf(Heard)
  BY DEF VoteIInv, VoteDecides, StillOpen, Decide
<1>2. /\ UNCHANGED <<policy, authorizers, consulted, finalDecision>>
      /\ consulted = Len(authorizers)
      /\ verdict' = IF finalDecision = "deny" THEN "denied" ELSE "next"
  BY DEF Decide
<1>3. Heard = ToSet(authorizers) /\ Heard' = Heard /\ Protected'
  BY <1>1, <1>2, HeardIs DEF Heard, Protected
<1>4. VoteTypeOK'
  BY <1>1, <1>2 DEF VoteTypeOK
<1>5. PrecedencePrevails'
  BY <1>1, <1>2, <1>3 DEF PrecedencePrevails, DecisionOf
<1>6. AskedUntilSettled'
  BY <1>1, <1>2 DEF AskedUntilSettled
<1> QED
  BY <1>2, <1>4, <1>5, <1>6 DEF VoteIInv, VoteDecides, StillOpen

\* Whatever authorizers there are and in whatever order, whatever they vote and whatever the
\* options: the vote ends as the documented precedence has it, nobody is asked once it is
\* settled, and an error never lets the call go on (AuthorizationInterceptor.intercept).
THEOREM VoteIsDecided ==
    ASSUME NEW CONSTANT voters \in SUBSET Seq(Votes), NEW CONSTANT bound \in SUBSET Seq(Votes)
    PROVE  VoteSpec(voters, bound) => []VoteDecides
<1>1. ASSUME VoteInit(voters, bound) PROVE VoteIInv
  <2>1. authorizers \in Seq(Votes) /\ consulted = 0 /\ verdict = "begun"
    <3>1. PICK v \in voters, b \in bound : authorizers = v \o b
      BY <1>1 DEF VoteInit
    <3>2. v \in Seq(Votes) /\ b \in Seq(Votes)
      OBVIOUS
    <3>3. v \o b \in Seq(Votes)
      BY <3>2
    <3> QED
      BY <1>1, <3>1, <3>3 DEF VoteInit
  <2>2. Len(authorizers) \in Nat
    BY <2>1
  <2>3. VoteTypeOK
    BY <1>1, <2>1, <2>2 DEF VoteInit, VoteTypeOK, Policies
  <2>4. PrecedencePrevails /\ AskedUntilSettled
    BY <2>1 DEF PrecedencePrevails, AskedUntilSettled
  <2> QED
    BY <1>1, <2>1, <2>3, <2>4 DEF VoteInit, VoteIInv, VoteDecides, StillOpen
<1>2. VoteIInv /\ [VoteNext]_voteVars => VoteIInv'
  <2>1. ASSUME VoteIInv, VoteNext PROVE VoteIInv'
    BY <2>1, SkipAuthorizationKeeps, LoadAuthorizersKeeps, AskKeeps, DecideKeeps DEF VoteNext
  <2>2. ASSUME VoteIInv, UNCHANGED voteVars PROVE VoteIInv'
    BY <2>2 DEF voteVars, VoteIInv, VoteDecides, StillOpen, VoteTypeOK, PrecedencePrevails,
                AskedUntilSettled, Protected, Heard, DecisionOf
  <2> QED
    BY <2>1, <2>2
<1>3. VoteIInv => VoteDecides
  BY DEF VoteIInv
<1> QED
  BY <1>1, <1>2, <1>3, PTL DEF VoteSpec

---------------------------------------------------------------------------
(* The schemas of models *)

Definitions == UNION {[T -> Nat] : T \in SUBSET Titles}

Schemas == [title : Titles, refs : SUBSET Titles, definitions : Definitions]

Frames == [schema : Nat, key : SchemaKeys, fresh : BOOLEAN, todo : Seq(ModelEdges)]

\* The types of the variables; a schema is named by its place in schemas, from 1.
SchemaShape ==
    /\ edges \in [Models -> Seq(ModelEdges)]
    /\ schemas \in Seq(Schemas)
    /\ kept \in [Models -> [SchemaKeys -> 0 .. Len(schemas)]]
    /\ DOMAIN visited \subseteq Titles
    /\ \A t \in DOMAIN visited : visited[t] \in 1 .. Len(schemas)
    /\ frames \in Seq(Frames)
    /\ \A i \in 1 .. Len(frames) : frames[i].schema \in 1 .. Len(schemas)
    /\ \A i \in 1 .. Len(frames) : i # Len(frames) => frames[i].todo # <<>>

\* A definition has the title it is kept by.
DefinitionsNamed ==
    \A s \in 1 .. Len(schemas) : \A t \in DOMAIN schemas[s].definitions :
        /\ schemas[s].definitions[t] \in 1 .. Len(schemas)
        /\ schemas[schemas[s].definitions[t]].title = t

\* A schema that is being made, or the definition of one.
InTheMaking(t) ==
    \E i \in 1 .. Len(frames) :
        LET s == frames[i].schema
        IN  t = schemas[s].title \/ t \in DOMAIN schemas[s].definitions

\* What a schema refers to is in the OpenAPI spec, or comes there with what is being made,
\* unless it was lost.
ReferencesKept ==
    \A s \in 1 .. Len(schemas) : \A t \in schemas[s].refs :
        t \in components \cup lost \/ InTheMaking(t)

SchemaIInv == SchemaShape /\ DefinitionsNamed /\ ReferencesKept /\ SchemasDefined

\* How Included changes the schemas when s is included in p.
Inclusion(new, p, s) ==
    /\ new \in Seq(Schemas) /\ Len(new) = Len(schemas)
    /\ \A q \in 1 .. Len(schemas) :
          /\ new[q].title = schemas[q].title
          /\ new[q].refs = IF q = p THEN schemas[q].refs \cup {schemas[s].title}
                           ELSE schemas[q].refs
          /\ q \notin {p, s} => new[q].definitions = schemas[q].definitions
    /\ DOMAIN new[s].definitions = {} \/ p = s
    /\ p = s => DOMAIN new[p].definitions = {}
    /\ p # s => /\ DOMAIN new[p].definitions =
                      DOMAIN schemas[p].definitions \cup {schemas[s].title}
                        \cup (DOMAIN schemas[s].definitions \ {schemas[p].title})
                /\ \A t \in DOMAIN new[p].definitions :
                      \/ t = schemas[s].title /\ new[p].definitions[t] = s
                      \/ \E q \in {p, s} : /\ t \in DOMAIN schemas[q].definitions
                                           /\ new[p].definitions[t] = schemas[q].definitions[t]

\* A schema is a title, references and definitions.
LEMMA SchemaFields ==
    ASSUME NEW x \in Schemas
    PROVE  /\ x = [title |-> x.title, refs |-> x.refs, definitions |-> x.definitions]
           /\ x.title \in Titles /\ x.refs \in SUBSET Titles /\ x.definitions \in Definitions
BY DEF Schemas

\* One schema gets other definitions.
LEMMA DefinitionsChanged ==
    ASSUME NEW S \in Seq(Schemas), NEW p \in 1 .. Len(S), NEW d \in Definitions
    PROVE  LET T == [S EXCEPT ![p].definitions = d]
           IN  /\ T \in Seq(Schemas) /\ Len(T) = Len(S)
               /\ \A q \in 1 .. Len(S) :
                     /\ T[q].title = S[q].title /\ T[q].refs = S[q].refs
                     /\ T[q].definitions = IF q = p THEN d ELSE S[q].definitions
<1> DEFINE x == S[p]
           y == [title |-> x.title, refs |-> x.refs, definitions |-> d]
<1>1. x \in Schemas /\ p \in DOMAIN S /\ DOMAIN S = 1 .. Len(S)
  OBVIOUS
<1>2. y \in Schemas /\ [x EXCEPT !.definitions = d] = y
  BY <1>1, SchemaFields DEF Schemas
<1>3. [S EXCEPT ![p].definitions = d] = [S EXCEPT ![p] = y]
  BY <1>2
<1> HIDE DEF y
<1>4. [S EXCEPT ![p] = y] \in Seq(Schemas) /\ Len([S EXCEPT ![p] = y]) = Len(S)
  BY <1>1, <1>2
<1>5. \A q \in 1 .. Len(S) : [S EXCEPT ![p] = y][q] = IF q = p THEN y ELSE S[q]
  BY <1>1
<1>6. y.title = x.title /\ y.refs = x.refs /\ y.definitions = d
  BY DEF y
<1> QED
  BY <1>3, <1>4, <1>5, <1>6

\* One schema gets other references.
ReferencesOnly(T, S, p, r) ==
    /\ T \in Seq(Schemas) /\ Len(T) = Len(S)
    /\ \A q \in 1 .. Len(S) :
          /\ T[q].title = S[q].title /\ T[q].definitions = S[q].definitions
          /\ T[q].refs = IF q = p THEN r ELSE S[q].refs

LEMMA ReferencesChanged ==
    ASSUME NEW S \in Seq(Schemas), NEW p \in 1 .. Len(S), NEW r \in SUBSET Titles
    PROVE  ReferencesOnly([S EXCEPT ![p].refs = r], S, p, r)
<1> DEFINE x == S[p]
           y == [title |-> x.title, refs |-> r, definitions |-> x.definitions]
<1>1. x \in Schemas /\ p \in DOMAIN S /\ DOMAIN S = 1 .. Len(S)
  OBVIOUS
<1>2. y \in Schemas /\ [x EXCEPT !.refs = r] = y
  BY <1>1, SchemaFields DEF Schemas
<1>3. [S EXCEPT ![p].refs = r] = [S EXCEPT ![p] = y]
  BY <1>2
<1> HIDE DEF y
<1>4. [S EXCEPT ![p] = y] \in Seq(Schemas) /\ Len([S EXCEPT ![p] = y]) = Len(S)
  BY <1>1, <1>2
<1>5. \A q \in 1 .. Len(S) : [S EXCEPT ![p] = y][q] = IF q = p THEN y ELSE S[q]
  BY <1>1
<1>6. y.title = x.title /\ y.refs = r /\ y.definitions = x.definitions
  BY DEF y
<1> QED
  BY <1>3, <1>4, <1>5, <1>6 DEF ReferencesOnly

\* What Included does to the schemas.
LEMMA IncludedIs ==
    ASSUME SchemaShape, NEW p \in 1 .. Len(schemas), NEW s \in 1 .. Len(schemas)
    PROVE  Inclusion(Included(p, s), p, s)
<1> DEFINE name == schemas[s].title
           promoted == DOMAIN schemas[s].definitions \ {schemas[p].title}
           bare == [schemas EXCEPT ![s].definitions = <<>>]
           own == [schemas EXCEPT ![s].definitions = <<>>, ![p].refs = @ \cup {name}]
           defs == [t \in DOMAIN own[p].definitions \cup promoted \cup {name} |->
                      IF t = name THEN s
                      ELSE IF t \in promoted THEN schemas[s].definitions[t]
                      ELSE own[p].definitions[t]]
<1>1. schemas \in Seq(Schemas) /\ Len(schemas) \in Nat /\ p \in Nat /\ s \in Nat
  BY DEF SchemaShape
<1>2. \A q \in 1 .. Len(schemas) : schemas[q] \in Schemas
  BY <1>1
<1>3. \A q \in 1 .. Len(schemas) : /\ schemas[q].title \in Titles
                                   /\ schemas[q].refs \in SUBSET Titles
                                   /\ schemas[q].definitions \in Definitions
  BY <1>2, SchemaFields
<1>4. <<>> \in Definitions /\ DOMAIN <<>> = {}
  <2>1. <<>> \in [{} -> Nat] /\ {} \in SUBSET Titles
    OBVIOUS
  <2> QED
    BY <2>1 DEF Definitions
<1>5. /\ bare \in Seq(Schemas) /\ Len(bare) = Len(schemas)
      /\ \A q \in 1 .. Len(schemas) :
            /\ bare[q].title = schemas[q].title /\ bare[q].refs = schemas[q].refs
            /\ bare[q].definitions = IF q = s THEN <<>> ELSE schemas[q].definitions
  BY <1>1, <1>4, DefinitionsChanged
<1>6. own = [bare EXCEPT ![p].refs = bare[p].refs \cup {name}]
  OBVIOUS
<1> HIDE DEF own
<1> HIDE DEF bare
<1>7. /\ own \in Seq(Schemas) /\ Len(own) = Len(schemas)
      /\ \A q \in 1 .. Len(schemas) :
            /\ own[q].title = schemas[q].title
            /\ own[q].refs = IF q = p THEN schemas[q].refs \cup {name} ELSE schemas[q].refs
            /\ own[q].definitions = IF q = s THEN <<>> ELSE schemas[q].definitions
  <2> DEFINE r == bare[p].refs \cup {name}
  <2>1. r \in SUBSET Titles /\ p \in 1 .. Len(bare)
    BY <1>3, <1>5
  <2>2. r = schemas[p].refs \cup {name}
    BY <1>5
  <2> HIDE DEF r
  <2>3. own = [bare EXCEPT ![p].refs = r]
    BY <1>6 DEF r
  <2>4. /\ own \in Seq(Schemas) /\ Len(own) = Len(bare)
        /\ \A q \in 1 .. Len(bare) :
              /\ own[q].title = bare[q].title /\ own[q].definitions = bare[q].definitions
              /\ own[q].refs = IF q = p THEN r ELSE bare[q].refs
    <3>1. bare \in Seq(Schemas)
      BY <1>5
    <3>2. ReferencesOnly([bare EXCEPT ![p].refs = r], bare, p, r)
      BY <2>1, <3>1, ReferencesChanged, Zenon
    <3> QED
      BY <2>3, <3>2 DEF ReferencesOnly
  <2> QED
    BY <1>5, <2>2, <2>4
<1>8. CASE p = s
  <2>1. Included(p, s) = own
    BY <1>8 DEF Included, own
  <2> QED
    BY <1>4, <1>7, <1>8, <2>1 DEF Inclusion
<1>9. CASE p # s
  <2>1. Included(p, s) = [own EXCEPT ![p].definitions = defs]
    BY <1>9, Zenon DEF Included, own
  <2>2. \A q \in 1 .. Len(schemas) :
           DOMAIN schemas[q].definitions \subseteq Titles
             /\ \A t \in DOMAIN schemas[q].definitions : schemas[q].definitions[t] \in Nat
    BY <1>3 DEF Definitions
  <2>3. own[p].definitions = schemas[p].definitions
    BY <1>7, <1>9
  <2>4. /\ DOMAIN defs = DOMAIN schemas[p].definitions \cup {name} \cup promoted
        /\ \A t \in DOMAIN defs :
              \/ t = name /\ defs[t] = s
              \/ \E q \in {p, s} : /\ t \in DOMAIN schemas[q].definitions
                                   /\ defs[t] = schemas[q].definitions[t]
    BY <2>3
  <2> DEFINE D == DOMAIN defs
  <2>5. defs = [t \in D |-> defs[t]]
    BY Zenon
  <2> HIDE DEF defs
  <2>6. D \in SUBSET Titles
    BY <1>3, <2>2, <2>4
  <2>7. \A t \in D : defs[t] \in Nat
    BY <1>1, <2>2, <2>4
  <2>8. defs \in Definitions
    <3> HIDE DEF D
    <3>1. defs \in [D -> Nat]
      BY <2>5, <2>7
    <3> QED
      BY <2>6, <3>1 DEF Definitions
  <2> DEFINE new == [own EXCEPT ![p].definitions = defs]
  <2>9. /\ new \in Seq(Schemas) /\ Len(new) = Len(own)
        /\ \A q \in 1 .. Len(own) :
              /\ new[q].title = own[q].title /\ new[q].refs = own[q].refs
              /\ new[q].definitions = IF q = p THEN defs ELSE own[q].definitions
    BY <1>7, <2>8, DefinitionsChanged
  <2> HIDE DEF new
  <2>10. Inclusion(new, p, s)
    BY <1>4, <1>7, <1>9, <2>4, <2>9 DEF Inclusion
  <2> QED
    BY <2>1, <2>10 DEF new
<1> QED
  BY <1>8, <1>9


\* How a frame goes on to its next property or relation.
GoneOn(new, old) ==
    /\ new \in Seq(Frames) /\ Len(new) = Len(old)
    /\ \A i \in 1 .. Len(old) : /\ new[i].schema = old[i].schema
                                /\ i # Len(old) => new[i].todo = old[i].todo

LEMMA FrameGoesOn ==
    ASSUME NEW F \in Seq(Frames), F # <<>>, F[Len(F)].todo # <<>>
    PROVE  GoneOn([F EXCEPT ![Len(F)].todo = Tail(@)], F)
<1> DEFINE n == Len(F)
           x == F[n]
           rest == Tail(x.todo)
           y == [schema |-> x.schema, key |-> x.key, fresh |-> x.fresh, todo |-> rest]
<1>1. n \in 1 .. Len(F) /\ x \in Frames /\ DOMAIN F = 1 .. n
  OBVIOUS
<1>2. /\ x = [schema |-> x.schema, key |-> x.key, fresh |-> x.fresh, todo |-> x.todo]
      /\ x.schema \in Nat /\ x.key \in SchemaKeys /\ x.fresh \in BOOLEAN
      /\ x.todo \in Seq(ModelEdges)
  BY <1>1 DEF Frames
<1>3. rest \in Seq(ModelEdges)
  <2> DEFINE t == x.todo
  <2>1. t \in Seq(ModelEdges) /\ t # <<>>
    BY <1>2
  <2> HIDE DEF t
  <2>2. Tail(t) \in Seq(ModelEdges)
    BY <2>1
  <2> QED
    BY <2>2 DEF t
<1> HIDE DEF rest
<1>4. y \in Frames /\ y.schema = x.schema
  BY <1>2, <1>3 DEF Frames
<1>5. [x EXCEPT !.todo = rest] = y
  BY <1>2
<1>6. [F EXCEPT ![Len(F)].todo = Tail(@)] = [F EXCEPT ![n] = y]
  BY <1>5 DEF rest
<1> HIDE DEF y
<1> DEFINE G == [F EXCEPT ![n] = y]
<1>7. G \in Seq(Frames) /\ Len(G) = Len(F)
  BY <1>1, <1>4
<1>8. \A i \in 1 .. Len(F) : G[i] = IF i = n THEN y ELSE F[i]
  BY <1>1
<1> HIDE DEF G
<1>9. GoneOn(G, F)
  BY <1>4, <1>7, <1>8 DEF GoneOn
<1> QED
  BY <1>6, <1>9 DEF G

\* The schemas that are being made still are, but for the one that is included.
LEMMA InclusionKeeps ==
    ASSUME SchemaIInv, NEW p \in 1 .. Len(schemas), NEW s \in 1 .. Len(schemas),
           Inclusion(schemas', p, s), lost' = lost \cup Lost(p, s),
           UNCHANGED <<components, referredTo>>,
           \E j \in 1 .. Len(frames') : frames'[j].schema = p,
           \A i \in 1 .. Len(frames) : frames[i].schema # s =>
              \E j \in 1 .. Len(frames') : frames'[j].schema = frames[i].schema
    PROVE  DefinitionsNamed' /\ ReferencesKept' /\ SchemasDefined'
<1> DEFINE name == schemas[s].title
<1>1. /\ Len(schemas') = Len(schemas)
      /\ \A q \in 1 .. Len(schemas) : schemas'[q].title = schemas[q].title
      /\ \A q \in 1 .. Len(schemas) :
            q \notin {p, s} => schemas'[q].definitions = schemas[q].definitions
  BY DEF Inclusion
<1>2. SchemasDefined'
  BY DEF SchemaIInv, SchemasDefined
<1>3. DefinitionsNamed'
  <2> SUFFICES ASSUME NEW q \in 1 .. Len(schemas), NEW t \in DOMAIN schemas'[q].definitions
               PROVE  /\ schemas'[q].definitions[t] \in 1 .. Len(schemas)
                      /\ schemas[schemas'[q].definitions[t]].title = t
    BY <1>1 DEF DefinitionsNamed
  <2>1. DefinitionsNamed
    BY DEF SchemaIInv
  <2>2. CASE q \notin {p, s}
    BY <1>1, <2>1, <2>2 DEF DefinitionsNamed
  <2>3. CASE q \in {p, s} /\ (q # p \/ p = s)
    BY <2>3 DEF Inclusion
  <2>4. CASE q = p /\ p # s
    <3>1. \/ t = schemas[s].title /\ schemas'[p].definitions[t] = s
          \/ \E r \in {p, s} : /\ t \in DOMAIN schemas[r].definitions
                               /\ schemas'[p].definitions[t] = schemas[r].definitions[t]
      BY <2>4 DEF Inclusion
    <3> QED
      BY <2>1, <2>4, <3>1 DEF DefinitionsNamed
  <2> QED
    BY <2>2, <2>3, <2>4
<1>4. ReferencesKept'
  <2> SUFFICES ASSUME NEW q \in 1 .. Len(schemas), NEW t \in schemas'[q].refs,
                      t \notin components \cup lost'
               PROVE  \E j \in 1 .. Len(frames') :
                         \/ t = schemas'[frames'[j].schema].title
                         \/ t \in DOMAIN schemas'[frames'[j].schema].definitions
    BY <1>1 DEF ReferencesKept, InTheMaking
  <2>1. PICK j \in 1 .. Len(frames') : frames'[j].schema = p
    OBVIOUS
  <2>2. ASSUME t = name \/ t = schemas[p].title
        PROVE  t = schemas'[p].title \/ t \in DOMAIN schemas'[p].definitions
    BY <1>1, <2>2 DEF Inclusion
  <2>3. CASE t \in schemas[q].refs
    <3>1. PICK i \in 1 .. Len(frames) :
             \/ t = schemas[frames[i].schema].title
             \/ t \in DOMAIN schemas[frames[i].schema].definitions
      BY <2>3 DEF SchemaIInv, ReferencesKept, InTheMaking
    <3> DEFINE x == frames[i].schema
    <3>2. x \in 1 .. Len(schemas)
      BY DEF SchemaIInv, SchemaShape
    <3>3. x # s => \E k \in 1 .. Len(frames') : frames'[k].schema = x
      OBVIOUS
    <3> HIDE DEF x
    <3>4. CASE x \notin {p, s}
      BY <1>1, <3>1, <3>2, <3>3, <3>4 DEF x
    <3>5. CASE x \in {p, s} /\ t = schemas[x].title
      BY <2>1, <2>2, <3>5
    <3>6. CASE x \in {p, s} /\ t \in DOMAIN schemas[x].definitions
      <4>1. CASE p = s
        BY <3>6, <4>1 DEF Lost
      <4>2. CASE p # s
        <5>1. t = schemas[p].title \/ t \in DOMAIN schemas'[p].definitions
          BY <3>6, <4>2 DEF Inclusion
        <5> QED
          BY <2>1, <2>2, <5>1
      <4> QED
        BY <4>1, <4>2
    <3> QED
      BY <3>1, <3>4, <3>5, <3>6 DEF x
  <2>4. CASE t \notin schemas[q].refs
    <3>1. t = name
      <4>1. schemas'[q].refs = IF q = p THEN schemas[q].refs \cup {name} ELSE schemas[q].refs
        BY Zenon DEF Inclusion
      <4> QED
        BY <2>4, <4>1
    <3> QED
      BY <2>1, <2>2, <3>1
  <2> QED
    BY <2>3, <2>4
<1> QED
  BY <1>2, <1>3, <1>4

\* A call begins, for a schema that is new.
LEMMA CallKeeps ==
    ASSUME SchemaIInv, NEW title \in Titles, NEW key \in SchemaKeys, Called(title, key),
           UNCHANGED <<edges, kept, components, referredTo, lost>>,
           frames # <<>> => Last(frames).todo # <<>>
    PROVE  SchemaIInv'
<1> DEFINE n == Len(schemas)
           x == [title |-> title, refs |-> {}, definitions |-> <<>>]
           todo == EdgesOf(title)
           fresh == kept[title.of] = NoSchemas
           f == [schema |-> n + 1, key |-> key, fresh |-> fresh, todo |-> todo]
<1>1. SchemaShape /\ DefinitionsNamed /\ ReferencesKept /\ SchemasDefined
  BY DEF SchemaIInv
<1>2. x \in Schemas
  <2>1. <<>> \in [{} -> Nat] /\ {} \in SUBSET Titles
    OBVIOUS
  <2>2. <<>> \in Definitions
    BY <2>1 DEF Definitions
  <2> QED
    BY <2>2 DEF Schemas
<1>3. todo \in Seq(ModelEdges)
  <2>1. edges[title.of] \in Seq(ModelEdges)
    BY <1>1 DEF SchemaShape, Titles
  <2> QED
    BY <2>1, WithinType, Zenon DEF EdgesOf
<1> HIDE DEF todo
<1>0. fresh \in BOOLEAN
  OBVIOUS
<1> HIDE DEF fresh
<1>4. schemas \in Seq(Schemas) /\ n \in Nat /\ frames \in Seq(Frames)
  BY <1>1 DEF SchemaShape
<1>5. f \in Frames /\ f.schema = n + 1
  BY <1>3, <1>0, <1>4 DEF Frames
<1>6. x.title = title /\ x.refs = {} /\ DOMAIN x.definitions = {}
  OBVIOUS
<1> HIDE DEF f
<1> HIDE DEF x
<1>7. schemas' = Append(schemas, x) /\ frames' = Append(frames, f)
  BY DEF Called, f, x, todo, fresh
<1>8. /\ schemas' \in Seq(Schemas) /\ Len(schemas') = n + 1
      /\ \A q \in 1 .. n : schemas'[q] = schemas[q]
      /\ schemas'[n + 1] = x
  BY <1>2, <1>4, <1>7
<1>9. /\ frames' \in Seq(Frames) /\ Len(frames') = Len(frames) + 1
      /\ \A i \in 1 .. Len(frames) : frames'[i] = frames[i]
      /\ frames'[Len(frames) + 1] = f
  BY <1>4, <1>5, <1>7
<1>10. SchemaShape'
  <2>1. /\ edges' \in [Models -> Seq(ModelEdges)]
        /\ kept' \in [Models -> [SchemaKeys -> 0 .. n + 1]]
    <3>1. kept \in [Models -> [SchemaKeys -> 0 .. n]]
      BY <1>1 DEF SchemaShape
    <3>2. \A m \in Models : kept[m] \in [SchemaKeys -> 0 .. n + 1]
      <4> TAKE m \in Models
      <4>1. kept[m] \in [SchemaKeys -> 0 .. n]
        BY <3>1
      <4>2. \A k \in 0 .. n : k \in 0 .. n + 1
        BY <1>4
      <4> QED
        BY <4>1, <4>2
    <3> QED
      BY <1>1, <3>1, <3>2 DEF SchemaShape
  <2>2. /\ DOMAIN visited' \subseteq Titles
        /\ \A t \in DOMAIN visited' : visited'[t] \in 1 .. n + 1
    BY <1>1, <1>4 DEF SchemaShape, Called
  <2>3. \A i \in 1 .. Len(frames') : frames'[i].schema \in 1 .. n + 1
    <3> TAKE i \in 1 .. Len(frames')
    <3>1. CASE i = Len(frames) + 1
      BY <1>4, <1>5, <1>9, <3>1
    <3>2. CASE i # Len(frames) + 1
      <4>1. i \in 1 .. Len(frames)
        BY <1>4, <1>9, <3>2
      <4>2. frames[i].schema \in 1 .. n
        BY <1>1, <4>1 DEF SchemaShape
      <4> QED
        BY <1>4, <1>9, <4>1, <4>2
    <3> QED
      BY <3>1, <3>2
  <2>4. \A i \in 1 .. Len(frames') : i # Len(frames') => frames'[i].todo # <<>>
    <3> SUFFICES ASSUME NEW i \in 1 .. Len(frames'), i # Len(frames')
                 PROVE  frames'[i].todo # <<>>
      OBVIOUS
    <3>1. i \in 1 .. Len(frames) /\ frames'[i] = frames[i]
      BY <1>4, <1>9
    <3>2. i # Len(frames) => frames[i].todo # <<>>
      BY <1>1, <3>1 DEF SchemaShape
    <3>3. i = Len(frames) => frames[i].todo # <<>>
      BY <1>4, <3>1 DEF Last
    <3> QED
      BY <3>1, <3>2, <3>3
  <2> QED
    BY <1>8, <1>9, <2>1, <2>2, <2>3, <2>4 DEF SchemaShape
<1>11. DefinitionsNamed'
  <2> SUFFICES ASSUME NEW q \in 1 .. n + 1, NEW t \in DOMAIN schemas'[q].definitions
               PROVE  /\ schemas'[q].definitions[t] \in 1 .. n + 1
                      /\ schemas'[schemas'[q].definitions[t]].title = t
    BY <1>8 DEF DefinitionsNamed
  <2>1. q \in 1 .. n
    BY <1>4, <1>6, <1>8
  <2>2. /\ schemas[q].definitions[t] \in 1 .. n
        /\ schemas[schemas[q].definitions[t]].title = t
    BY <1>1, <1>8, <2>1 DEF DefinitionsNamed
  <2> QED
    BY <1>4, <1>8, <2>1, <2>2
<1>12. ReferencesKept'
  <2> SUFFICES ASSUME NEW q \in 1 .. n + 1, NEW t \in schemas'[q].refs,
                      t \notin components \cup lost
               PROVE  \E j \in 1 .. Len(frames') :
                         \/ t = schemas'[frames'[j].schema].title
                         \/ t \in DOMAIN schemas'[frames'[j].schema].definitions
    BY <1>8 DEF ReferencesKept, InTheMaking
  <2>1. q \in 1 .. n /\ t \in schemas[q].refs
    BY <1>4, <1>6, <1>8
  <2>2. PICK i \in 1 .. Len(frames) :
           \/ t = schemas[frames[i].schema].title
           \/ t \in DOMAIN schemas[frames[i].schema].definitions
    BY <1>1, <2>1 DEF ReferencesKept, InTheMaking
  <2>3. frames[i].schema \in 1 .. n
    BY <1>1 DEF SchemaShape
  <2>4. i \in 1 .. Len(frames') /\ frames'[i] = frames[i]
    BY <1>4, <1>9
  <2> QED
    BY <1>8, <2>2, <2>3, <2>4
<1> QED
  BY <1>1, <1>10, <1>11, <1>12 DEF SchemaIInv, SchemasDefined

\* All that the schemas refer to is in the OpenAPI spec or lost once s is documented, when
\* nothing else is being made.
LEMMA DocumentedKeeps ==
    ASSUME SchemaIInv, NEW s \in 1 .. Len(schemas), Documented(s),
           UNCHANGED <<schemas, lost>>, frames' = <<>>,
           \A i \in 1 .. Len(frames) : frames[i].schema = s
    PROVE  DefinitionsNamed' /\ ReferencesKept' /\ SchemasDefined'
<1> DEFINE definitions == {s} \cup Range(schemas[s].definitions)
<1>1. SchemaShape /\ DefinitionsNamed /\ ReferencesKept /\ SchemasDefined
  BY DEF SchemaIInv
<1>2. /\ components' = components \cup {schemas[d].title : d \in definitions}
      /\ referredTo' = referredTo \cup UNION {schemas[d].refs : d \in definitions}
  BY DEF Documented
<1>3. definitions \subseteq 1 .. Len(schemas)
  BY <1>1 DEF DefinitionsNamed, Range
<1>4. \A t \in DOMAIN schemas[s].definitions : t \in components'
  <2> TAKE t \in DOMAIN schemas[s].definitions
  <2>1. schemas[schemas[s].definitions[t]].title = t
    BY <1>1 DEF DefinitionsNamed
  <2>2. schemas[s].definitions[t] \in definitions
    BY DEF Range
  <2> QED
    BY <1>2, <2>1, <2>2
<1>5. \A q \in 1 .. Len(schemas) : schemas[q].refs \subseteq components' \cup lost
  <2> SUFFICES ASSUME NEW q \in 1 .. Len(schemas), NEW t \in schemas[q].refs,
                      t \notin components \cup lost
               PROVE  t \in components'
    BY <1>2
  <2>1. PICK i \in 1 .. Len(frames) :
           \/ t = schemas[frames[i].schema].title
           \/ t \in DOMAIN schemas[frames[i].schema].definitions
    BY <1>1 DEF ReferencesKept, InTheMaking
  <2> QED
    BY <1>2, <1>4, <2>1
<1>6. ReferencesKept'
  BY <1>5 DEF ReferencesKept
<1>7. SchemasDefined'
  BY <1>1, <1>2, <1>3, <1>5 DEF SchemasDefined
<1>8. DefinitionsNamed'
  BY <1>1 DEF DefinitionsNamed
<1> QED
  BY <1>6, <1>7, <1>8

\* Nothing is made or kept at first.
LEMMA SchemaBegins ==
    ASSUME NEW graphs \in SUBSET [Models -> Seq(ModelEdges)], SchemaInit(graphs)
    PROVE  SchemaIInv
<1>1. /\ Len(schemas) = 0 /\ Len(frames) = 0 /\ schemas \in Seq(Schemas)
      /\ frames \in Seq(Frames) /\ DOMAIN visited = {}
  BY DEF SchemaInit
<1>2. edges \in [Models -> Seq(ModelEdges)]
  BY DEF SchemaInit
<1>3. kept \in [Models -> [SchemaKeys -> 0 .. Len(schemas)]]
  BY <1>1 DEF SchemaInit, NoSchemas
<1>4. SchemaShape
  BY <1>1, <1>2, <1>3 DEF SchemaShape
<1>5. DefinitionsNamed /\ ReferencesKept
  BY <1>1 DEF DefinitionsNamed, ReferencesKept
<1>6. SchemasDefined
  BY DEF SchemaInit, SchemasDefined
<1> QED
  BY <1>4, <1>5, <1>6 DEF SchemaIInv

\* A schema that is asked for is documented if it is kept, and made otherwise.
LEMMA AskSchemaKeeps ==
    ASSUME SchemaIInv, NEW m \in Models, NEW withRelations \in BOOLEAN,
           AskSchema(m, withRelations)
    PROVE  SchemaIInv'
<1> DEFINE key == IF withRelations THEN "modelWithRelations" ELSE "modelOnly"
           title == Title(m, withRelations)
<1>1. key \in SchemaKeys /\ title \in Titles
  BY DEF SchemaKeys, Titles, Title
<1>2. kept[m][key] \in 0 .. Len(schemas) /\ schemas \in Seq(Schemas)
  BY <1>1 DEF SchemaIInv, SchemaShape
<1>3. frames = <<>> /\ UNCHANGED <<edges, kept, lost>>
  BY DEF AskSchema
<1>4. CASE kept[m][key] # 0
  <2> DEFINE s == kept[m][key]
  <2>1. s \in 1 .. Len(schemas)
    BY <1>2, <1>4
  <2>2. Documented(s) /\ UNCHANGED <<schemas, frames, visited>>
    BY <1>4 DEF AskSchema
  <2> HIDE DEF s
  <2>3. \A i \in 1 .. Len(frames) : frames[i].schema = s
    BY <1>3
  <2>4. DefinitionsNamed' /\ ReferencesKept' /\ SchemasDefined'
    BY <1>3, <2>1, <2>2, <2>3, DocumentedKeeps
  <2>5. SchemaShape'
    BY <1>3, <2>2 DEF SchemaIInv, SchemaShape
  <2> QED
    BY <2>4, <2>5 DEF SchemaIInv
<1>5. CASE kept[m][key] = 0
  <2>1. Called(title, key) /\ UNCHANGED <<components, referredTo>>
    BY <1>5 DEF AskSchema
  <2> HIDE DEF title, key
  <2> QED
    BY <1>1, <1>3, <2>1, CallKeeps
<1> QED
  BY <1>4, <1>5

\* The types of what Refer and ReturnSchema keep.
LEMMA KeptShape ==
    ASSUME SchemaShape, NEW n \in Nat, n = Len(schemas),
           NEW m \in Models, NEW key \in SchemaKeys, NEW s \in 1 .. n
    PROVE  [kept EXCEPT ![m][key] = s] \in [Models -> [SchemaKeys -> 0 .. n]]
<1>1. kept \in [Models -> [SchemaKeys -> 0 .. n]]
  BY DEF SchemaShape
<1>2. s \in 0 .. n
  OBVIOUS
<1> QED
  BY <1>1, <1>2

\* The types of what getJsonSchema keeps, in metadata that was there or is new.
LEMMA KeepShape ==
    ASSUME SchemaShape, NEW n \in Nat, n = Len(schemas),
           NEW m \in Models, NEW key \in SchemaKeys, NEW s \in 1 .. n, NEW fresh \in BOOLEAN,
           Keep(m, key, s, fresh)
    PROVE  kept' \in [Models -> [SchemaKeys -> 0 .. n]]
<1> DEFINE old == IF fresh THEN NoSchemas ELSE kept[m]
           new == [old EXCEPT ![key] = s]
<1>1. kept \in [Models -> [SchemaKeys -> 0 .. n]]
  BY DEF SchemaShape
<1>2. s \in 0 .. n /\ 0 \in 0 .. n
  OBVIOUS
<1>3. old \in [SchemaKeys -> 0 .. n]
  BY <1>1, <1>2 DEF NoSchemas
<1>4. kept' = [kept EXCEPT ![m] = new]
  BY DEF Keep
<1> HIDE DEF old
<1>5. new \in [SchemaKeys -> 0 .. n]
  BY <1>2, <1>3
<1> HIDE DEF new
<1> QED
  BY <1>1, <1>4, <1>5

\* A property or relation refers to a schema that there is already, or has one made.
LEMMA ReferKeeps ==
    ASSUME SchemaIInv, Refer
    PROVE  SchemaIInv'
<1> DEFINE n == Len(frames)
           f == frames[n]
           p == f.schema
           e == Head(f.todo)
           title == Title(e.to, e.relation)
           key == IF e.relation THEN "modelWithRelations" ELSE "model"
           s == IF kept[e.to][key] # 0 THEN kept[e.to][key]
                ELSE IF title \in DOMAIN visited THEN visited[title] ELSE 0
<1>1. SchemaShape
  BY DEF SchemaIInv
<1>2. frames # <<>> /\ f.todo # <<>>
  BY DEF Refer, Last
<1>3. /\ frames \in Seq(Frames) /\ n \in 1 .. n /\ f \in Frames
      /\ schemas \in Seq(Schemas) /\ Len(schemas) \in Nat
  BY <1>1, <1>2 DEF SchemaShape
<1>4. p \in 1 .. Len(schemas)
  BY <1>1, <1>3 DEF SchemaShape
<1>5. e \in ModelEdges
  <2> DEFINE todo == f.todo
  <2>1. todo \in Seq(ModelEdges) /\ todo # <<>>
    BY <1>2, <1>3 DEF Frames
  <2> HIDE DEF todo
  <2>2. Head(todo) \in ModelEdges
    BY <2>1
  <2> QED
    BY <2>2 DEF todo
<1>6. e.to \in Models /\ e.relation \in BOOLEAN
  <2> HIDE DEF e
  <2> QED
    BY <1>5 DEF ModelEdges
<1>7. key \in SchemaKeys /\ title \in Titles
  <2> HIDE DEF e
  <2> QED
    BY <1>6 DEF SchemaKeys, Titles, Title
<1>8. UNCHANGED <<edges, components, referredTo, asked>>
  BY DEF Refer
<1>9. IF s # 0
      THEN /\ schemas' = Included(p, s)
           /\ lost' = lost \cup Lost(p, s)
           /\ kept' = [kept EXCEPT ![e.to][key] = s]
           /\ frames' = [frames EXCEPT ![n].todo = Tail(@)]
           /\ UNCHANGED visited
      ELSE Called(title, key) /\ UNCHANGED <<kept, lost>>
  BY Zenon DEF Refer, Last
<1> HIDE DEF e
<1>10. s \in 0 .. Len(schemas)
  <2> HIDE DEF title, key
  <2>1. kept[e.to][key] \in 0 .. Len(schemas)
    BY <1>1, <1>6, <1>7 DEF SchemaShape
  <2>2. title \in DOMAIN visited => visited[title] \in 1 .. Len(schemas)
    BY <1>1 DEF SchemaShape
  <2>3. 0 \in 0 .. Len(schemas) /\ \A k \in 1 .. Len(schemas) : k \in 0 .. Len(schemas)
    BY <1>3
  <2> QED
    BY <2>1, <2>2, <2>3
<1> HIDE DEF title
<1> HIDE DEF key
<1> HIDE DEF s
<1> HIDE DEF p
<1>11. CASE s # 0
  <2>1. s \in 1 .. Len(schemas)
    BY <1>3, <1>10, <1>11
  <2>2. Inclusion(schemas', p, s)
    BY <1>1, <1>4, <1>9, <1>11, <2>1, IncludedIs
  <2>3. GoneOn(frames', frames)
    <3>1. frames' = [frames EXCEPT ![Len(frames)].todo = Tail(@)]
      BY <1>9, <1>11
    <3>2. frames[Len(frames)].todo # <<>>
      BY <1>2
    <3> QED
      BY <1>2, <1>3, <3>1, <3>2, FrameGoesOn
  <2>4. \A i \in 1 .. n : \E j \in 1 .. Len(frames') : frames'[j].schema = frames[i].schema
    BY <2>3 DEF GoneOn
  <2>5. \E j \in 1 .. Len(frames') : frames'[j].schema = p
    BY <1>3, <2>4 DEF p
  <2>6. DefinitionsNamed' /\ ReferencesKept' /\ SchemasDefined'
    <3>1. lost' = lost \cup Lost(p, s)
      BY <1>9, <1>11
    <3> QED
      BY <1>4, <1>8, <2>1, <2>2, <2>4, <2>5, <3>1, InclusionKeeps
  <2>7. SchemaShape'
    <3>1. schemas' \in Seq(Schemas) /\ Len(schemas') = Len(schemas)
      BY <2>2 DEF Inclusion
    <3>2. kept' \in [Models -> [SchemaKeys -> 0 .. Len(schemas)]]
      <4> DEFINE m == e.to
      <4> HIDE DEF m
      <4>1. kept' = [kept EXCEPT ![m][key] = s] /\ m \in Models
        BY <1>6, <1>9, <1>11 DEF m
      <4> QED
        BY <1>1, <1>3, <1>7, <2>1, <4>1, KeptShape
    <3>3. /\ DOMAIN visited' \subseteq Titles
          /\ \A t \in DOMAIN visited' : visited'[t] \in 1 .. Len(schemas)
      BY <1>1, <1>9, <1>11 DEF SchemaShape
    <3>4. /\ \A i \in 1 .. Len(frames') : frames'[i].schema \in 1 .. Len(schemas)
          /\ \A i \in 1 .. Len(frames') : i # Len(frames') => frames'[i].todo # <<>>
      BY <1>1, <2>3 DEF SchemaShape, GoneOn
    <3>5. frames' \in Seq(Frames) /\ edges' \in [Models -> Seq(ModelEdges)]
      BY <1>1, <1>8, <2>3 DEF SchemaShape, GoneOn
    <3> QED
      BY <3>1, <3>2, <3>3, <3>4, <3>5 DEF SchemaShape
  <2> QED
    BY <2>6, <2>7 DEF SchemaIInv
<1>12. CASE s = 0
  <2>1. Called(title, key) /\ UNCHANGED <<kept, lost>>
    BY <1>9, <1>12
  <2>2. Last(frames).todo # <<>>
    BY <1>2 DEF Last
  <2> QED
    BY <1>7, <1>8, <2>1, <2>2, CallKeeps
<1> QED
  BY <1>11, <1>12

\* A call returns: its schema is documented, or included where it was needed.
LEMMA ReturnSchemaKeeps ==
    ASSUME SchemaIInv, ReturnSchema
    PROVE  SchemaIInv'
<1> DEFINE n == Len(frames)
           f == frames[n]
           s == f.schema
           callers == Front(frames)
           p == Last(callers).schema
<1>1. SchemaShape
  BY DEF SchemaIInv
<1>2. frames # <<>> /\ UNCHANGED <<edges, asked>>
  BY DEF ReturnSchema
<1>3. /\ frames \in Seq(Frames) /\ n \in 1 .. n /\ f \in Frames
      /\ schemas \in Seq(Schemas) /\ Len(schemas) \in Nat
  BY <1>1, <1>2 DEF SchemaShape
<1>4. s \in 1 .. Len(schemas) /\ f.key \in SchemaKeys /\ f.fresh \in BOOLEAN
  BY <1>1, <1>3 DEF SchemaShape, Frames
<1>5. schemas[s].title.of \in Models
  <2>1. schemas[s] \in Schemas
    BY <1>3, <1>4
  <2> QED
    BY <2>1 DEF Schemas, Titles
<1>6. /\ Keep(schemas[s].title.of, f.key, s, f.fresh)
      /\ IF callers = <<>>
         THEN /\ Documented(s)
              /\ frames' = <<>> /\ visited' = <<>>
              /\ UNCHANGED <<schemas, lost>>
         ELSE /\ schemas' = Included(p, s)
              /\ lost' = lost \cup Lost(p, s)
              /\ frames' = [callers EXCEPT ![Len(callers)].todo = Tail(@)]
              /\ UNCHANGED <<visited, components, referredTo>>
  BY Zenon DEF ReturnSchema, Last
<1>7. kept' \in [Models -> [SchemaKeys -> 0 .. Len(schemas)]]
  <2> DEFINE m == schemas[s].title.of
  <2> HIDE DEF m, s
  <2> QED
    BY <1>1, <1>3, <1>4, <1>5, <1>6, KeepShape DEF m
<1>8. /\ callers \in Seq(Frames) /\ Len(callers) = n - 1
      /\ \A i \in 1 .. n - 1 : callers[i] = frames[i]
  <2>1. callers = SubSeq(frames, 1, n - 1) /\ n \in Nat /\ n >= 1 /\ n = Len(frames)
    BY <1>3 DEF Front
  <2> HIDE DEF n, callers
  <2>2. \A i \in 1 .. n - 1 : frames[i] \in Frames
    BY <1>3, <2>1
  <2> QED
    BY <1>3, <2>1, <2>2
<1>9. callers # <<>> => n - 1 \in 1 .. n - 1
  BY <1>3, <1>8
<1> HIDE DEF callers
<1>10. CASE callers = <<>>
  <2>1. n = 1
    BY <1>3, <1>8, <1>10
  <2>2. \A i \in 1 .. Len(frames) : frames[i].schema = s
    BY <2>1
  <2>3. Documented(s) /\ frames' = <<>> /\ visited' = <<>> /\ UNCHANGED <<schemas, lost>>
    BY <1>6, <1>10
  <2> HIDE DEF s
  <2>4. DefinitionsNamed' /\ ReferencesKept' /\ SchemasDefined'
    BY <1>4, <2>2, <2>3, DocumentedKeeps
  <2>5. SchemaShape'
    <3>1. Len(frames') = 0 /\ frames' \in Seq(Frames) /\ DOMAIN visited' = {}
      BY <2>3
    <3> QED
      BY <1>1, <1>2, <1>7, <2>3, <3>1 DEF SchemaShape
  <2> QED
    BY <2>4, <2>5 DEF SchemaIInv
<1>11. CASE callers # <<>>
  <2>1. p = frames[n - 1].schema /\ n - 1 \in 1 .. n
    BY <1>3, <1>8, <1>9, <1>11 DEF Last
  <2>2. p \in 1 .. Len(schemas)
    BY <1>1, <2>1 DEF SchemaShape
  <2>3. /\ schemas' = Included(p, s) /\ lost' = lost \cup Lost(p, s)
        /\ frames' = [callers EXCEPT ![Len(callers)].todo = Tail(@)]
        /\ UNCHANGED <<visited, components, referredTo>>
    BY <1>6, <1>11
  <2> HIDE DEF p
  <2>4. Inclusion(schemas', p, s)
    <3> HIDE DEF s
    <3> QED
      BY <1>1, <1>4, <2>2, <2>3, IncludedIs
  <2>5. GoneOn(frames', callers)
    <3>1. frames[n - 1].todo # <<>>
      BY <1>1, <1>3, <2>1 DEF SchemaShape
    <3>2. callers[Len(callers)].todo # <<>>
      BY <1>8, <1>9, <1>11, <3>1
    <3> QED
      BY <1>8, <1>11, <2>3, <3>2, FrameGoesOn
  <2>6. /\ Len(frames') = n - 1
        /\ \A i \in 1 .. n - 1 : frames'[i].schema = frames[i].schema
        /\ \A i \in 1 .. n - 1 : i # n - 1 => frames'[i].todo = frames[i].todo
    BY <1>8, <2>5 DEF GoneOn
  <2>7. \A i \in 1 .. Len(frames) : frames[i].schema # s =>
           \E j \in 1 .. Len(frames') : frames'[j].schema = frames[i].schema
    <3> SUFFICES ASSUME NEW i \in 1 .. Len(frames), frames[i].schema # s
                 PROVE  \E j \in 1 .. Len(frames') : frames'[j].schema = frames[i].schema
      OBVIOUS
    <3>1. i \in 1 .. n - 1
      BY <1>3
    <3> QED
      BY <2>6, <3>1
  <2>8. \E j \in 1 .. Len(frames') : frames'[j].schema = p
    BY <1>9, <1>11, <2>1, <2>6
  <2>9. DefinitionsNamed' /\ ReferencesKept' /\ SchemasDefined'
    <3> HIDE DEF s
    <3> QED
      BY <1>4, <2>2, <2>3, <2>4, <2>7, <2>8, InclusionKeeps
  <2>10. SchemaShape'
    <3>1. schemas' \in Seq(Schemas) /\ Len(schemas') = Len(schemas)
      BY <2>4 DEF Inclusion
    <3>2. /\ DOMAIN visited' \subseteq Titles
          /\ \A t \in DOMAIN visited' : visited'[t] \in 1 .. Len(schemas)
      BY <1>1, <2>3 DEF SchemaShape
    <3>3. \A i \in 1 .. n - 1 : /\ frames[i].schema \in 1 .. Len(schemas)
                                /\ frames[i].todo # <<>>
      <4> TAKE i \in 1 .. n - 1
      <4>1. i \in 1 .. Len(frames) /\ i # Len(frames)
        BY <1>3
      <4> QED
        BY <1>1, <4>1 DEF SchemaShape
    <3>4. frames' \in Seq(Frames) /\ edges' \in [Models -> Seq(ModelEdges)]
      BY <1>1, <1>2, <2>5 DEF SchemaShape, GoneOn
    <3>5. /\ \A i \in 1 .. Len(frames') : frames'[i].schema \in 1 .. Len(schemas)
          /\ \A i \in 1 .. Len(frames') : i # Len(frames') => frames'[i].todo # <<>>
      BY <2>6, <3>3
    <3> QED
      BY <1>7, <3>1, <3>2, <3>4, <3>5 DEF SchemaShape
  <2> QED
    BY <2>9, <2>10 DEF SchemaIInv
<1> QED
  BY <1>10, <1>11

\* The OpenAPI spec defines what its schemas refer to (buildModelCacheKey, modelToJsonSchema
\* and its includeReferencedSchema), for any models whatever circles they refer to each other
\* in, and any schemas asked for, in any order.
THEOREM SchemasFound ==
    ASSUME NEW CONSTANT graphs \in SUBSET [Models -> Seq(ModelEdges)]
    PROVE  SchemaSpec(graphs) => []SchemasDefined
<1>1. SchemaInit(graphs) => SchemaIInv
  BY SchemaBegins
<1>2. SchemaIInv /\ [SchemaNext]_schemaVars => SchemaIInv'
  <2>1. ASSUME SchemaIInv, SchemaNext PROVE SchemaIInv'
    BY <2>1, AskSchemaKeeps, ReferKeeps, ReturnSchemaKeeps DEF SchemaNext
  <2>2. ASSUME SchemaIInv, UNCHANGED schemaVars PROVE SchemaIInv'
    BY <2>2 DEF schemaVars, SchemaIInv, SchemaShape, DefinitionsNamed, ReferencesKept,
                InTheMaking, SchemasDefined
  <2> QED
    BY <2>1, <2>2
<1>3. SchemaIInv => SchemasDefined
  BY DEF SchemaIInv
<1> QED
  BY <1>1, <1>2, <1>3, PTL DEF SchemaSpec

---------------------------------------------------------------------------
(* The relation through another model *)

\* A row, and a call that has read one, names a target that has been created.
NamesCreated ==
    /\ \A r \in rows : targets[r.to] # "none"
    /\ \A c \in Callers : \A t \in call[c].keys : targets[t] # "none"

\* A target that a filtered delete() found not to match does not match later, unless it
\* was patched meanwhile.
UnmatchedStays ==
    \A c \in Callers :
        call[c].op = "delete" /\ call[c].where.filtered /\ call[c].at \in {"dropping", "deleting"} =>
            \A t \in call[c].keys \ call[c].ids :
                t \in raced \/ targets[t] \notin call[c].where.accepts

\* A delete() that is about to delete has left none of the rows it drops, unless a target
\* was linked meanwhile.
RowsDropped ==
    \A c \in Callers : call[c].op = "delete" /\ call[c].at = "deleting" =>
        \A r \in rows :
            /\ r.to \in call[c].keys
            /\ call[c].where.filtered => r.from = call[c].source /\ r.to \in call[c].ids
            => r.to \in raced

\* Only a filtered delete() looks for matches.
FilteredWhenMatching == \A c \in Callers : call[c].at = "matching" => call[c].where.filtered

\* The conjunction that every step preserves.
RelationIInv ==
    /\ RelationTypeOK
    /\ DanglingOnlyIf
    /\ NamesCreated
    /\ UnmatchedStays
    /\ RowsDropped
    /\ FilteredWhenMatching

USE DEF Exists, At, IsRunning, Row

---------------------------------------------------------------------------
(* Types *)

\* A call that is not running is one as well.
LEMMA IdleIsCall ==
    ASSUME NEW at \in {"idle", "done", "failed"}, NEW result \in SUBSET TargetIds
    PROVE  Idle(at, result) \in CallType
<1>1. (CHOOSE s \in Sources : TRUE) \in Sources /\ (CHOOSE k \in NewColours : TRUE) \in NewColours
  BY SourcesAssumption, ColoursAssumption
<1>2. AllTargets \in Wheres
  BY DEF Wheres
<1> QED
  BY <1>1, <1>2 DEF Idle, CallType, Ops, Running

\* The tables of a call that shares them are of the type of those it has to itself.
LEMMA NotAloneIsTables == NotAlone \in Tables
BY DEF NotAlone, Tables

\* A filter accepts colours only.
LEMMA FilterAcceptsColours ==
    ASSUME NEW where \in Wheres PROVE where.accepts \subseteq Colours /\ where.filtered \in BOOLEAN
<1>1. CASE where = AllTargets
  BY <1>1 DEF AllTargets
<1>2. CASE where # AllTargets
  <2>1. PICK f \in Filters : where = [filtered |-> TRUE, accepts |-> f]
    BY <1>2 DEF Wheres
  <2> QED
    BY <2>1, FiltersAssumption
<1> QED
  BY <1>1, <1>2

\* How a call ends.
LEMMA EndsIsTyped ==
    ASSUME RelationTypeOK, NEW c \in Callers, NEW at \in {"done", "failed"},
           NEW result \in SUBSET TargetIds, Ends(c, at, result)
    PROVE  /\ call' \in [Callers -> CallType] /\ alone' \in [Callers -> Tables]
           /\ call'[c].at = at /\ call'[c].keys = {}
           /\ \A d \in Callers \ {c} : call'[d] = call[d]
<1>1. Idle(at, result) \in CallType /\ Idle(at, result).at = at /\ Idle(at, result).keys = {}
  BY IdleIsCall DEF Idle
<1>2. NotAlone \in Tables
  BY NotAloneIsTables
<1> QED
  BY <1>1, <1>2 DEF RelationTypeOK, Ends

\* The database begins with rows that lead to targets.
LEMMA RelationInitIInv == Init => RelationIInv
<1> SUFFICES ASSUME Init PROVE RelationIInv
  OBVIOUS
<1>1. (CHOOSE s \in Sources : TRUE) \in Sources
  BY SourcesAssumption
<1>2. Idle("idle", {}) \in CallType /\ Idle("idle", {}).at = "idle" /\ Idle("idle", {}).keys = {}
  BY IdleIsCall DEF Idle
<1>3. RelationTypeOK
  BY <1>1, <1>2, NotAloneIsTables DEF Init, RelationTypeOK
<1>4. \A r \in rows : targets[r.to] \in Colours
  BY DEF Init
<1>5. DanglingOnlyIf /\ NamesCreated
  BY <1>2, <1>4, ColoursAssumption DEF Init, DanglingOnlyIf, NamesCreated
<1>6. UnmatchedStays /\ RowsDropped /\ FilteredWhenMatching
  BY <1>2 DEF Init, UnmatchedStays, RowsDropped, FilteredWhenMatching
<1> QED
  BY <1>3, <1>5, <1>6 DEF RelationIInv

---------------------------------------------------------------------------
(* Steps *)

\* A step that leaves the tables alone, and at most ends its call or moves it on.
\* Begin: the call knows of no target but the one it is given.
LEMMA BeginKeeps == ASSUME RelationIInv, NEW c \in Callers, Begin(c) PROVE RelationIInv'
<1> USE DEF RelationIInv
<1>1. PICK op \in Ops, s \in Sources, where \in Wheres, colour \in NewColours,
           given \in {{}} \cup {{t} : t \in {x \in TargetIds : Exists(x)}} :
        /\ (op \in {"link", "unlink"}) = (given # {})
        /\ op \notin {"find", "delete", "patch"} => where = AllTargets
        /\ op \notin {"create", "patch"} => colour = Idle("idle", {}).colour
        /\ call' = [call EXCEPT ![c] =
                [op |-> op, source |-> s, where |-> where, colour |-> colour,
                 at |-> "begun", keys |-> given, ids |-> {}, found |-> {}]]
  BY Zenon DEF Begin, Exists
<1>2. UNCHANGED <<targets, rows, by, raced>>
  BY DEF Begin
<1>3. \A d \in Callers \ {c} : call'[d] = call[d]
  BY <1>1 DEF RelationTypeOK
<1>4. call'[c].at = "begun" /\ call'[c].keys = given
  BY <1>1 DEF RelationTypeOK
<1>5. RelationTypeOK'
  <2>1. call' \in [Callers -> CallType]
    BY <1>1 DEF RelationTypeOK, CallType, Running
  <2>2. [is |-> TRUE, rows |-> rows, targets |-> targets] \in Tables
    BY DEF RelationTypeOK, Tables
  <2>3. alone' \in [Callers -> Tables]
    BY <2>2, NotAloneIsTables DEF Begin
  <2> QED
    BY <1>2, <2>1, <2>3 DEF RelationTypeOK
<1>6. DanglingOnlyIf'
  BY <1>2 DEF DanglingOnlyIf
<1>7. NamesCreated'
  BY <1>2, <1>3, <1>4, ColoursAssumption DEF NamesCreated
<1>8. UnmatchedStays' /\ RowsDropped' /\ FilteredWhenMatching'
  BY <1>2, <1>3, <1>4 DEF UnmatchedStays, RowsDropped, FilteredWhenMatching
<1> QED
  BY <1>5, <1>6, <1>7, <1>8

\* create() takes an id that no row and no call names.
LEMMA CreateTargetKeeps == ASSUME RelationIInv, NEW c \in Callers, CreateTarget(c) PROVE RelationIInv'
<1> USE DEF RelationIInv
<1>1. PICK t \in TargetIds :
        /\ targets[t] = "none"
        /\ targets' = [targets EXCEPT ![t] = call[c].colour]
        /\ call' = [call EXCEPT ![c].at = "linking", ![c].keys = {t}, ![c].found = {t}]
  BY DEF CreateTarget
<1>2. UNCHANGED <<rows, alone, by, raced>> /\ call[c].op = "create"
  BY DEF CreateTarget
<1>3. call[c].colour \in Colours
  BY ColoursAssumption DEF RelationTypeOK, CallType
<1>4. call' = [call EXCEPT ![c] = [call[c] EXCEPT !.at = "linking", !.keys = {t},
                                     !.ids = call[c].ids, !.found = {t}]]
  BY <1>1 DEF RelationTypeOK, CallType
<1>5. /\ call' \in [Callers -> CallType]
      /\ call'[c].keys = {t} /\ call'[c].op = "create" /\ call'[c].at = "linking"
      /\ \A d \in Callers \ {c} : call'[d] = call[d]
  <2>1. /\ call[c].ids \in SUBSET TargetIds /\ {t} \in SUBSET TargetIds
        /\ "linking" \in Running
    BY DEF RelationTypeOK, CallType, Running
  <2> QED
    BY <1>2, <1>4, <2>1 DEF RelationTypeOK, CallType
<1>6. \A u \in TargetIds : targets'[u] = IF u = t THEN call[c].colour ELSE targets[u]
  BY <1>1 DEF RelationTypeOK
<1>7. RelationTypeOK'
  BY <1>1, <1>2, <1>3, <1>5 DEF RelationTypeOK
<1>8. DanglingOnlyIf'
  BY <1>2, <1>3, <1>6, ColoursAssumption DEF DanglingOnlyIf, RelationTypeOK
<1>9. NamesCreated'
  BY <1>2, <1>3, <1>5, <1>6, ColoursAssumption DEF NamesCreated, RelationTypeOK, CallType
<1>10. UnmatchedStays'
  BY <1>1, <1>2, <1>5, <1>6 DEF UnmatchedStays, NamesCreated, RelationTypeOK, CallType
<1>11. RowsDropped'
  BY <1>2, <1>5 DEF RowsDropped
<1>12. FilteredWhenMatching'
  BY <1>5 DEF FilteredWhenMatching
<1> QED
  BY <1>7, <1>8, <1>9, <1>10, <1>11, <1>12

\* A row to a target that is gone, or that a delete() has in hand, is a race.
LEMMA LinkKeeps == ASSUME RelationIInv, NEW c \in Callers, Link(c) PROVE RelationIInv'
<1> USE DEF RelationIInv
<1>1. call[c].keys \subseteq TargetIds /\ call[c].source \in Sources /\ call[c].found \subseteq TargetIds
  BY DEF RelationTypeOK, CallType
<1>2. /\ call' \in [Callers -> CallType] /\ alone' \in [Callers -> Tables]
      /\ call'[c].at = "done" /\ call'[c].keys = {}
      /\ \A d \in Callers \ {c} : call'[d] = call[d]
  BY <1>1, EndsIsTyped DEF Link, Returns
<1>3. /\ UNCHANGED <<targets, by>>
      /\ rows' = rows \cup {[from |-> call[c].source, to |-> t] : t \in call[c].keys}
      /\ raced' = raced \cup {t \in call[c].keys :
                    ~Exists(t) \/ \E d \in Callers : Deletes(d, t)}
      /\ call[c].op # "delete"
  BY DEF Link
<1>4. RelationTypeOK'
  BY <1>1, <1>2, <1>3 DEF RelationTypeOK
<1>5. \A r \in rows' \ rows : r.to \in call[c].keys
  BY <1>3
<1>6. DanglingOnlyIf'
  BY <1>3, <1>5, ColoursAssumption DEF DanglingOnlyIf
<1>7. NamesCreated'
  BY <1>2, <1>3, <1>5 DEF NamesCreated
<1>8. UnmatchedStays'
  BY <1>2, <1>3 DEF UnmatchedStays
<1>9. RowsDropped'
  <2> SUFFICES ASSUME NEW d \in Callers, call'[d].op = "delete", call'[d].at = "deleting",
                      NEW r \in rows', r.to \in call'[d].keys,
                      call'[d].where.filtered =>
                          r.from = call'[d].source /\ r.to \in call'[d].ids
               PROVE  r.to \in raced'
    BY DEF RowsDropped
  <2>1. d # c /\ call'[d] = call[d]
    BY <1>2
  <2>2. CASE r \in rows
    BY <2>1, <2>2, <1>3 DEF RowsDropped
  <2>3. CASE r \notin rows
    BY <2>1, <2>3, <1>3, <1>5 DEF Deletes, Running
  <2> QED
    BY <2>2, <2>3
<1>10. FilteredWhenMatching'
  BY <1>2 DEF FilteredWhenMatching
<1> QED
  BY <1>4, <1>6, <1>7, <1>8, <1>9, <1>10

\* unlink() and unlinkAll() only remove rows.
LEMMA UnlinkKeeps ==
    ASSUME RelationIInv, NEW c \in Callers, Unlink(c) \/ UnlinkAll(c) PROVE RelationIInv'
<1> USE DEF RelationIInv
<1>1. /\ call' \in [Callers -> CallType] /\ alone' \in [Callers -> Tables]
      /\ call'[c].at = "done" /\ call'[c].keys = {}
      /\ \A d \in Callers \ {c} : call'[d] = call[d]
  BY EndsIsTyped DEF Unlink, UnlinkAll, Returns
<1>2. UNCHANGED <<targets, by, raced>> /\ rows' \subseteq rows
  BY DEF Unlink, UnlinkAll
<1>3. RelationTypeOK'
  BY <1>1, <1>2 DEF RelationTypeOK
<1>4. DanglingOnlyIf' /\ NamesCreated'
  BY <1>1, <1>2 DEF DanglingOnlyIf, NamesCreated
<1>5. UnmatchedStays' /\ RowsDropped' /\ FilteredWhenMatching'
  BY <1>1, <1>2 DEF UnmatchedStays, RowsDropped, FilteredWhenMatching
<1> QED
  BY <1>3, <1>4, <1>5

\* Nothing but the call changes, and the call ends.
LEMMA EndKeeps ==
    ASSUME RelationIInv, NEW c \in Callers, NEW at \in {"done", "failed"},
           NEW result \in SUBSET TargetIds, Ends(c, at, result),
           UNCHANGED <<targets, rows, by, raced>>
    PROVE  RelationIInv'
<1> USE DEF RelationIInv
<1>1. /\ call' \in [Callers -> CallType] /\ alone' \in [Callers -> Tables]
      /\ call'[c].at = at /\ call'[c].keys = {}
      /\ \A d \in Callers \ {c} : call'[d] = call[d]
  BY EndsIsTyped
<1>2. RelationTypeOK' /\ DanglingOnlyIf' /\ NamesCreated'
  BY <1>1 DEF RelationTypeOK, DanglingOnlyIf, NamesCreated
<1>3. UnmatchedStays' /\ RowsDropped' /\ FilteredWhenMatching'
  BY <1>1 DEF UnmatchedStays, RowsDropped, FilteredWhenMatching
<1> QED
  BY <1>2, <1>3

\* find() and a statement that fails end their call.
LEMMA FindOrFailKeeps ==
    ASSUME RelationIInv, NEW c \in Callers, Find(c) \/ Fail(c) PROVE RelationIInv'
<1>1. call[c].keys \subseteq TargetIds
  BY DEF RelationIInv, RelationTypeOK, CallType
<1>2. CASE Find(c)
  <2>1. Ends(c, "done", call[c].keys \cap Accepted(call[c].where, targets))
    BY <1>2 DEF Find, Returns
  <2>2. call[c].keys \cap Accepted(call[c].where, targets) \in SUBSET TargetIds
    BY <1>1
  <2> QED
    BY <1>2, <2>1, <2>2, EndKeeps DEF Find
<1>3. CASE Fail(c)
  <2>1. Ends(c, "failed", {}) /\ UNCHANGED <<targets, rows, by, raced>>
    BY <1>3 DEF Fail
  <2> QED
    BY <2>1, EndKeeps
<1> QED
  BY <1>2, <1>3

\* The call reads which targets its rows lead to.
LEMMA ReadRowsKeeps == ASSUME RelationIInv, NEW c \in Callers, ReadRows(c) PROVE RelationIInv'
<1> DEFINE keys == TargetsOf(call[c].source, rows)
<1>1. CASE keys = {}
  <2>1. Ends(c, IF call[c].op = "unlinkAll" THEN "failed" ELSE "done", {})
    BY <1>1 DEF ReadRows
  <2> QED
    BY <2>1, EndKeeps DEF ReadRows
<1>2. CASE keys # {}
  <2> USE DEF RelationIInv
  <2>1. PICK next \in {"finding", "patching", "unlinking", "matching", "dropping"} :
          /\ call' = [call EXCEPT ![c].keys = keys, ![c].at = next]
          /\ next = "dropping" => ~call[c].where.filtered
          /\ next = "matching" => call[c].where.filtered
    <3>1. call[c].where.filtered \in BOOLEAN
      BY FilterAcceptsColours DEF RelationTypeOK, CallType
    <3> QED
      BY <1>2, <3>1 DEF ReadRows
  <2>2. UNCHANGED <<targets, rows, alone, by, raced>>
    BY <1>2 DEF ReadRows
  <2>3. keys \subseteq TargetIds /\ \A t \in keys : targets[t] # "none"
    BY DEF TargetsOf, RelationTypeOK, NamesCreated
  <2>4. call' = [call EXCEPT ![c] = [call[c] EXCEPT !.at = next, !.keys = keys,
                                       !.ids = call[c].ids, !.found = call[c].found]]
    BY <2>1 DEF RelationTypeOK, CallType
  <2>5. /\ call' \in [Callers -> CallType]
        /\ call'[c].keys = keys /\ call'[c].at = next /\ call'[c].where = call[c].where
        /\ \A d \in Callers \ {c} : call'[d] = call[d]
    <3>1. call[c].ids \in SUBSET TargetIds /\ call[c].found \in SUBSET TargetIds
      BY DEF RelationTypeOK, CallType
    <3>2. next \in Running
      BY DEF Running
    <3> HIDE DEF keys
    <3> QED
      BY <2>3, <2>4, <3>1, <3>2 DEF RelationTypeOK, CallType
  <2>6. RelationTypeOK'
    BY <2>2, <2>5 DEF RelationTypeOK
  <2>7. DanglingOnlyIf' /\ NamesCreated'
    BY <2>2, <2>3, <2>5 DEF DanglingOnlyIf, NamesCreated
  <2>8. UnmatchedStays' /\ RowsDropped' /\ FilteredWhenMatching'
    BY <2>1, <2>2, <2>5 DEF UnmatchedStays, RowsDropped, FilteredWhenMatching
  <2> QED
    BY <2>6, <2>7, <2>8
<1> QED
  BY <1>1, <1>2

\* A target that is patched after a delete() has looked for its matches is raced.
LEMMA PatchKeeps == ASSUME RelationIInv, NEW c \in Callers, Patch(c) PROVE RelationIInv'
<1> USE DEF RelationIInv
<1> DEFINE patched == call[c].keys \cap Accepted(call[c].where, targets)
<1>1. call[c].keys \subseteq TargetIds /\ call[c].where \in Wheres /\ call[c].colour \in Colours
  BY ColoursAssumption DEF RelationTypeOK, CallType
<1>2. patched \subseteq TargetIds /\ \A t \in patched : targets[t] \in Colours
  BY <1>1, FilterAcceptsColours DEF Accepted
<1>3. /\ \A t \in TargetIds : targets'[t] = IF t \in patched THEN call[c].colour ELSE targets[t]
      /\ targets' = [t \in TargetIds |-> IF t \in patched THEN call[c].colour ELSE targets[t]]
      /\ raced' = raced \cup {t \in patched : \E d \in Callers : HasMatched(d, t)}
      /\ Ends(c, "done", patched) /\ UNCHANGED <<rows, by>>
  BY DEF Patch, Returns
<1>4. /\ call' \in [Callers -> CallType] /\ alone' \in [Callers -> Tables]
      /\ call'[c].at = "done" /\ call'[c].keys = {}
      /\ \A d \in Callers \ {c} : call'[d] = call[d]
  BY <1>2, <1>3, EndsIsTyped
<1>5. RelationTypeOK'
  BY <1>1, <1>2, <1>3, <1>4 DEF RelationTypeOK
<1>6. DanglingOnlyIf'
  BY <1>1, <1>3, ColoursAssumption DEF DanglingOnlyIf, RelationTypeOK
<1>7. NamesCreated'
  BY <1>1, <1>3, <1>4, ColoursAssumption DEF NamesCreated, RelationTypeOK, CallType
<1>8. UnmatchedStays'
  <2> SUFFICES ASSUME NEW d \in Callers, call'[d].op = "delete", call'[d].where.filtered,
                      call'[d].at \in {"dropping", "deleting"},
                      NEW t \in call'[d].keys \ call'[d].ids,
                      t \notin raced', targets'[t] \in call'[d].where.accepts
               PROVE  FALSE
    BY DEF UnmatchedStays
  <2>1. d # c /\ call'[d] = call[d] /\ t \in TargetIds
    BY <1>4 DEF RelationTypeOK, CallType
  <2>2. t \notin patched
    BY <2>1, <1>3 DEF HasMatched, Deletes, Running
  <2> QED
    BY <2>1, <2>2, <1>3 DEF UnmatchedStays
<1>9. RowsDropped'
  BY <1>3, <1>4 DEF RowsDropped
<1>10. FilteredWhenMatching'
  BY <1>4 DEF FilteredWhenMatching
<1> QED
  BY <1>5, <1>6, <1>7, <1>8, <1>9, <1>10

\* delete(where) looks for its matches.
LEMMA MatchTargetsKeeps == ASSUME RelationIInv, NEW c \in Callers, MatchTargets(c) PROVE RelationIInv'
<1> USE DEF RelationIInv
<1>1. PICK ids \in SUBSET TargetIds, next \in {"deleting", "dropping"} :
        /\ \A t \in TargetIds \ ids : targets[t] \notin call[c].where.accepts
        /\ next = "deleting" => ids = {}
        /\ call' = [call EXCEPT ![c].ids = ids, ![c].at = next]
  BY DEF MatchTargets, Accepted
<1>2. UNCHANGED <<targets, rows, alone, by, raced>>
  BY DEF MatchTargets
<1>3. call' = [call EXCEPT ![c] = [call[c] EXCEPT !.at = next, !.keys = call[c].keys,
                                     !.ids = ids, !.found = call[c].found]]
  BY <1>1 DEF RelationTypeOK, CallType
<1>4. call[c].keys \in SUBSET TargetIds /\ call[c].found \in SUBSET TargetIds
  BY DEF RelationTypeOK, CallType
<1>5. /\ call' \in [Callers -> CallType]
      /\ call'[c].keys = call[c].keys /\ call'[c].where = call[c].where
      /\ call'[c].ids = ids /\ call'[c].at = next
      /\ \A d \in Callers \ {c} : call'[d] = call[d]
  <2>1. next \in Running
    BY DEF Running
  <2> QED
    BY <1>3, <1>4, <2>1 DEF RelationTypeOK, CallType
<1>6. RelationTypeOK'
  BY <1>2, <1>5 DEF RelationTypeOK
<1>7. DanglingOnlyIf' /\ NamesCreated'
  BY <1>2, <1>5 DEF DanglingOnlyIf, NamesCreated
<1>8. UnmatchedStays'
  BY <1>1, <1>2, <1>4, <1>5 DEF UnmatchedStays
\* Where nothing matches there is nothing to drop.
<1>9. RowsDropped'
  <2>1. call[c].where.filtered
    BY DEF MatchTargets, FilteredWhenMatching
  <2> QED
    BY <1>1, <1>2, <1>5, <2>1 DEF RowsDropped
<1>10. FilteredWhenMatching'
  BY <1>5 DEF FilteredWhenMatching
<1> QED
  BY <1>6, <1>7, <1>8, <1>9, <1>10

\* delete() drops its rows.
LEMMA DropRowsKeeps == ASSUME RelationIInv, NEW c \in Callers, DropRows(c) PROVE RelationIInv'
<1> USE DEF RelationIInv
<1>1. /\ rows' = rows \ DroppedRows(c)
      /\ call' = [call EXCEPT ![c].at = "deleting"]
      /\ UNCHANGED <<targets, alone, by, raced>>
      /\ call[c].op = "delete" /\ call[c].at = "dropping"
  BY DEF DropRows
<1>2. call' = [call EXCEPT ![c] = [call[c] EXCEPT !.at = "deleting", !.keys = call[c].keys,
                                     !.ids = call[c].ids, !.found = call[c].found]]
  BY <1>1 DEF RelationTypeOK, CallType
<1>3. /\ call' \in [Callers -> CallType]
      /\ call'[c].keys = call[c].keys /\ call'[c].where = call[c].where
      /\ call'[c].ids = call[c].ids /\ call'[c].source = call[c].source
      /\ call'[c].at = "deleting"
      /\ \A d \in Callers \ {c} : call'[d] = call[d]
  <2>1. /\ call[c].keys \in SUBSET TargetIds /\ call[c].ids \in SUBSET TargetIds
        /\ call[c].found \in SUBSET TargetIds /\ "deleting" \in Running
    BY DEF RelationTypeOK, CallType, Running
  <2> QED
    BY <1>2, <2>1 DEF RelationTypeOK, CallType
<1>4. RelationTypeOK'
  BY <1>1, <1>3 DEF RelationTypeOK
<1>5. DanglingOnlyIf' /\ NamesCreated'
  BY <1>1, <1>3 DEF DanglingOnlyIf, NamesCreated
<1>6. UnmatchedStays'
  BY <1>1, <1>3 DEF UnmatchedStays
<1>7. RowsDropped'
  BY <1>1, <1>3 DEF RowsDropped, DroppedRows
<1>8. FilteredWhenMatching'
  BY <1>3 DEF FilteredWhenMatching
<1> QED
  BY <1>4, <1>5, <1>6, <1>7, <1>8

\* delete() deletes targets that match, still or by a race.
LEMMA DeleteTargetsKeeps ==
    ASSUME RelationIInv, NEW c \in Callers, DeleteTargets(c) PROVE RelationIInv'
<1> USE DEF RelationIInv
<1> DEFINE deleted == DeletedTargets(c)
<1>1. call[c].op = "delete" /\ call[c].at = "deleting" /\ UNCHANGED <<rows, raced>>
      /\ call[c].where \in Wheres /\ call[c].source \in Sources
  BY DEF DeleteTargets, RelationTypeOK, CallType
<1>2. deleted \subseteq TargetIds /\ deleted \subseteq call[c].keys
      /\ \A t \in deleted : targets[t] \in call[c].where.accepts /\ targets[t] \in Colours
  BY <1>1, FilterAcceptsColours DEF DeletedTargets, Accepted
<1>3. /\ targets' = [t \in TargetIds |-> IF t \in deleted THEN "gone" ELSE targets[t]]
      /\ by' = [t \in TargetIds |->
                IF t \in deleted
                THEN [source |-> call[c].source, filtered |-> call[c].where.filtered]
                ELSE by[t]]
      /\ Ends(c, "done", deleted)
  BY DEF DeleteTargets, Returns
<1>4. /\ call' \in [Callers -> CallType] /\ alone' \in [Callers -> Tables]
      /\ call'[c].at = "done" /\ call'[c].keys = {}
      /\ \A d \in Callers \ {c} : call'[d] = call[d]
  BY <1>2, <1>3, EndsIsTyped
<1>5. call[c].where.filtered \in BOOLEAN
  BY <1>1, FilterAcceptsColours
<1>6. RelationTypeOK'
  BY <1>1, <1>3, <1>4, <1>5 DEF RelationTypeOK
<1>7. DanglingOnlyIf'
  <2> SUFFICES ASSUME NEW r \in rows, targets'[r.to] = "gone", r.to \notin raced
               PROVE  by'[r.to].filtered /\ by'[r.to].source # r.from
    BY <1>1 DEF DanglingOnlyIf
  <2>1. r.to \in TargetIds
    BY DEF RelationTypeOK
  <2>2. CASE r.to \in deleted
    <3>1. by'[r.to] = [source |-> call[c].source, filtered |-> call[c].where.filtered]
      BY <1>3, <2>1, <2>2
    <3>2. call[c].where.filtered /\ ~(r.from = call[c].source /\ r.to \in call[c].ids)
      BY <1>1, <1>2, <1>5, <2>2 DEF RowsDropped
    <3>3. r.to \in call[c].ids
      BY <1>1, <1>2, <2>2, <3>2 DEF UnmatchedStays
    <3> QED
      BY <3>1, <3>2, <3>3
  <2>3. CASE r.to \notin deleted
    BY <1>3, <2>1, <2>3 DEF DanglingOnlyIf
  <2> QED
    BY <2>2, <2>3
<1>8. NamesCreated'
  BY <1>1, <1>3, <1>4 DEF NamesCreated, RelationTypeOK, CallType
<1>9. UnmatchedStays'
  <2> SUFFICES ASSUME NEW d \in Callers, call'[d].op = "delete", call'[d].where.filtered,
                      call'[d].at \in {"dropping", "deleting"},
                      NEW t \in call'[d].keys \ call'[d].ids, t \notin raced
               PROVE  targets'[t] \notin call'[d].where.accepts
    BY <1>1 DEF UnmatchedStays
  <2>1. d # c /\ call'[d] = call[d] /\ t \in TargetIds /\ call[d].where \in Wheres
    BY <1>4 DEF RelationTypeOK, CallType
  <2>2. "gone" \notin call[d].where.accepts
    BY <2>1, FilterAcceptsColours, ColoursAssumption
  <2> QED
    BY <1>3, <2>1, <2>2 DEF UnmatchedStays
<1>10. RowsDropped'
  BY <1>1, <1>4 DEF RowsDropped
<1>11. FilteredWhenMatching'
  BY <1>4 DEF FilteredWhenMatching
<1> QED
  BY <1>6, <1>7, <1>8, <1>9, <1>10, <1>11

---------------------------------------------------------------------------
(* Theorems *)

\* The inductive invariant holds in every reachable state.
THEOREM RelationInvariance == Spec => []RelationIInv
<1>1. RelationIInv /\ [Next]_vars => RelationIInv'
  <2> SUFFICES ASSUME RelationIInv, [Next]_vars PROVE RelationIInv'
    OBVIOUS
  <2>1. ASSUME NEW c \in Callers, Begin(c) \/ Statement(c) \/ Fail(c) PROVE RelationIInv'
    BY <2>1, BeginKeeps, CreateTargetKeeps, LinkKeeps, UnlinkKeeps, ReadRowsKeeps,
       FindOrFailKeeps, PatchKeeps, MatchTargetsKeeps, DropRowsKeeps, DeleteTargetsKeeps
       DEF Statement
  <2>2. CASE UNCHANGED vars
    BY <2>2 DEF vars, RelationIInv, RelationTypeOK, DanglingOnlyIf, NamesCreated,
       UnmatchedStays, RowsDropped, FilteredWhenMatching
  <2> QED
    BY <2>1, <2>2 DEF Next
<1> QED
  BY <1>1, RelationInitIInv, PTL DEF Spec

\* Rows that lead nowhere are left only by a filtered delete() of another source, or by a
\* race with a link() or a patch().
THEOREM RowsLeadSomewhere == Spec => []RelationInv
<1>1. RelationIInv => RelationInv
  BY DEF RelationIInv, RelationInv
<1> QED
  BY <1>1, RelationInvariance, PTL

---------------------------------------------------------------------------
(* A call that has the tables to itself *)

Linked(c) == TargetsOf(call[c].source, alone[c].rows)

Untouched(c) == rows = alone[c].rows /\ targets = alone[c].targets

\* The target of create() is there, and waits for its row.
TargetCreated(c) ==
    \E t \in TargetIds :
        /\ alone[c].targets[t] = "none" /\ call[c].keys = {t} /\ call[c].found = {t}
        /\ targets = [alone[c].targets EXCEPT ![t] = call[c].colour]
        /\ rows = alone[c].rows

\* The rows of delete() are dropped, and their targets wait for it.
RowsGone(c) ==
    /\ targets = alone[c].targets /\ call[c].keys = Linked(c)
    /\ rows = {r \in alone[c].rows :
                 IF call[c].where.filtered
                 THEN ~(r.from = call[c].source
                          /\ r.to \in Accepted(call[c].where, alone[c].targets))
                 ELSE r.from # call[c].source /\ r.to \notin Linked(c)}

\* What a call has done of its work, from the tables as they were when it began.
OnItsWay(c) ==
    /\ call[c].at \in {"begun", "finding", "patching", "unlinking", "matching", "dropping"}
          => Untouched(c)
    /\ call[c].at \in {"finding", "patching", "unlinking", "matching", "dropping"}
          => call[c].keys = Linked(c)
    /\ call[c].at = "dropping" /\ call[c].where.filtered
          => call[c].ids = Accepted(call[c].where, alone[c].targets)
    /\ call[c].at = "linking" => TargetCreated(c)
    /\ call[c].at = "deleting" => RowsGone(c)

\* A call is alone while no other is running.
AloneInv ==
    \A c \in Callers : alone[c].is =>
        /\ IsRunning(c) /\ OnItsWay(c)
        /\ \A d \in Callers : IsRunning(d) => d = c

\* Who has ended is not alone any more, and leaves the others as they are.
LEMMA EndsLeaves ==
    ASSUME RelationTypeOK, NEW c \in Callers, NEW at \in {"done", "failed"}, NEW result,
           Ends(c, at, result)
    PROVE  /\ call'[c].at = at /\ call'[c].found = result /\ ~alone'[c].is
           /\ ~(call'[c].at \in Running)
           /\ \A d \in Callers \ {c} : call'[d] = call[d] /\ alone'[d] = alone[d]
<1>1. Idle(at, result).at = at /\ Idle(at, result).found = result
  BY DEF Idle
<1>2. ~NotAlone.is
  BY DEF NotAlone
<1>3. at \notin Running
  BY DEF Running
<1> QED
  BY <1>1, <1>2, <1>3 DEF RelationTypeOK, Ends

\* A call that ends leaves nobody else alone.
LEMMA EndKeepsAlone ==
    ASSUME RelationTypeOK, AloneInv, NEW c \in Callers, IsRunning(c),
           NEW at \in {"done", "failed"}, NEW result, Ends(c, at, result)
    PROVE  AloneInv'
<1>1. \A d \in Callers : ~alone'[d].is
  BY EndsLeaves DEF AloneInv
<1> QED
  BY <1>1 DEF AloneInv

\* A call that goes on is alone if it was.
LEMMA StepKeepsAlone ==
    ASSUME RelationTypeOK, AloneInv, NEW c \in Callers, IsRunning(c), alone' = alone,
           \A d \in Callers \ {c} : call'[d] = call[d],
           call'[c].at \in Running, alone[c].is => OnItsWay(c)'
    PROVE  AloneInv'
<1> SUFFICES ASSUME NEW d \in Callers, alone'[d].is
             PROVE  /\ IsRunning(d)' /\ OnItsWay(d)'
                    /\ \A e \in Callers : IsRunning(e)' => e = d
  BY DEF AloneInv
<1>1. d = c
  BY DEF AloneInv
<1> QED
  BY <1>1 DEF AloneInv

LEMMA BeginKeepsAlone ==
    ASSUME RelationTypeOK, AloneInv, NEW c \in Callers, Begin(c)
    PROVE  AloneInv'
<1> SUFFICES ASSUME NEW d \in Callers, alone'[d].is
             PROVE  /\ IsRunning(d)' /\ OnItsWay(d)'
                    /\ \A e \in Callers : IsRunning(e)' => e = d
  BY DEF AloneInv
<1>1. ~NotAlone.is
  BY DEF NotAlone
<1>2. /\ d = c /\ \A e \in Callers : ~IsRunning(e)
      /\ alone'[c] = [is |-> TRUE, rows |-> rows, targets |-> targets]
      /\ rows' = rows /\ targets' = targets
  BY <1>1 DEF Begin
<1>3. call'[c].at = "begun" /\ \A e \in Callers \ {c} : call'[e] = call[e]
  BY DEF Begin, RelationTypeOK
<1>4. OnItsWay(c)'
  BY <1>2, <1>3 DEF OnItsWay, Untouched
<1> QED
  BY <1>2, <1>3, <1>4 DEF Running

LEMMA CreateKeepsAlone ==
    ASSUME RelationTypeOK, AloneInv, NEW c \in Callers, CreateTarget(c)
    PROVE  AloneInv'
<1>1. PICK t \in TargetIds :
         /\ targets[t] = "none" /\ targets' = [targets EXCEPT ![t] = call[c].colour]
         /\ call' = [call EXCEPT ![c].at = "linking", ![c].keys = {t}, ![c].found = {t}]
         /\ rows' = rows /\ alone' = alone /\ call[c].at = "begun"
  BY DEF CreateTarget
<1>2. /\ call'[c].at = "linking" /\ call'[c].keys = {t} /\ call'[c].found = {t}
      /\ call'[c].colour = call[c].colour
      /\ \A d \in Callers \ {c} : call'[d] = call[d]
  BY <1>1 DEF RelationTypeOK, CallType
<1>3. ASSUME alone[c].is PROVE OnItsWay(c)'
  <2>1. Untouched(c)
    BY <1>1, <1>3 DEF AloneInv, OnItsWay
  <2>2. TargetCreated(c)'
    BY <1>1, <1>2, <2>1 DEF TargetCreated, Untouched
  <2> QED
    BY <1>2, <2>2 DEF OnItsWay
<1>4. IsRunning(c) /\ call'[c].at \in Running
  BY <1>1, <1>2 DEF Running
<1> QED
  BY <1>1, <1>2, <1>3, <1>4, StepKeepsAlone

LEMMA ReadKeepsAlone ==
    ASSUME RelationTypeOK, AloneInv, NEW c \in Callers, ReadRows(c)
    PROVE  AloneInv'
<1> DEFINE keys == TargetsOf(call[c].source, rows)
<1>1. call[c].at = "begun" /\ IsRunning(c)
  BY DEF ReadRows, Running
<1>2. CASE keys = {}
  BY <1>1, <1>2, EndKeepsAlone DEF ReadRows
<1>3. CASE keys # {}
  <2>1. /\ rows' = rows /\ targets' = targets /\ alone' = alone
        /\ call'[c].at \in {"finding", "patching", "unlinking", "matching", "dropping"}
        /\ call'[c].at = "dropping" => ~call[c].where.filtered
        /\ call'[c].keys = keys
        /\ call'[c].where = call[c].where /\ call'[c].source = call[c].source
        /\ \A d \in Callers \ {c} : call'[d] = call[d]
    BY <1>3 DEF ReadRows, RelationTypeOK, CallType
  <2>2. ASSUME alone[c].is PROVE OnItsWay(c)'
    <3>1. Untouched(c)
      BY <1>1, <2>2 DEF AloneInv, OnItsWay
    <3> QED
      BY <2>1, <3>1 DEF OnItsWay, Untouched, Linked
  <2>3. call'[c].at \in Running
    BY <2>1 DEF Running
  <2> QED
    BY <1>1, <2>1, <2>2, <2>3, StepKeepsAlone
<1> QED
  BY <1>2, <1>3

LEMMA MatchKeepsAlone ==
    ASSUME RelationIInv, AloneInv, NEW c \in Callers, MatchTargets(c)
    PROVE  AloneInv'
<1> DEFINE ids == Accepted(call[c].where, targets)
<1>1. call[c].at = "matching" /\ IsRunning(c) /\ call[c].where.filtered /\ RelationTypeOK
  BY DEF MatchTargets, Running, RelationIInv, FilteredWhenMatching
<1>2. /\ rows' = rows /\ targets' = targets /\ alone' = alone
      /\ call'[c].at = (IF ids = {} THEN "deleting" ELSE "dropping") /\ call'[c].ids = ids
      /\ call'[c].keys = call[c].keys
      /\ call'[c].where = call[c].where /\ call'[c].source = call[c].source
      /\ \A d \in Callers \ {c} : call'[d] = call[d]
  BY <1>1 DEF MatchTargets, RelationTypeOK, CallType
<1>3. ASSUME alone[c].is PROVE OnItsWay(c)'
  <2>1. Untouched(c) /\ call[c].keys = Linked(c)
    BY <1>1, <1>3 DEF AloneInv, OnItsWay
  <2>2. Linked(c)' = Linked(c)
    BY <1>2 DEF Linked
  <2>3. CASE ids = {}
    <3>1. RowsGone(c)'
      BY <1>1, <1>2, <2>1, <2>2, <2>3 DEF RowsGone, Untouched
    <3> QED
      BY <1>2, <2>3, <3>1 DEF OnItsWay
  <2>4. CASE ids # {}
    BY <1>2, <2>1, <2>2, <2>4 DEF OnItsWay, Untouched
  <2> QED
    BY <2>3, <2>4
<1>4. call'[c].at \in Running
  BY <1>2 DEF Running
<1> QED
  BY <1>1, <1>2, <1>3, <1>4, StepKeepsAlone

LEMMA DropKeepsAlone ==
    ASSUME RelationTypeOK, AloneInv, NEW c \in Callers, DropRows(c)
    PROVE  AloneInv'
<1>1. call[c].at = "dropping" /\ IsRunning(c)
  BY DEF DropRows, Running
<1>2. /\ rows' = rows \ DroppedRows(c) /\ targets' = targets /\ alone' = alone
      /\ call'[c].at = "deleting" /\ call'[c].keys = call[c].keys
      /\ call'[c].where = call[c].where /\ call'[c].source = call[c].source
      /\ \A d \in Callers \ {c} : call'[d] = call[d]
  BY DEF DropRows, RelationTypeOK, CallType
<1>3. ASSUME alone[c].is PROVE OnItsWay(c)'
  <2>1. Untouched(c) /\ call[c].keys = Linked(c)
    BY <1>1, <1>3 DEF AloneInv, OnItsWay
  <2>2. Linked(c)' = Linked(c)
    BY <1>2 DEF Linked
  <2>3. call[c].where.filtered => call[c].ids = Accepted(call[c].where, alone[c].targets)
    BY <1>1, <1>3 DEF AloneInv, OnItsWay
  <2>4. RowsGone(c)'
    BY <1>2, <2>1, <2>2, <2>3 DEF RowsGone, Untouched, DroppedRows
  <2> QED
    BY <1>2, <2>4 DEF OnItsWay
<1>4. call'[c].at \in Running
  BY <1>2 DEF Running
<1> QED
  BY <1>1, <1>2, <1>3, <1>4, StepKeepsAlone

LEMMA AloneKept == RelationIInv /\ AloneInv /\ [Next]_vars => AloneInv'
<1> SUFFICES ASSUME RelationIInv, AloneInv, [Next]_vars PROVE AloneInv'
  OBVIOUS
<1> USE DEF RelationIInv
<1>1. ASSUME NEW c \in Callers, Begin(c) PROVE AloneInv'
  BY <1>1, BeginKeepsAlone
<1>2. ASSUME NEW c \in Callers, CreateTarget(c) PROVE AloneInv'
  BY <1>2, CreateKeepsAlone
<1>3. ASSUME NEW c \in Callers, ReadRows(c) PROVE AloneInv'
  BY <1>3, ReadKeepsAlone
<1>4. ASSUME NEW c \in Callers, MatchTargets(c) PROVE AloneInv'
  BY <1>4, MatchKeepsAlone
<1>5. ASSUME NEW c \in Callers, DropRows(c) PROVE AloneInv'
  BY <1>5, DropKeepsAlone
<1>6. ASSUME NEW c \in Callers,
             Link(c) \/ Unlink(c) \/ UnlinkAll(c) \/ Find(c) \/ Patch(c)
               \/ DeleteTargets(c) \/ Fail(c)
      PROVE  AloneInv'
  <2>1. IsRunning(c) /\ \E at \in {"done", "failed"} : \E result : Ends(c, at, result)
    BY <1>6 DEF Link, Unlink, UnlinkAll, Find, Patch, DeleteTargets, Fail, Returns, Running
  <2> QED
    BY <2>1, EndKeepsAlone
<1>7. CASE UNCHANGED vars
  BY <1>7 DEF vars, AloneInv, OnItsWay, Untouched, Linked, TargetCreated, RowsGone
<1> QED
  BY <1>1, <1>2, <1>3, <1>4, <1>5, <1>6, <1>7 DEF Next, Statement

\* What a call that has been alone promises when it is done.
Kept(c) ==
    call'[c].at = "done" =>
        Contract(call[c].op, call[c].source, call[c].where, call[c].colour,
                 alone[c], call'[c].found)

LEMMA ContractOfReading ==
    ASSUME RelationTypeOK, AloneInv, NEW c \in Callers, alone[c].is,
           ReadRows(c) \/ Find(c) \/ UnlinkAll(c)
    PROVE  Kept(c)
<1> USE DEF Kept
<1> DEFINE s == call[c].source
           found == call'[c].found
<1>1. Untouched(c)
  BY DEF AloneInv, OnItsWay, ReadRows, Find, UnlinkAll
<1>2. targets = [t \in TargetIds |-> targets[t]]
  BY DEF RelationTypeOK
<1>3. CASE ReadRows(c)
  <2>1. SUFFICES ASSUME call'[c].at = "done"
                 PROVE  Contract(call[c].op, s, call[c].where, call[c].colour, alone[c], found)
    OBVIOUS
  <2>2. TargetsOf(s, rows) = {} /\ found = {} /\ call[c].op \in {"find", "delete", "patch"}
    <3>1. CASE TargetsOf(s, rows) = {}
      BY <1>3, <2>1, <3>1, EndsLeaves DEF ReadRows
    <3>2. CASE TargetsOf(s, rows) # {}
      <4>1. call'[c].at \in {"finding", "patching", "unlinking", "matching", "dropping"}
        BY <1>3, <3>2 DEF ReadRows, RelationTypeOK, CallType
      <4> QED
        BY <2>1, <4>1
    <3> QED
      BY <3>1, <3>2
  <2>3. rows' = rows /\ targets' = targets
    BY <1>3 DEF ReadRows
  <2>4. Linked(c) = {} /\ TargetsOf(s, rows') = {} /\ rows = alone[c].rows
        /\ targets = alone[c].targets
    BY <1>1, <2>2, <2>3 DEF Linked, Untouched
  <2> QED
    BY <1>2, <2>2, <2>3, <2>4 DEF Contract, Linked
<1>4. CASE Find(c)
  <2>1. call[c].keys = Linked(c) /\ call[c].op = "find"
    BY <1>4 DEF Find, AloneInv, OnItsWay
  <2>2. found = call[c].keys \cap Accepted(call[c].where, targets)
    BY <1>4, EndsLeaves DEF Find, Returns
  <2> QED
    BY <1>1, <1>4, <2>1, <2>2 DEF Find, Contract, Linked, Untouched
<1>5. CASE UnlinkAll(c)
  <2>1. call[c].keys = Linked(c) /\ call[c].op = "unlinkAll"
    BY <1>5 DEF UnlinkAll, AloneInv, OnItsWay
  <2>2. rows' = {r \in rows : r.from # s}
    BY <1>1, <1>5, <2>1 DEF UnlinkAll, Linked, Untouched, TargetsOf
  <2> QED
    BY <1>1, <1>5, <2>1, <2>2 DEF UnlinkAll, Contract, Untouched
<1> QED
  BY <1>3, <1>4, <1>5

LEMMA ContractOfLinking ==
    ASSUME RelationTypeOK, AloneInv, NEW c \in Callers, alone[c].is,
           Link(c) \/ Unlink(c) \/ Patch(c)
    PROVE  Kept(c)
<1> USE DEF Kept
<1>1. CASE Link(c) /\ call[c].op = "create"
  <2>1. TargetCreated(c)
    BY <1>1 DEF Link, AloneInv, OnItsWay
  <2>2. PICK t \in TargetIds :
           /\ alone[c].targets[t] = "none" /\ call[c].keys = {t} /\ call[c].found = {t}
           /\ targets = [alone[c].targets EXCEPT ![t] = call[c].colour]
           /\ rows = alone[c].rows
    BY <2>1 DEF TargetCreated
  <2>3. /\ rows' = rows \cup {[from |-> call[c].source, to |-> t]} /\ targets' = targets
        /\ call'[c].found = {t}
    BY <1>1, <2>2, EndsLeaves DEF Link, Returns
  <2> QED
    BY <1>1, <2>2, <2>3 DEF Contract
<1>2. CASE Link(c) /\ call[c].op # "create"
  <2>1. Untouched(c) /\ call[c].op = "link"
    BY <1>2 DEF Link, AloneInv, OnItsWay
  <2>2. rows \subseteq rows' /\ targets' = targets
    BY <1>2 DEF Link
  <2> QED
    BY <2>1, <2>2 DEF Contract, Untouched
<1>3. CASE Unlink(c)
  <2>1. Untouched(c) /\ call[c].op = "unlink"
    BY <1>3 DEF Unlink, AloneInv, OnItsWay
  <2>2. {r \in rows : r.from # call[c].source} \subseteq rows' /\ targets' = targets
    BY <1>3 DEF Unlink
  <2> QED
    BY <2>1, <2>2 DEF Contract, Untouched
<1>4. CASE Patch(c)
  <2>1. Untouched(c) /\ call[c].op = "patch" /\ call[c].keys = Linked(c)
    BY <1>4 DEF Patch, AloneInv, OnItsWay
  <2>2. /\ rows' = rows
        /\ targets' = [t \in TargetIds |->
                         IF t \in call[c].keys \cap Accepted(call[c].where, targets)
                         THEN call[c].colour ELSE targets[t]]
    BY <1>4 DEF Patch
  <2> QED
    BY <2>1, <2>2 DEF Contract, Untouched, Linked
<1> QED
  BY <1>1, <1>2, <1>3, <1>4

LEMMA ContractOfDeleting ==
    ASSUME RelationTypeOK, AloneInv, NEW c \in Callers, alone[c].is, DeleteTargets(c)
    PROVE  Kept(c)
<1> DEFINE s == call[c].source
           linked == Linked(c)
           accepted == Accepted(call[c].where, targets)
           filtered == call[c].where.filtered
           others == {r \in alone[c].rows : r.from # s}
<1>1. RowsGone(c) /\ call[c].op = "delete"
  BY DEF DeleteTargets, AloneInv, OnItsWay
<1>2. /\ call'[c].found = linked \cap accepted /\ rows' = rows
      /\ targets' = [t \in TargetIds |-> IF t \in linked \cap accepted THEN "gone"
                                         ELSE alone[c].targets[t]]
      /\ accepted = Accepted(call[c].where, alone[c].targets)
  BY <1>1, EndsLeaves DEF DeleteTargets, DeletedTargets, Returns, RowsGone
<1>3. rows = {r \in alone[c].rows : IF filtered THEN ~(r.from = s /\ r.to \in accepted)
                                    ELSE r.from # s /\ r.to \notin linked}
  BY <1>1, <1>2 DEF RowsGone
<1>4. linked = {r.to : r \in {x \in alone[c].rows : x.from = s}}
  BY DEF Linked, TargetsOf
<1> HIDE DEF accepted, filtered, linked
<1>5. TargetsOf(s, rows) = IF filtered THEN linked \ (linked \cap accepted) ELSE {}
  BY <1>3, <1>4 DEF TargetsOf
<1>6. rows \subseteq alone[c].rows /\ others \ rows \subseteq {r \in others : r.to \in linked /\ ~filtered}
  BY <1>3
<1> QED
  BY <1>1, <1>2, <1>5, <1>6 DEF Kept, Contract, accepted, filtered, linked, Linked

\* An operation that no other call interrupts does what DefaultHasManyThroughRepository
\* promises of it, for any tables, source, filter and colour: from the tables before it to
\* those after it, although it is a series of statements.
THEOREM AloneContractKept == Spec => AloneKeepsContract
<1>1. Init => AloneInv
  BY DEF Init, AloneInv, NotAlone
<1>2. RelationIInv /\ AloneInv /\ [Next]_vars =>
         [\A c \in Callers :
            (IsRunning(c) /\ call[c]'.at = "done" /\ alone[c].is) =>
                Contract(call[c].op, call[c].source, call[c].where, call[c].colour,
                         alone[c], call[c]'.found)]_vars
  <2> SUFFICES ASSUME RelationIInv, AloneInv, Next, NEW c \in Callers,
                      IsRunning(c), call'[c].at = "done", alone[c].is
               PROVE  Contract(call[c].op, call[c].source, call[c].where, call[c].colour,
                               alone[c], call'[c].found)
    OBVIOUS
  <2>1. PICK d \in Callers : Begin(d) \/ Statement(d) \/ Fail(d)
    BY DEF Next
  <2>2. RelationTypeOK
    BY DEF RelationIInv
  <2>3. CASE d # c
    <3>1. ~IsRunning(d)
      BY <2>3 DEF AloneInv
    <3>2. Begin(d)
      BY <2>1, <3>1 DEF Statement, CreateTarget, Link, Unlink, ReadRows, UnlinkAll, Find,
         Patch, MatchTargets, DropRows, DeleteTargets, Fail, Running
    <3>3. call'[c] = call[c]
      BY <2>2, <2>3, <3>2 DEF Begin, RelationTypeOK
    <3> QED
      BY <3>3 DEF Running
  <2>4. CASE d = c
    <3>1. ~Fail(c)
      BY <2>2, EndsLeaves DEF Fail
    <3>2. ~Begin(c)
      BY DEF Begin, Running
    <3>3. ~CreateTarget(c) /\ ~MatchTargets(c) /\ ~DropRows(c)
      <4>1. CreateTarget(c) => call'[c].at = "linking"
        BY <2>2 DEF CreateTarget, RelationTypeOK, CallType
      <4>2. MatchTargets(c) => call'[c].at \in {"deleting", "dropping"}
        BY <2>2 DEF MatchTargets, RelationTypeOK, CallType
      <4>3. DropRows(c) => call'[c].at = "deleting"
        BY <2>2 DEF DropRows, RelationTypeOK, CallType
      <4> QED
        BY <4>1, <4>2, <4>3
    <3>4. Kept(c)
      BY <2>1, <2>2, <2>4, <3>1, <3>2, <3>3, ContractOfReading, ContractOfLinking,
         ContractOfDeleting DEF Statement
    <3> QED
      BY <3>4 DEF Kept
  <2> QED
    BY <2>3, <2>4
<1> QED
  BY <1>1, <1>2, AloneKept, RelationInvariance, PTL DEF Spec, AloneKeepsContract

---------------------------------------------------------------------------
(* The constraints of relations *)

\* f is what Selects is defined to be, up to m clauses deep.
Solves(f, m) ==
    f = [n \in 0 .. m |-> IF n = 0 THEN <<>>
                          ELSE [w \in WhereObjects(DOMAIN f[n - 1]) |-> SelectedBy(w, f[n - 1])]]

LEMMA SelectsExists ==
    ASSUME NEW m \in Nat
    PROVE  \E f : Solves(f, m)
<1> DEFINE G == {k \in Nat : \E f : Solves(f, k)}
           Following(q) == [w \in WhereObjects(DOMAIN q) |-> SelectedBy(w, q)]
<1>1. 0 \in G
  <2> DEFINE f == [n \in 0 .. 0 |-> <<>>]
  <2>1. f = [n \in 0 .. 0 |-> IF n = 0 THEN <<>> ELSE Following(f[n - 1])]
    <3> HIDE DEF Following
    <3> QED
      OBVIOUS
  <2>2. Solves(f, 0)
    BY <2>1, Zenon DEF Solves
  <2> QED
    BY <2>2
<1>2. ASSUME NEW k \in Nat, k \in G PROVE k + 1 \in G
  <2>1. PICK g : Solves(g, k)
    BY <1>2
  <2>2. g = [n \in 0 .. k |-> IF n = 0 THEN <<>> ELSE Following(g[n - 1])]
    BY <2>1, Zenon DEF Solves
  <2> HIDE DEF Following
  <2> DEFINE f == [n \in 0 .. k + 1 |-> IF n = 0 THEN <<>> ELSE Following(g[n - 1])]
  <2>3. \A n \in 0 .. k : f[n] = g[n]
    BY <2>2
  <2>4. \A n \in 0 .. k + 1 : n # 0 => n - 1 \in 0 .. k
    OBVIOUS
  <2>5. f = [n \in 0 .. k + 1 |-> IF n = 0 THEN <<>> ELSE Following(f[n - 1])]
    <3>1. \A n \in 0 .. k + 1 : (IF n = 0 THEN <<>> ELSE Following(g[n - 1]))
                              = (IF n = 0 THEN <<>> ELSE Following(f[n - 1]))
      <4> SUFFICES ASSUME NEW n \in 0 .. k + 1, n # 0 PROVE Following(g[n - 1]) = Following(f[n - 1])
        OBVIOUS
      <4>1. g[n - 1] = f[n - 1]
        BY <2>3, <2>4, Zenon
      <4> QED
        BY <4>1, Zenon
    <3> HIDE DEF f
    <3>2. \A n \in 0 .. k + 1 : f[n] = IF n = 0 THEN <<>> ELSE Following(f[n - 1])
      <4>1. \A n \in 0 .. k + 1 : f[n] = IF n = 0 THEN <<>> ELSE Following(g[n - 1])
        BY Zenon DEF f
      <4> QED
        BY <3>1, <4>1, Zenon
    <3>3. f = [n \in 0 .. k + 1 |-> f[n]]
      BY DEF f
    <3> QED
      BY <3>2, <3>3, Zenon
  <2> HIDE DEF f
  <2>6. Solves(f, k + 1)
    BY <2>5, Zenon DEF Solves, Following
  <2> QED
    BY <2>6
<1>3. m \in G
  <2> HIDE DEF G
  <2> QED
    BY <1>1, <1>2, Induction
<1> QED
  BY <1>3

LEMMA SelectsIs ==
    /\ Selects[0] = <<>>
    /\ \A n \in 1 .. Nesting :
          Selects[n] = [w \in WhereObjects(DOMAIN Selects[n - 1]) |->
                            SelectedBy(w, Selects[n - 1])]
<1>1. Nesting \in Nat
  BY ConstraintConstants
<1>2. \E f : Solves(f, Nesting)
  BY <1>1, SelectsExists, Zenon
<1>3. Selects = CHOOSE f : Solves(f, Nesting)
  BY Zenon DEF Selects, Solves
<1>4. Solves(Selects, Nesting)
  BY <1>2, <1>3, Zenon
<1> HIDE <1>3
<1>5. \A n \in 0 .. Nesting :
          Selects[n] = IF n = 0 THEN <<>>
                       ELSE [w \in WhereObjects(DOMAIN Selects[n - 1]) |->
                                SelectedBy(w, Selects[n - 1])]
  BY <1>4, Zenon DEF Solves
<1>6. 0 \in 0 .. Nesting /\ \A n \in 1 .. Nesting : n \in 0 .. Nesting /\ n # 0
  BY <1>1
<1> QED
  BY <1>5, <1>6, Zenon

LEMMA WhereGrows ==
    ASSUME NEW A, NEW B, A \subseteq B
    PROVE  WhereObjects(A) \subseteq WhereObjects(B)
<1>1. Seq(A) \subseteq Seq(B)
  OBVIOUS
<1> QED
  BY <1>1 DEF WhereObjects

LEMMA SelectedSame ==
    ASSUME NEW A, NEW w \in WhereObjects(A), NEW q, NEW r, \A c \in A : q[c] = r[c]
    PROVE  SelectedBy(w, q) = SelectedBy(w, r)
<1>1. w.and \in Seq(A) /\ w.or \in Seq(A)
  BY DEF WhereObjects
<1>2. /\ \A i \in 1 .. Len(w.and) : q[w.and[i]] = r[w.and[i]]
      /\ \A i \in 1 .. Len(w.or) : q[w.or[i]] = r[w.or[i]]
  BY <1>1
<1> QED
  BY <1>2, Zenon DEF SelectedBy

\* Where objects n deep are so n + 1 deep, and select the same.
Deepened(n) ==
    /\ DOMAIN Selects[n] \subseteq DOMAIN Selects[n + 1]
    /\ \A w \in DOMAIN Selects[n] : Selects[n + 1][w] = Selects[n][w]

LEMMA Deepening ==
    ASSUME NEW n \in Nat, n < Nesting
    PROVE  Deepened(n)
<1> DEFINE G == {k \in Nat : k < Nesting => Deepened(k)}
<1>1. Nesting \in Nat
  BY ConstraintConstants
<1>2. 0 \in G
  <2>1. DOMAIN Selects[0] = {}
    BY SelectsIs
  <2> QED
    BY <2>1 DEF Deepened
<1>3. ASSUME NEW k \in Nat, k \in G PROVE k + 1 \in G
  <2> SUFFICES ASSUME k + 1 < Nesting PROVE Deepened(k + 1)
    OBVIOUS
  <2> DEFINE a == Selects[k]
             b == Selects[k + 1]
             c == Selects[k + 1 + 1]
  <2>1. Deepened(k) /\ k + 1 \in 1 .. Nesting /\ k + 1 + 1 \in 1 .. Nesting
        /\ (k + 1) - 1 = k /\ (k + 1 + 1) - 1 = k + 1
    BY <1>1, <1>3
  <2>2. DOMAIN a \subseteq DOMAIN b /\ \A w \in DOMAIN a : b[w] = a[w]
    BY <2>1 DEF Deepened
  <2>3. b = [w \in WhereObjects(DOMAIN a) |-> SelectedBy(w, a)]
    BY <2>1, SelectsIs, Zenon
  <2>4. c = [w \in WhereObjects(DOMAIN b) |-> SelectedBy(w, b)]
    BY <2>1, SelectsIs, Zenon
  <2> HIDE DEF a, b, c
  <2>5. WhereObjects(DOMAIN a) \subseteq WhereObjects(DOMAIN b)
    BY <2>2, WhereGrows
  <2>6. \A w \in WhereObjects(DOMAIN a) : SelectedBy(w, b) = SelectedBy(w, a)
    <3> DEFINE D == DOMAIN a
    <3>1. \A v \in D : b[v] = a[v]
      BY <2>2
    <3> SUFFICES ASSUME NEW w \in WhereObjects(D) PROVE SelectedBy(w, b) = SelectedBy(w, a)
      OBVIOUS
    <3> HIDE DEF D
    <3> QED
      BY <3>1, SelectedSame
  <2>7. DOMAIN b = WhereObjects(DOMAIN a) /\ DOMAIN c = WhereObjects(DOMAIN b)
    BY <2>3, <2>4
  <2>8. \A w \in WhereObjects(DOMAIN a) : b[w] = SelectedBy(w, a) /\ c[w] = SelectedBy(w, b)
    BY <2>3, <2>4, <2>5
  <2>9. DOMAIN b \subseteq DOMAIN c /\ \A w \in DOMAIN b : c[w] = b[w]
    BY <2>5, <2>6, <2>7, <2>8
  <2> QED
    BY <2>9 DEF Deepened, b, c
<1>4. n \in G
  <2> HIDE DEF G
  <2> QED
    BY <1>2, <1>3, Induction
<1> QED
  BY <1>4

\* What w and x select together.
Merges(w, x, q, A) ==
    /\ Merged(w, x) \in WhereObjects(A)
    /\ SelectedBy(Merged(w, x), q) = SelectedBy(w, q) \cap SelectedBy(x, q)

LEMMA MergedIs ==
    ASSUME NEW A, NEW q, NEW w \in WhereObjects(A), NEW x \in WhereObjects(A),
           Keys(w) \cap Keys(x) = {}
    PROVE  Merges(w, x, q, A)
<1> DEFINE P == [p \in DOMAIN w.props \cup DOMAIN x.props |->
                    IF p \in DOMAIN x.props THEN x.props[p] ELSE w.props[p]]
           a == w.and \o x.and
           o == w.or \o x.or
           m == Merged(w, x)
<1>1. m = [props |-> P, and |-> a, or |-> o]
  BY Zenon DEF Merged
<1>2. /\ w.and \in Seq(A) /\ w.or \in Seq(A) /\ x.and \in Seq(A) /\ x.or \in Seq(A)
      /\ w.props \in PropFunctions(SUBSET Values) /\ x.props \in PropFunctions(SUBSET Values)
  BY DEF WhereObjects
<1>3. /\ (DOMAIN w.props) \cap (DOMAIN x.props) = {}
      /\ w.and = <<>> \/ x.and = <<>>
      /\ w.or = <<>> \/ x.or = <<>>
  BY DEF Keys, NoClause
<1>4. /\ w.and = <<>> => a = x.and
      /\ x.and = <<>> => a = w.and
      /\ w.or = <<>> => o = x.or
      /\ x.or = <<>> => o = w.or
  <2>1. \A s \in Seq(A) : <<>> \o s = s /\ s \o <<>> = s
    OBVIOUS
  <2> QED
    BY <1>2, <2>1, Zenon
<1>5. a \in Seq(A) /\ o \in Seq(A)
  BY <1>2
<1>6. P \in PropFunctions(SUBSET Values)
  <2>1. PICK d \in SUBSET Properties : w.props \in [d -> SUBSET Values]
    BY <1>2 DEF PropFunctions
  <2>2. PICK e \in SUBSET Properties : x.props \in [e -> SUBSET Values]
    BY <1>2 DEF PropFunctions
  <2>3. P \in [d \cup e -> SUBSET Values] /\ d \cup e \in SUBSET Properties
    BY <2>1, <2>2
  <2> HIDE DEF P
  <2> QED
    BY <2>3 DEF PropFunctions
<1>7. \A row : (\A p \in DOMAIN P : row[p] \in P[p]) <=>
                 /\ \A p \in DOMAIN w.props : row[p] \in w.props[p]
                 /\ \A p \in DOMAIN x.props : row[p] \in x.props[p]
  BY <1>3
<1> HIDE DEF P, a, o, m
<1>8. m.props = P /\ m.and = a /\ m.or = o /\ m \in WhereObjects(A)
  BY <1>1, <1>5, <1>6 DEF WhereObjects
<1> DEFINE Ands(s, row) == \A i \in 1 .. Len(s) : row \in q[s[i]]
           Ors(s, row) == s # NoClause => \E i \in 1 .. Len(s) : row \in q[s[i]]
           Props(f, row) == \A p \in DOMAIN f : row[p] \in f[p]
<1>9. \A v, row : row \in SelectedBy(v, q) <=>
         row \in Instances /\ Props(v.props, row) /\ Ands(v.and, row) /\ Ors(v.or, row)
  BY Zenon DEF SelectedBy
<1>10. \A row : Ands(<<>>, row) /\ Ors(<<>>, row)
  BY DEF NoClause
<1>11. \A row : Props(P, row) <=> Props(w.props, row) /\ Props(x.props, row)
  BY <1>7
<1> HIDE DEF Ands, Ors, Props
<1>12. \A row : Ands(a, row) <=> Ands(w.and, row) /\ Ands(x.and, row)
  BY <1>3, <1>4, <1>10, Zenon
<1>13. \A row : Ors(o, row) <=> Ors(w.or, row) /\ Ors(x.or, row)
  BY <1>3, <1>4, <1>10, Zenon
<1>14. \A row : row \in SelectedBy(m, q) <=> row \in SelectedBy(w, q) /\ row \in SelectedBy(x, q)
  BY <1>8, <1>9, <1>11, <1>12, <1>13, Zenon
<1>15. SelectedBy(m, q) = SelectedBy(w, q) \cap SelectedBy(x, q)
  BY <1>14
<1> QED
  BY <1>8, <1>15, Zenon DEF m, Merges

\* A where object of a single clause.
ClauseSelects(c, q, A) ==
    /\ [NoCondition EXCEPT !.and = c] \in WhereObjects(A)
    /\ [NoCondition EXCEPT !.or = c] \in WhereObjects(A)
    /\ SelectedBy([NoCondition EXCEPT !.and = c], q) =
         {row \in Instances : \A i \in 1 .. Len(c) : row \in q[c[i]]}
    /\ SelectedBy([NoCondition EXCEPT !.or = c], q) =
         {row \in Instances : c # <<>> => \E i \in 1 .. Len(c) : row \in q[c[i]]}

LEMMA ClauseIs ==
    ASSUME NEW A, NEW q, NEW c \in Seq(A)
    PROVE  ClauseSelects(c, q, A)
<1>1. /\ [NoCondition EXCEPT !.and = c] = [props |-> <<>>, and |-> c, or |-> <<>>]
      /\ [NoCondition EXCEPT !.or = c] = [props |-> <<>>, and |-> <<>>, or |-> c]
  BY DEF NoCondition, Condition, NoClause
<1>2. <<>> \in PropFunctions(SUBSET Values)
  <2>1. <<>> \in [{} -> SUBSET Values]
    OBVIOUS
  <2> QED
    BY <2>1 DEF PropFunctions
<1>3. <<>> \in Seq(A) /\ Len(<<>>) = 0 /\ DOMAIN <<>> = {}
  OBVIOUS
<1> DEFINE v == [props |-> <<>>, and |-> c, or |-> <<>>]
           u == [props |-> <<>>, and |-> <<>>, or |-> c]
<1>4. v \in WhereObjects(A) /\ u \in WhereObjects(A)
  BY <1>2, <1>3 DEF WhereObjects
<1>5. /\ v.props = <<>> /\ v.and = c /\ v.or = <<>>
      /\ u.props = <<>> /\ u.and = <<>> /\ u.or = c
  OBVIOUS
<1>6. (\A row : \A p \in DOMAIN <<>> : row[p] \in (<<>>)[p])
      /\ \A i \in 1 .. Len(<<>>) : FALSE
  BY <1>3
<1> HIDE DEF v, u
<1>7. SelectedBy(v, q) = {row \in Instances : \A i \in 1 .. Len(c) : row \in q[c[i]]}
  <2>1. \A row : row \in SelectedBy(v, q) <=>
                    row \in Instances /\ \A i \in 1 .. Len(c) : row \in q[c[i]]
    BY <1>5, <1>6, Zenon DEF SelectedBy, NoClause
  <2> QED
    BY <2>1
<1>8. SelectedBy(u, q) =
         {row \in Instances : c # <<>> => \E i \in 1 .. Len(c) : row \in q[c[i]]}
  <2>1. \A row : row \in SelectedBy(u, q) <=>
           row \in Instances /\ (c # <<>> => \E i \in 1 .. Len(c) : row \in q[c[i]])
    BY <1>5, <1>6, Zenon DEF SelectedBy, NoClause
  <2> QED
    BY <2>1
<1> QED
  BY <1>1, <1>4, <1>7, <1>8, Zenon DEF v, u, ClauseSelects

\* Selecting what is n deep.
LEMMA AddIs ==
    ASSUME NEW n \in Nat, n >= 1, n < Nesting,
           NEW w \in DOMAIN Selects[n], NEW x \in DOMAIN Selects[n]
    PROVE  /\ Add(w, x) \in DOMAIN Selects[n + 1]
           /\ Selects[n + 1][Add(w, x)] = Selects[n][w] \cap Selects[n][x]
<1> DEFINE a == Selects[n - 1]
           b == Selects[n]
           c == Selects[n + 1]
<1>1. Nesting \in Nat /\ n \in 1 .. Nesting /\ n + 1 \in 1 .. Nesting /\ (n + 1) - 1 = n
  BY ConstraintConstants
<1>2. b = [v \in WhereObjects(DOMAIN a) |-> SelectedBy(v, a)]
  BY <1>1, SelectsIs, Zenon
<1>3. c = [v \in WhereObjects(DOMAIN b) |-> SelectedBy(v, b)]
  BY <1>1, SelectsIs, Zenon
<1>4. DOMAIN b \subseteq DOMAIN c /\ \A v \in DOMAIN b : c[v] = b[v]
  BY Deepening DEF Deepened
<1> HIDE DEF a, b, c
<1>5. /\ w \in WhereObjects(DOMAIN a) /\ x \in WhereObjects(DOMAIN a)
      /\ b[w] = SelectedBy(w, a) /\ b[x] = SelectedBy(x, a)
  BY <1>2 DEF b
<1>6. CASE Keys(w) \cap Keys(x) = {}
  <2>1. Add(w, x) = Merged(w, x)
    BY <1>6, Zenon DEF Add
  <2>2. /\ Merged(w, x) \in WhereObjects(DOMAIN a)
        /\ SelectedBy(Merged(w, x), a) = SelectedBy(w, a) \cap SelectedBy(x, a)
    <3> DEFINE D == DOMAIN a
    <3>1. w \in WhereObjects(D) /\ x \in WhereObjects(D)
      BY <1>5
    <3> HIDE DEF D
    <3>2. Merges(w, x, a, D)
      BY <1>6, <3>1, MergedIs
    <3> QED
      BY <3>2, Zenon DEF D, Merges
  <2>3. b[Merged(w, x)] = SelectedBy(Merged(w, x), a) /\ Merged(w, x) \in DOMAIN b
    BY <1>2, <2>2
  <2> QED
    BY <1>4, <1>5, <2>1, <2>2, <2>3 DEF b, c
<1>7. CASE Keys(w) \cap Keys(x) # {}
  <2> DEFINE y == [NoCondition EXCEPT !.and = <<w, x>>]
  <2>1. Add(w, x) = y
    BY <1>7, Zenon DEF Add
  <2>2. <<w, x>> \in Seq(DOMAIN b)
    <3> DEFINE D == DOMAIN b
    <3>1. w \in D /\ x \in D
      BY DEF b
    <3> HIDE DEF D
    <3>2. <<w, x>> \in Seq(D)
      BY <3>1
    <3> QED
      BY <3>2 DEF D
  <2>3. /\ y \in WhereObjects(DOMAIN b)
        /\ SelectedBy(y, b) =
                {row \in Instances : \A i \in 1 .. Len(<<w, x>>) : row \in b[<<w, x>>[i]]}
    <3> DEFINE D == DOMAIN b
               t == <<w, x>>
    <3>1. t \in Seq(D)
      BY <2>2
    <3> HIDE DEF D, t
    <3>2. ClauseSelects(t, b, D)
      BY <3>1, ClauseIs
    <3> QED
      BY <3>2, Zenon DEF D, t, ClauseSelects
  <2>4. b[w] \subseteq Instances
    BY <1>5 DEF SelectedBy
  <2> HIDE DEF y
  <2>5. SelectedBy(y, b) = b[w] \cap b[x]
    <3>1. Len(<<w, x>>) = 2 /\ <<w, x>>[1] = w /\ <<w, x>>[2] = x /\ 1 .. 2 = {1, 2}
      OBVIOUS
    <3> QED
      BY <2>3, <2>4, <3>1
  <2>6. c[y] = SelectedBy(y, b) /\ y \in DOMAIN c
    BY <1>3, <2>3
  <2> QED
    BY <2>1, <2>5, <2>6 DEF b, c
<1> QED
  BY <1>6, <1>7

\* A filter that is constrained selects what it did before, of the instances of the relation.
LEMMA ConstraintNarrows ==
    ASSUME NEW w \in DOMAIN Selects[Nesting - 2], NEW x \in DOMAIN Selects[Nesting - 2]
    PROVE  ConstraintAlwaysHolds(w, x)
<1> DEFINE n == Nesting - 2
           a == Selects[n]
           b == Selects[n + 1]
           c == Selects[n + 1 + 1]
<1>1. Nesting \in Nat /\ n \in Nat /\ n + 1 \in Nat /\ n < Nesting /\ n + 1 < Nesting
      /\ n + 1 >= 1 /\ n + 1 + 1 = Nesting
      /\ n + 1 \in 1 .. Nesting /\ (n + 1) - 1 = n
  BY ConstraintConstants
<1> HIDE DEF n
<1>2. w \in DOMAIN a /\ x \in DOMAIN a
  BY DEF n
<1>3. DOMAIN a \subseteq DOMAIN b /\ \A v \in DOMAIN a : b[v] = a[v]
  BY <1>1, Deepening DEF Deepened
<1>4. DOMAIN b \subseteq DOMAIN c /\ \A v \in DOMAIN b : c[v] = b[v]
  BY <1>1, Deepening DEF Deepened
<1>5. \A v : Selected(v) = c[v]
  BY <1>1, Zenon DEF Selected
<1>6. \A u, v \in DOMAIN b : c[Add(u, v)] = b[u] \cap b[v]
  BY <1>1, AddIs
<1>7. b = [v \in WhereObjects(DOMAIN a) |-> SelectedBy(v, a)]
  BY <1>1, SelectsIs, Zenon
<1> DEFINE o == [NoCondition EXCEPT !.or = <<x>>]
<1>8. <<x>> \in Seq(DOMAIN a)
  <2> DEFINE D == DOMAIN a
  <2>1. x \in D
    BY <1>2
  <2> HIDE DEF D
  <2>2. <<x>> \in Seq(D)
    BY <2>1
  <2> QED
    BY <2>2 DEF D
<1> HIDE DEF a, b, c
<1>9. /\ o \in WhereObjects(DOMAIN a)
      /\ SelectedBy(o, a) =
            {row \in Instances : <<x>> # <<>> => \E i \in 1 .. Len(<<x>>) : row \in a[<<x>>[i]]}
  <2> DEFINE D == DOMAIN a
             t == <<x>>
  <2>1. t \in Seq(D)
    BY <1>8
  <2> HIDE DEF D, t
  <2>2. ClauseSelects(t, a, D)
    BY <2>1, ClauseIs
  <2> QED
    BY <2>2, Zenon DEF D, t, ClauseSelects
<1> HIDE DEF o
<1>10. o \in DOMAIN b /\ b[o] = SelectedBy(o, a)
  BY <1>7, <1>9
<1>11. b[x] \subseteq Instances
  BY <1>2, <1>3, <1>7 DEF SelectedBy
<1>12. b[o] = b[x]
  <2>1. <<x>> # <<>> /\ Len(<<x>>) = 1 /\ <<x>>[1] = x /\ 1 .. 1 = {1}
    OBVIOUS
  <2>2. a[x] = b[x]
    BY <1>2, <1>3
  <2> QED
    BY <1>9, <1>10, <1>11, <2>1, <2>2
<1>13. w \in DOMAIN b /\ x \in DOMAIN b
  BY <1>2, <1>3
<1>14. c[w] = b[w] /\ c[x] = b[x]
  BY <1>4, <1>13
<1>15. c[Add(w, x)] = c[w] \cap c[x] /\ c[Add(w, o)] = c[w] \cap c[x]
  BY <1>6, <1>10, <1>12, <1>13, <1>14
<1>16. /\ Selected(ConstrainWhere(w, x)) = Selected(w) \cap Selected(x)
       /\ Selected(ConstrainFilter(w, x)) = Selected(w) \cap Selected(x)
       /\ Selected(ConstrainWhereOr(w, <<x>>)) = Selected(w) \cap Selected(x)
  BY <1>5, <1>15, Zenon DEF ConstrainWhere, ConstrainFilter, ConstrainWhereOr, o
<1> QED
  BY <1>16 DEF ConstraintAlwaysHolds

\* Data is given the key of the relation, or is refused.
LEMMA DataConstrained ==
    ASSUME NEW data \in PropFunctions(Values), NEW key \in PropFunctions(Values)
    PROVE  DataCarriesConstraint(data, key)
<1> DEFINE written == ConstrainDataObject(data, key)
           throws == ConstrainDataThrows(data, key)
           agrees(row) == /\ \A p \in DOMAIN key : row[p] = key[p]
                          /\ \A p \in DOMAIN data : row[p] = data[p]
<1>1. PICK d : data \in [d -> Values]
  BY DEF PropFunctions
<1>2. PICK e : key \in [e -> Values]
  BY DEF PropFunctions
<1>3. written = [p \in d \cup e |-> IF p \in d THEN data[p] ELSE key[p]]
  BY <1>1, <1>2 DEF ConstrainDataObject
<1>4. throws <=> \E p \in e \cap d : data[p] # key[p]
  BY <1>1, <1>2 DEF ConstrainDataThrows
<1> HIDE DEF written, throws
<1>5. written \in [d \cup e -> Values] /\ DOMAIN written = d \cup e
  BY <1>1, <1>2, <1>3
<1>6. ~throws => agrees(written)
  BY <1>1, <1>2, <1>3, <1>4
<1>7. throws => \A row : ~agrees(row)
  BY <1>1, <1>2, <1>4
<1>8. throws = ~\E row \in [DOMAIN written -> Values] : agrees(row)
  <2>1. throws \in BOOLEAN
    BY DEF throws, ConstrainDataThrows
  <2> HIDE DEF agrees
  <2> QED
    BY <1>5, <1>6, <1>7, <2>1
<1> QED
  BY <1>6, <1>8, Zenon DEF DataCarriesConstraint, written, throws

\* What a relation asks the repository for is what the caller asks for of its instances, and
\* what it writes has its key: whatever clauses, properties and values there are.
THEOREM ConstraintsAreKept ==
    ASSUME subject = "constraints" => input \in ConstrainedCalls
    PROVE  ConstraintsHold
<1> SUFFICES ASSUME subject = "constraints"
             PROVE  /\ ConstraintAlwaysHolds(input.where, input.constraint)
                    /\ DataCarriesConstraint(input.data, input.key)
  BY Zenon DEF ConstraintsHold
<1>1. /\ input.where \in DOMAIN Selects[Nesting - 2]
      /\ input.constraint \in DOMAIN Selects[Nesting - 2]
      /\ input.data \in PropFunctions(Values) /\ input.key \in PropFunctions(Values)
  BY DEF ConstrainedCalls
<1> QED
  BY <1>1, ConstraintNarrows, DataConstrained, Zenon

---------------------------------------------------------------------------
(* Inclusion of relations *)

\* A query's limit keeps the first of what is found, at least one if there are some.
LimitedIs(l, r, limit, T) ==
    /\ l \in Seq(T)
    /\ \E rest \in Seq(T) : r = l \o rest
    /\ ToSet(l) \subseteq ToSet(r)
    /\ limit = 0 => l = r
    /\ limit > 0 => Len(l) <= limit
    /\ r # <<>> => l # <<>>

LEMMA LimitKeepsFirst ==
    ASSUME NEW T, NEW r \in Seq(T), NEW limit \in Nat
    PROVE  LimitedIs(Limited(r, limit), r, limit, T)
<1>0. Len(r) \in Nat
  OBVIOUS
<1>1. CASE limit = 0 \/ Len(r) <= limit
  <2>1. Limited(r, limit) = r
    BY <1>1 DEF Limited
  <2>2. r = r \o <<>> /\ <<>> \in Seq(T)
    OBVIOUS
  <2>3. limit > 0 => Len(r) <= limit
    BY <1>0, <1>1
  <2> QED
    BY <2>1, <2>2, <2>3, Zenon DEF LimitedIs
<1>2. CASE limit # 0 /\ limit < Len(r)
  <2> DEFINE l == SubSeq(r, 1, limit)
             rest == SubSeq(r, limit + 1, Len(r))
  <2>1. Limited(r, limit) = l
    BY <1>0, <1>2 DEF Limited
  <2>2. l \in Seq(T) /\ rest \in Seq(T) /\ Len(l) = limit /\ r = l \o rest
    <3>1. limit \in 0 .. Len(r)
      BY <1>0, <1>2
    <3> QED
      BY <3>1, CutAt, Zenon
  <2> HIDE DEF l, rest
  <2>3. ToSet(l \o rest) = ToSet(l) \cup ToSet(rest)
    BY <2>2, ConcatOnce
  <2>4. l # <<>>
    BY <1>2, <2>2
  <2> QED
    <3>1. ToSet(l) \subseteq ToSet(r)
      BY <2>2, <2>3
    <3> QED
      BY <1>2, <2>1, <2>2, <2>4, <3>1 DEF LimitedIs
<1> QED
  BY <1>0, <1>1, <1>2

Keyed(T, K) == {row \in T : row.key \in K}

\* The rows with some keys, and those of them with one key.
LEMMA RowsWithKeys ==
    ASSUME NEW T, NEW K, NEW entries \in Seq(T)
    PROVE  /\ WithKeys(entries, K) = Within(entries, Keyed(T, K))
           /\ WithKeys(entries, K) \in Seq(T)
           /\ ToSet(WithKeys(entries, K)) = {row \in ToSet(entries) : row.key \in K}
<1> DEFINE S == {row \in ToSet(entries) : row.key \in K}
<1>1. ToSet(entries) \subseteq T
  BY DEF ToSet
<1>2. WithKeys(entries, K) = Within(entries, S)
  BY DEF WithKeys
<1>3. \A x \in ToSet(entries) : x \in S <=> x \in Keyed(T, K)
  BY <1>1 DEF Keyed
<1>4. S \subseteq ToSet(entries)
  OBVIOUS
<1> HIDE DEF S
<1>5. Within(entries, S) = Within(entries, Keyed(T, K))
  BY <1>3, WithinSame
<1>6. Within(entries, S) \in Seq(T)
  BY WithinType
<1>7. ToSet(Within(entries, S)) = S
  <2>1. ToSet(Within(entries, S)) = ToSet(entries) \cap S
    BY WithinElements, Zenon
  <2> QED
    BY <1>4, <2>1
<1> QED
  BY <1>2, <1>5, <1>6, <1>7 DEF S

LEMMA OwnOfSome ==
    ASSUME NEW T, NEW K, NEW k \in K, NEW entries \in Seq(T)
    PROVE  Own(WithKeys(entries, K), k) = Own(entries, k)
<1> DEFINE w == WithKeys(entries, K)
           A == Keyed(T, K)
           B == Keyed(T, {k})
<1>1. w = Within(entries, A) /\ w \in Seq(T)
  BY RowsWithKeys
<1>2. WithKeys(entries, {k}) = Within(entries, B)
  BY RowsWithKeys
<1>3. WithKeys(w, {k}) = Within(w, B)
  <2> HIDE DEF w, B
  <2> QED
    BY <1>1, RowsWithKeys DEF B
<1>4. A \cap B = B
  BY DEF Keyed
<1> HIDE DEF w, A, B
<1>5. Within(w, B) = Within(entries, B)
  BY <1>1, <1>4, WithinTwice
<1> QED
  BY <1>2, <1>3, <1>5, Zenon DEF Own, w

\* A query finds all rows with its keys, or the first of them.
LEMMA FoundAtOnce ==
    ASSUME NEW table, NEW ks, NEW scope, NEW throughInclude,
           throughInclude \/ scope.limit = 0 \/ scope.totalLimit > 0
    PROVE  FindByForeignKeys(table, ks, scope, throughInclude) =
              Limited(WithKeys(table, ToSet(ks)),
                      IF scope.totalLimit > 0 THEN scope.totalLimit ELSE scope.limit)
BY DEF FindByForeignKeys, Query

\* Or there is a query for each key.
LEMMA FoundForEach ==
    ASSUME NEW table, NEW ks, NEW scope \in Scopes, scope.limit # 0, scope.totalLimit = 0
    PROVE  FindByForeignKeys(table, ks, scope, FALSE) =
              FlattenSeq([i \in 1 .. Len(ks) |-> Limited(Own(table, ks[i]), scope.limit)])
<1>1. \A x : ToSet(<<x>>) = {x}
  BY DEF ToSet
<1>2. ~(scope.totalLimit > 0)
  BY DEF Scopes
<1>3. \A i : Query(table, <<ks[i]>>, scope.limit) = Limited(Own(table, ks[i]), scope.limit)
  BY <1>1 DEF Query, Own
<1> QED
  BY <1>2, <1>3 DEF FindByForeignKeys

\* The parts of what is found by a query for each key.
Parts(ss, table, ks, limit, T) ==
    /\ ss \in Seq(Seq(T)) /\ Len(ss) = Len(ks)
    /\ \A i \in 1 .. Len(ks) :
          /\ ss[i] = Limited(Own(table, ks[i]), limit)
          /\ ToSet(ss[i]) \subseteq {row \in ToSet(table) : row.key = ks[i]}
          /\ Own(table, ks[i]) # <<>> => ss[i] # <<>>

LEMMA PartsFound ==
    ASSUME NEW T, NEW K, NEW table \in Seq(T), NEW ks \in Seq(K), NEW limit \in Nat
    PROVE  Parts([i \in 1 .. Len(ks) |-> Limited(Own(table, ks[i]), limit)], table, ks, limit, T)
<1> DEFINE ss == [i \in 1 .. Len(ks) |-> Limited(Own(table, ks[i]), limit)]
<1>1. ASSUME NEW i \in 1 .. Len(ks)
      PROVE  /\ ss[i] = Limited(Own(table, ks[i]), limit) /\ ss[i] \in Seq(T)
             /\ ToSet(ss[i]) \subseteq {row \in ToSet(table) : row.key = ks[i]}
             /\ Own(table, ks[i]) # <<>> => ss[i] # <<>>
  <2> DEFINE own == Own(table, ks[i])
  <2>1. own \in Seq(T) /\ ToSet(own) = {row \in ToSet(table) : row.key \in {ks[i]}}
    BY RowsWithKeys DEF Own
  <2>2. ss[i] = Limited(own, limit)
    OBVIOUS
  <2> HIDE DEF ss, own
  <2>3. LimitedIs(ss[i], own, limit, T)
    BY <2>1, <2>2, LimitKeepsFirst
  <2> QED
    BY <2>1, <2>2, <2>3 DEF LimitedIs, own
<1>2. Len(ks) \in Nat
  OBVIOUS
<1>3. ss \in Seq(Seq(T)) /\ Len(ss) = Len(ks)
  BY <1>1, <1>2
<1> HIDE DEF ss
<1>4. Parts(ss, table, ks, limit, T)
  BY <1>1, <1>3 DEF Parts
<1> QED
  BY <1>4 DEF ss

\* Without a total limit rows are found for every key that has some.
FindsOwn(found, table, ks, T) ==
    /\ found \in Seq(T)
    /\ ToSet(found) \subseteq {row \in ToSet(table) : row.key \in ToSet(ks)}
    /\ \A k \in ToSet(ks) : Own(table, k) # <<>> => Own(found, k) # <<>>

LEMMA FoundOwn ==
    ASSUME NEW T, NEW K, NEW table \in Seq(T), NEW ks \in Seq(K),
           NEW scope \in Scopes, scope.totalLimit = 0
    PROVE  FindsOwn(FindByForeignKeys(table, ks, scope, FALSE), table, ks, T)
<1> DEFINE found == FindByForeignKeys(table, ks, scope, FALSE)
<1>0. scope.limit \in Nat /\ scope.totalLimit \in Nat
  BY DEF Scopes
<1>1. CASE scope.limit = 0
  <2> DEFINE w == WithKeys(table, ToSet(ks))
  <2>1. w \in Seq(T) /\ ToSet(w) = {row \in ToSet(table) : row.key \in ToSet(ks)}
    BY RowsWithKeys
  <2>2. found = Limited(w, 0)
    BY <1>0, <1>1, FoundAtOnce
  <2>3. Limited(w, 0) = w
    BY DEF Limited
  <2>4. \A k \in ToSet(ks) : Own(w, k) = Own(table, k)
    BY OwnOfSome
  <2> HIDE DEF w, found
  <2> QED
    BY <2>1, <2>2, <2>3, <2>4 DEF FindsOwn, found
<1>2. CASE scope.limit # 0
  <2> DEFINE ss == [i \in 1 .. Len(ks) |-> Limited(Own(table, ks[i]), scope.limit)]
  <2>1. found = FlattenSeq(ss)
    BY <1>2, FoundForEach
  <2>2. Parts(ss, table, ks, scope.limit, T)
    BY <1>0, PartsFound
  <2> HIDE DEF ss, found
  <2>3. ss \in Seq(Seq(T)) /\ Len(ss) = Len(ks)
    BY <2>2 DEF Parts
  <2>4. found \in Seq(T)
    BY <2>1, <2>3, FlattenAppend
  <2>5. ToSet(found) = UNION {ToSet(ss[i]) : i \in 1 .. Len(ss)}
    BY <2>1, <2>3, FlattenElements
  <2>6. ToSet(ks) = {ks[i] : i \in 1 .. Len(ks)}
    BY DEF ToSet
  <2>7. ASSUME NEW row \in ToSet(found) PROVE row \in ToSet(table) /\ row.key \in ToSet(ks)
    <3>1. PICK i \in 1 .. Len(ks) : row \in ToSet(ss[i])
      BY <2>3, <2>5
    <3>2. row \in ToSet(table) /\ row.key = ks[i]
      BY <2>2, <3>1 DEF Parts
    <3> QED
      BY <2>6, <3>2
  <2>8. ASSUME NEW k \in ToSet(ks), Own(table, k) # <<>> PROVE Own(found, k) # <<>>
    <3>1. PICK i \in 1 .. Len(ks) : ks[i] = k
      BY <2>6
    <3>2. ss[i] # <<>> /\ ToSet(ss[i]) \subseteq {row \in ToSet(table) : row.key = k}
      BY <2>2, <2>8, <3>1 DEF Parts
    <3>3. ss[i] \in Seq(T)
      BY <2>3
    <3>4. PICK row : row \in ToSet(ss[i])
      <4>1. 1 \in DOMAIN ss[i]
        BY <3>2, <3>3
      <4> QED
        BY <4>1 DEF ToSet
    <3>5. row \in ToSet(found) /\ row.key = k
      BY <2>3, <2>5, <3>2, <3>4
    <3>6. ToSet(Own(found, k)) = {r \in ToSet(found) : r.key \in {k}}
      BY <2>4, RowsWithKeys DEF Own
    <3>7. ToSet(<<>>) = {}
      BY DEF ToSet
    <3> QED
      BY <3>5, <3>6, <3>7
  <2>9. FindsOwn(found, table, ks, T)
    BY <2>4, <2>7, <2>8 DEF FindsOwn
  <2> QED
    BY <2>9 DEF found
<1> QED
  BY <1>1, <1>2

\* For a key the last row found: one of its own, if it was asked for and there is one.
Target(found, k) ==
    LET own == WithKeys(found, {k}) IN IF own = <<>> THEN Nothing ELSE own[Len(own)]

LEMMA TargetFound ==
    ASSUME NEW T, NEW found, NEW table \in Seq(T), NEW wanted, NEW k,
           FindsOwn(found, table, wanted, T)
    PROVE  IF k \notin ToSet(wanted) \/ Own(table, k) = <<>>
           THEN Target(found, k) = Nothing
           ELSE Target(found, k) \in ToSet(Own(table, k))
<1> DEFINE own == WithKeys(found, {k})
           all == WithKeys(table, {k})
<1>1. /\ found \in Seq(T)
      /\ ToSet(found) \subseteq {row \in ToSet(table) : row.key \in ToSet(wanted)}
      /\ k \in ToSet(wanted) /\ all # <<>> => own # <<>>
  BY DEF FindsOwn, Own
<1>2. own \in Seq(T) /\ ToSet(own) = {row \in ToSet(found) : row.key \in {k}}
  BY <1>1, RowsWithKeys
<1>3. all \in Seq(T) /\ ToSet(all) = {row \in ToSet(table) : row.key \in {k}}
  BY RowsWithKeys
<1>4. Target(found, k) = IF own = <<>> THEN Nothing ELSE own[Len(own)]
  BY DEF Target
<1> HIDE DEF own, all
<1>5. own # <<>> => own[Len(own)] \in ToSet(own)
  BY <1>2 DEF ToSet
<1>6. all = <<>> => ToSet(all) = {}
  BY DEF ToSet
<1>7. own # <<>> => k \in ToSet(wanted) /\ all # <<>> /\ own[Len(own)] \in ToSet(all)
  BY <1>1, <1>2, <1>3, <1>5, <1>6
<1> QED
  BY <1>1, <1>4, <1>7 DEF Own, all

LEMMA FlattenOneIs ==
    ASSUME NEW K, NEW ks \in Seq(K), NEW found
    PROVE  /\ FlattenOne(ks, found) = [i \in 1 .. Len(ks) |-> Target(found, ks[i])]
           /\ Len(FlattenOne(ks, found)) = Len(ks)
<1>1. FlattenOne(ks, found) = [i \in 1 .. Len(ks) |-> Target(found, ks[i])]
  BY DEF FlattenOne, Target
<1>2. Len(ks) \in Nat
  OBVIOUS
<1> QED
  BY <1>1, <1>2

LEMMA KeysAre ==
    ASSUME NEW K, NEW T, NEW entities \in Seq(T), \A e \in T : e.key \in K
    PROVE  /\ KeysOf(entities) \in Seq(K) /\ Len(KeysOf(entities)) = Len(entities)
           /\ \A i \in 1 .. Len(entities) : KeysOf(entities)[i] = entities[i].key
<1>1. Len(entities) \in Nat /\ \A i \in 1 .. Len(entities) : entities[i].key \in K
  OBVIOUS
<1> QED
  BY <1>1 DEF KeysOf

\* No row is the one that stands for none.
NoneIn(T) == Nothing \notin T /\ \A r \in Seq(T) : r # NoList

LEMMA NothingMissing ==
    ASSUME NEW T, Nothing \notin T
    PROVE  NoneIn(T)
<1>1. ASSUME NEW r \in Seq(T), r = NoList PROVE FALSE
  <2>1. r = <<Nothing>>
    BY <1>1 DEF NoList
  <2>2. Len(r) = 1 /\ r[1] = Nothing
    BY <2>1
  <2> QED
    BY <2>2
<1> QED
  BY <1>1 DEF NoneIn

\* Each with the rows of the table that have its key, up to the limit.
LEMMA HasManyOwn ==
    ASSUME NEW K, NEW T, NEW E, NEW entities \in Seq(E), \A e \in E : e.key \in K,
           NEW table \in Seq(T), NEW scope \in Scopes
    PROVE  HasManyGetsOwn(entities, table, scope)
<1> DEFINE ks == KeysOf(entities)
           found == FindByForeignKeys(table, ks, scope, FALSE)
           limit == scope.limit
           own(i) == Own(table, ks[i])
<1> SUFFICES ASSUME scope.totalLimit = 0, scope.limit = 0 \/ DistinctKeys(entities),
                    NEW i \in 1 .. Len(entities)
             PROVE  HasMany(entities, table, scope)[i] =
                       IF Limited(own(i), limit) = <<>> THEN NoList ELSE Limited(own(i), limit)
  <2>1. \A i \in 1 .. Len(entities) : ks[i] = entities[i].key
    BY DEF KeysOf
  <2> HIDE DEF ks
  <2> QED
    BY <2>1 DEF HasManyGetsOwn
<1>1. ks \in Seq(K) /\ Len(ks) = Len(entities)
  BY KeysAre
<1>2. HasMany(entities, table, scope)[i] =
         IF WithKeys(found, {ks[i]}) = <<>> THEN NoList ELSE WithKeys(found, {ks[i]})
  <2> HIDE DEF ks, found
  <2> QED
    BY <1>1 DEF HasMany, FlattenMany, ks, found
<1>3. limit \in Nat
  BY DEF Scopes
<1>4. ASSUME limit = 0 PROVE WithKeys(found, {ks[i]}) = Limited(own(i), limit)
  <2> DEFINE w == WithKeys(table, ToSet(ks))
  <2> HIDE DEF ks
  <2>1. found = Limited(w, 0)
    BY <1>4, FoundAtOnce
  <2>2. Limited(w, 0) = w /\ Limited(own(i), limit) = own(i)
    BY <1>4 DEF Limited
  <2>3. ks[i] \in ToSet(ks)
    BY <1>1 DEF ToSet
  <2>4. Own(w, ks[i]) = Own(table, ks[i])
    BY <2>3, OwnOfSome
  <2> HIDE DEF w, found
  <2> QED
    BY <2>1, <2>2, <2>4 DEF Own
<1>5. ASSUME limit # 0 PROVE WithKeys(found, {ks[i]}) = Limited(own(i), limit)
  <2> DEFINE ss == [j \in 1 .. Len(ks) |-> Limited(Own(table, ks[j]), limit)]
             S == Keyed(T, {ks[i]})
  <2>1. \A j \in 1 .. Len(ks) : j # i => ks[j] # ks[i]
    BY <1>1, <1>5 DEF DistinctKeys, IsInjective
  <2> HIDE DEF ks
  <2>2. found = FlattenSeq(ss)
    BY <1>5, FoundForEach
  <2>3. Parts(ss, table, ks, limit, T)
    BY <1>1, <1>3, PartsFound
  <2> HIDE DEF ss, found
  <2>4. ss \in Seq(Seq(T)) /\ Len(ss) = Len(ks)
    BY <2>3 DEF Parts
  <2>5. ASSUME NEW j \in 1 .. Len(ks)
        PROVE  /\ ToSet(ss[j]) \subseteq T /\ ss[j] \in Seq(T)
               /\ \A row \in ToSet(ss[j]) : row.key = ks[j]
    <3>1. ss[j] \in Seq(T)
      BY <2>4
    <3>2. ToSet(ss[j]) \subseteq T
      BY <3>1 DEF ToSet
    <3>3. \A row \in ToSet(ss[j]) : row.key = ks[j]
      BY <2>3 DEF Parts
    <3> QED
      BY <3>1, <3>2, <3>3
  <2>6. \A j \in 1 .. Len(ks) : j # i => ToSet(ss[j]) \cap S = {}
    BY <2>1, <2>5 DEF Keyed
  <2>7. ToSet(ss[i]) \subseteq S
    BY <1>1, <2>5 DEF Keyed
  <2> HIDE DEF S
  <2>8. \A j \in 1 .. Len(ss) : j # i => Within(ss[j], S) = <<>>
    BY <2>4, <2>5, <2>6, WithinAll
  <2>9. Within(ss[i], S) = ss[i]
    BY <1>1, <2>5, <2>7, WithinAll
  <2>10. Within(found, S) = Within(ss[i], S)
    BY <1>1, <2>2, <2>4, <2>8, FlattenWithin
  <2>11. found \in Seq(T)
    BY <2>2, <2>4, FlattenAppend
  <2>12. WithKeys(found, {ks[i]}) = Within(found, S)
    BY <2>11, RowsWithKeys DEF S
  <2> QED
    BY <1>1, <2>3, <2>9, <2>10, <2>12 DEF Parts
<1> QED
  BY <1>2, <1>4, <1>5

\* What they get within a total limit.
LEMMA TotalLimitKept ==
    ASSUME NEW K, NEW T, NoneIn(T), NEW E, NEW entities \in Seq(E), \A e \in E : e.key \in K,
           NEW table \in Seq(T), NEW scope \in Scopes
    PROVE  TotalLimitHolds(entities, table, scope)
<1> DEFINE ks == KeysOf(entities)
           n == Len(entities)
           all == WithKeys(table, ToSet(ks))
           found == FindByForeignKeys(table, ks, scope, FALSE)
           got == HasMany(entities, table, scope)
           R == ToSet(got) \ {NoList}
           given == Within(got, R)
<1> SUFFICES ASSUME scope.totalLimit > 0, DistinctKeys(entities)
             PROVE  /\ Len(FlattenSeq(given)) <= scope.totalLimit
                    /\ \A i \in 1 .. n : got[i] # NoList =>
                           IsPrefix(got[i], Own(table, entities[i].key))
  BY Zenon DEF TotalLimitHolds
<1>1. ks \in Seq(K) /\ Len(ks) = n /\ n \in Nat /\ \A i \in 1 .. n : ks[i] = entities[i].key
  <2>1. Len(entities) \in Nat
    OBVIOUS
  <2> QED
    BY <2>1, KeysAre, Zenon
<1>2. \A i \in 1 .. n, j \in 1 .. n : ks[i] = ks[j] => i = j
  BY <1>1 DEF DistinctKeys, IsInjective
<1>3. scope.totalLimit \in Nat
  BY DEF Scopes
<1> HIDE DEF ks
<1>4. found = Limited(all, scope.totalLimit)
  BY FoundAtOnce
<1>5. all \in Seq(T)
  BY RowsWithKeys
<1>6. LimitedIs(found, all, scope.totalLimit, T)
  <2> HIDE DEF all, found
  <2> QED
    BY <1>3, <1>4, <1>5, LimitKeepsFirst
<1>7. found \in Seq(T) /\ Len(found) <= scope.totalLimit
  BY <1>6 DEF LimitedIs
<1>8. PICK rest \in Seq(T) : all = found \o rest
  BY <1>6, Zenon DEF LimitedIs
<1> DEFINE S(i) == Keyed(T, {ks[i]})
           own(i) == Within(found, S(i))
<1>9. \A i \in 1 .. n : WithKeys(found, {ks[i]}) = own(i) /\ own(i) \in Seq(T)
  <2> HIDE DEF found
  <2> QED
    BY <1>7, RowsWithKeys
<1>10. /\ got \in [1 .. n -> Seq(T) \cup {NoList}]
       /\ \A i \in 1 .. n : got[i] = IF own(i) = <<>> THEN NoList ELSE own(i)
  <2>1. got = FlattenMany(ks, found)
    BY DEF HasMany, ks
  <2> HIDE DEF found, got, own
  <2>2. \A i \in 1 .. n : WithKeys(found, {ks[i]}) = own(i) /\ own(i) \in Seq(T)
    BY <1>9 DEF own
  <2>3. got = [i \in 1 .. n |-> IF own(i) = <<>> THEN NoList ELSE own(i)]
    BY <1>1, <2>1, <2>2 DEF FlattenMany
  <2> QED
    BY <2>2, <2>3
<1> HIDE DEF found, got
<1>11. ASSUME NEW i \in 1 .. n, got[i] # NoList
       PROVE  IsPrefix(got[i], Own(table, entities[i].key))
  <2>1. got[i] = own(i)
    BY <1>10, <1>11
  <2>2. Own(all, ks[i]) = Own(table, ks[i])
    <3>1. ks[i] \in ToSet(ks)
      BY <1>1 DEF ToSet
    <3> QED
      BY <3>1, OwnOfSome
  <2> HIDE DEF all
  <2>3. Own(all, ks[i]) = Within(all, S(i))
    BY <1>5, RowsWithKeys DEF Own
  <2> DEFINE u == own(i)
             v == Within(rest, S(i))
  <2>4. Within(all, S(i)) = u \o v /\ u \in Seq(T) /\ v \in Seq(T)
    <3> HIDE DEF S
    <3> QED
      BY <1>7, <1>8, WithinConcat, WithinType
  <2> HIDE DEF u, v
  <2>5. Len(u) \in 0 .. Len(u \o v) /\ SubSeq(u \o v, 1, Len(u)) = u /\ SubSeq(u, 1, Len(u)) = u
    BY <2>4, FirstPart
  <2>6. IsPrefix(u, u \o v)
    BY <2>4, <2>5 DEF IsPrefix
  <2> QED
    BY <1>1, <2>1, <2>2, <2>3, <2>4, <2>6, Zenon DEF u
\* The rows of the first m, together, are as many as the rows found with their keys.
<1> DEFINE first(m) == Keyed(T, {ks[i] : i \in 1 .. m})
           part(m) == Within(SubSeq(got, 1, m), R)
           G == {m \in Nat : m <= n =>
                    /\ part(m) \in Seq(Seq(T))
                    /\ Len(FlattenSeq(part(m))) = Len(Within(found, first(m)))}
<1>12. R \subseteq Seq(T)
  <2>1. DOMAIN got = 1 .. n /\ \A i \in 1 .. n : got[i] \in Seq(T) \cup {NoList}
    BY <1>10
  <2> QED
    BY <2>1 DEF ToSet
<1>13. got \in Seq(Seq(T) \cup {NoList}) /\ Len(got) = n
  <2> DEFINE V == Seq(T) \cup {NoList}
  <2>1. n \in Nat /\ got \in [1 .. n -> V]
    BY <1>1, <1>10
  <2> HIDE DEF V, n
  <2>2. got \in Seq(V) /\ Len(got) = n
    BY <2>1
  <2> QED
    BY <2>2 DEF V
<1>14. 0 \in G
  <2>1. SubSeq(got, 1, 0) = <<>>
    BY <1>13
  <2>2. part(0) = <<>>
    <3>1. <<>> \in Seq(T)
      OBVIOUS
    <3> QED
      BY <2>1, <3>1, WithinType, Zenon
  <2>3. FlattenSeq(part(0)) = <<>>
    BY <2>2, NothingFlattened, Zenon
  <2>4. ToSet(found) \cap first(0) = {}
    BY DEF Keyed
  <2> HIDE DEF first, part
  <2>5. Within(found, first(0)) = <<>>
    BY <1>7, <2>4, WithinAll
  <2>6. <<>> \in Seq(Seq(T))
    OBVIOUS
  <2> QED
    BY <2>2, <2>3, <2>5, <2>6
<1>15. ASSUME NEW m \in Nat, m \in G PROVE m + 1 \in G
  <2> SUFFICES ASSUME m + 1 <= n
               PROVE  /\ part(m + 1) \in Seq(Seq(T))
                      /\ Len(FlattenSeq(part(m + 1))) = Len(Within(found, first(m + 1)))
    OBVIOUS
  <2> DEFINE i == m + 1
             U == Seq(T) \cup {NoList}
             a == SubSeq(got, 1, m)
             p == part(m)
             A == first(m)
             B == S(i)
  <2>1. i \in 1 .. n /\ m <= n
    BY <1>1
  <2>2. a \in Seq(U) /\ SubSeq(got, 1, i) = Append(a, got[i]) /\ got[i] \in U
    <3>0. got \in Seq(U) /\ m \in 0 .. Len(got) - 1 /\ i = m + 1
      BY <1>1, <1>13, <2>1
    <3>4. a \in Seq(U) /\ got[i] \in U
      BY <3>0
    <3> DEFINE b == SubSeq(got, 1, i)
               c == Append(a, got[i])
    <3>1. /\ b \in Seq(U) /\ Len(b) = m + 1 /\ \A j \in 1 .. m + 1 : b[j] = got[j]
      BY <3>0
    <3>5. Len(a) = m /\ \A j \in 1 .. m : a[j] = got[j]
      BY <3>0
    <3> HIDE DEF a, b, U
    <3>2. /\ c \in Seq(U) /\ Len(c) = m + 1 /\ \A j \in 1 .. m + 1 : c[j] = got[j]
      BY <3>0, <3>4, <3>5
    <3> HIDE DEF c
    <3>3. b = c
      BY <3>1, <3>2, SeqEqual
    <3> QED
      BY <3>3, <3>4 DEF b, c
  <2>3. part(i) = IF got[i] \in R THEN Append(p, got[i]) ELSE p
    <3> DEFINE x == got[i]
    <3> HIDE DEF x, a, R, U
    <3>2. x \in U /\ a \in Seq(U)
      BY <2>2 DEF x
    <3>1. Within(Append(a, x), R) = IF x \in R THEN Append(Within(a, R), x) ELSE Within(a, R)
      BY <3>2, WithinAppend
    <3> QED
      BY <2>2, <3>1, Zenon DEF x, a
  <2>4. p \in Seq(Seq(T)) /\ Len(FlattenSeq(p)) = Len(Within(found, A))
    BY <1>15, <2>1
  <2>5. first(i) = A \cup B
    <3>1. \A j : j \in 1 .. i <=> j \in 1 .. m \/ j = i
      BY <2>1
    <3> QED
      BY <3>1 DEF Keyed
  <2>6. A \cap B = {}
    BY <1>2, <2>1 DEF Keyed
  <2> HIDE DEF A, B, first, part, p, a, U
  <2>7. Len(Within(found, A \cup B)) = Len(Within(found, A)) + Len(Within(found, B))
    <3>1. Additive(found, A, B)
      BY <1>7, <2>6, WithinEither
    <3> QED
      BY <3>1, Zenon DEF Additive
  <2>8. own(i) = Within(found, B) /\ own(i) \in Seq(T)
    BY <1>9, <2>1 DEF B
  <2>9. got[i] = IF own(i) = <<>> THEN NoList ELSE own(i)
    BY <1>10, <2>1
  <2>10. got[i] \in R <=> own(i) # <<>>
    <3>1. own(i) # NoList
      BY <2>8 DEF NoneIn
    <3>2. got[i] \in ToSet(got)
      BY <1>13, <2>1 DEF ToSet
    <3> HIDE DEF own
    <3> QED
      BY <2>9, <3>1, <3>2
  <2> HIDE DEF own, R
  <2>11. CASE own(i) = <<>>
    <3>1. part(i) = p /\ Len(own(i)) = 0
      BY <2>3, <2>10, <2>11
    <3>2. Len(Within(found, A)) \in Nat
      BY <1>7, WithinType
    <3>3. Len(FlattenSeq(part(i))) = Len(Within(found, A)) /\ Len(Within(found, B)) = 0
      BY <2>4, <2>8, <3>1, Zenon
    <3>4. Len(Within(found, first(i))) = Len(Within(found, A)) + Len(Within(found, B))
      BY <2>5, <2>7, Zenon
    <3> QED
      BY <2>4, <3>1, <3>2, <3>3, <3>4
  <2>12. CASE own(i) # <<>>
    <3> DEFINE o == own(i)
               q == FlattenSeq(p)
    <3>1. part(i) = Append(p, o)
      BY <2>3, <2>9, <2>10, <2>12
    <3> HIDE DEF o
    <3>2. o \in Seq(T)
      BY <2>8 DEF o
    <3>3. q \in Seq(T) /\ FlattenSeq(Append(p, o)) = q \o o
      BY <2>4, <3>2, FlattenAppend
    <3> HIDE DEF q
    <3>4. Len(q \o o) = Len(q) + Len(o)
      BY <3>2, <3>3
    <3>5. Append(p, o) \in Seq(Seq(T))
      BY <2>4, <3>2
    <3>6. Len(q) = Len(Within(found, A)) /\ Len(o) = Len(Within(found, B))
      BY <2>4, <2>8 DEF q, o
    <3> QED
      BY <2>5, <2>7, <3>1, <3>3, <3>4, <3>5, <3>6, Zenon
  <2> QED
    BY <2>11, <2>12
<1>16. n \in G
  <2> HIDE DEF G
  <2> QED
    BY <1>1, <1>14, <1>15, Induction
<1>17. part(n) = given
  <2>1. SubSeq(got, 1, n) = got
    BY <1>13
  <2> QED
    BY <2>1, Zenon
<1>18. Len(FlattenSeq(given)) = Len(Within(found, first(n)))
  <2>1. n <= n
    BY <1>1
  <2> HIDE DEF part, first, given
  <2> QED
    BY <1>16, <1>17, <2>1
<1>19. Len(Within(found, first(n))) <= Len(found)
  <2> HIDE DEF first
  <2> QED
    BY <1>7, WithinElements
<1>20. Len(FlattenSeq(given)) <= scope.totalLimit
  <2>1. Len(found) \in Nat /\ Len(Within(found, first(n))) \in Nat
    <3> HIDE DEF first
    <3> QED
      BY <1>7, WithinType
  <2> HIDE DEF given, first
  <2> QED
    BY <1>3, <1>7, <1>18, <1>19, <2>1
<1> QED
  BY <1>11, <1>20

\* The entities of a type.
LEMMA TypedIs ==
    ASSUME NEW E, NEW es \in Seq(E), NEW t
    PROVE  OfType(es, t) = Within(es, {e \in E : e.type = t}) /\ OfType(es, t) \in Seq(E)
<1> DEFINE A == {e \in ToSet(es) : e.type = t}
           B == {e \in E : e.type = t}
<1>1. ToSet(es) \subseteq E
  BY DEF ToSet
<1>2. \A x \in ToSet(es) : x \in A <=> x \in B
  BY <1>1
<1>3. OfType(es, t) = Within(es, A)
  BY DEF OfType
<1> HIDE DEF A, B
<1>4. Within(es, A) = Within(es, B)
  BY <1>2, WithinSame
<1>5. Within(es, A) \in Seq(E)
  BY WithinType
<1> QED
  BY <1>3, <1>4, <1>5 DEF B

LEMMA PlacedByType ==
    ASSUME NEW E, NEW es \in Seq(E), NEW i \in 1 .. Len(es)
    PROVE  /\ PlaceInType(es, i) \in 1 .. Len(OfType(es, es[i].type))
           /\ OfType(es, es[i].type)[PlaceInType(es, i)] = es[i]
<1> DEFINE t == es[i].type
           S == {e \in E : e.type = t}
           a == SubSeq(es, 1, i)
<1>1. a \in Seq(E)
  OBVIOUS
<1>2. es[i] \in S
  OBVIOUS
<1> HIDE DEF a
<1>3. OfType(es, t) = Within(es, S) /\ OfType(a, t) = Within(a, S)
  BY <1>1, TypedIs, Zenon
<1>4. PlaceInType(es, i) = Len(Within(a, S))
  BY <1>3, Zenon DEF PlaceInType, a
<1> HIDE DEF S, t
<1>5. /\ Len(Within(a, S)) \in 1 .. Len(Within(es, S))
      /\ Within(es, S)[Len(Within(a, S))] = es[i]
  BY <1>2, PlaceWithin, Zenon DEF a
<1> QED
  BY <1>3, <1>4, <1>5, Zenon DEF t

\* The keys that are asked for are all that are true for JavaScript.
LEMMA AskedIs ==
    ASSUME NEW K, NEW ks \in Seq(K)
    PROVE  /\ Asked(ks) \in Seq(K)
           /\ \A k : k \in ToSet(Asked(ks)) <=> k \in ToSet(ks) /\ Truthy(k)
<1> DEFINE d == Distinct(ks)
           S == {k \in ToSet(ks) : Truthy(k)}
<1>1. d \in Seq(K) /\ ToSet(d) = ToSet(ks)
  BY DistinctIs
<1>2. Asked(ks) = Within(d, S)
  BY DEF Asked, Deduplicate
<1>3. \A k : k \in S <=> k \in ToSet(ks) /\ Truthy(k)
  OBVIOUS
<1> HIDE DEF d, S
<1>4. Within(d, S) \in Seq(K) /\ ToSet(Within(d, S)) = ToSet(d) \cap S
  BY <1>1, WithinType, WithinElements, Zenon
<1> QED
  BY <1>1, <1>2, <1>3, <1>4

\* What an entity is given of the targets of its type: that of its key.
LEMMA MergedTarget ==
    ASSUME NEW E, NEW entities \in Seq(E), NEW i \in 1 .. Len(entities), NEW lists, NEW found,
           lists[entities[i].type] = FlattenOne(KeysOf(OfType(entities, entities[i].type)), found)
    PROVE  /\ Merge(entities, lists)[i] = Target(found, entities[i].key)
           /\ entities[i].key \in ToSet(KeysOf(OfType(entities, entities[i].type)))
<1> DEFINE t == entities[i].type
           es == OfType(entities, t)
           p == PlaceInType(entities, i)
           ks == KeysOf(es)
           K == {e.key : e \in E}
<1>1. es \in Seq(E)
  BY TypedIs
<1>2. p \in 1 .. Len(es) /\ es[p] = entities[i]
  BY PlacedByType
<1>3. Merge(entities, lists)[i] = lists[t][p]
  BY DEF Merge
<1>4. lists[t] = FlattenOne(ks, found)
  OBVIOUS
<1>5. \A e \in E : e.key \in K
  OBVIOUS
<1> HIDE DEF t, es, p, ks, K
<1>6. ks \in Seq(K) /\ Len(ks) = Len(es) /\ ks[p] = entities[i].key
  <2>1. ks \in Seq(K) /\ Len(ks) = Len(es) /\ \A j \in 1 .. Len(es) : ks[j] = es[j].key
    BY <1>1, <1>5, KeysAre DEF ks
  <2> QED
    BY <1>2, <2>1
<1>7. FlattenOne(ks, found)[p] = Target(found, ks[p])
  BY <1>2, <1>6, FlattenOneIs
<1>8. ks[p] \in ToSet(ks)
  BY <1>2, <1>6 DEF ToSet
<1> QED
  BY <1>3, <1>4, <1>6, <1>7, <1>8 DEF ks, es, t

LEMMA HasOneOwn ==
    ASSUME NEW K, NEW types, NEW T, NEW entities \in Seq([key : K, type : types]),
           NEW tables \in [types -> Seq(T)], NEW scope \in Scopes
    PROVE  HasOneGetsOwn(entities, tables, scope)
<1> DEFINE E == [key : K, type : types]
           keys(t) == KeysOf(OfType(entities, t))
           found(t) == FindByForeignKeys(tables[t], keys(t), scope, FALSE)
           lists == [t \in TypesOf(entities) |-> FlattenOne(keys(t), found(t))]
<1> SUFFICES ASSUME scope.totalLimit = 0, NEW i \in 1 .. Len(entities)
             PROVE  IF Own(tables[entities[i].type], entities[i].key) = <<>>
                    THEN HasOne(entities, tables, scope)[i] = Nothing
                    ELSE HasOne(entities, tables, scope)[i] \in
                            ToSet(Own(tables[entities[i].type], entities[i].key))
  BY DEF HasOneGetsOwn
<1>1. HasOne(entities, tables, scope) = Merge(entities, lists)
  BY DEF HasOne
<1> DEFINE t == entities[i].type
           k == entities[i].key
           table == tables[t]
           ks == keys(t)
           f == found(t)
<1>2. t \in types /\ k \in K /\ table \in Seq(T) /\ t \in TypesOf(entities)
  <2>1. entities[i] \in E /\ entities[i] \in ToSet(entities)
    BY ElementOf, Zenon
  <2> QED
    BY <2>1 DEF TypesOf
<1>3. lists[t] = FlattenOne(ks, f)
  BY <1>2
<1>4. ks \in Seq(K)
  <2>1. \A e \in E : e.key \in K
    OBVIOUS
  <2>2. OfType(entities, t) \in Seq(E)
    BY TypedIs
  <2> HIDE DEF E
  <2> QED
    BY <2>1, <2>2, KeysAre
<1> HIDE DEF lists, f
<1>5. Merge(entities, lists)[i] = Target(f, k) /\ k \in ToSet(ks)
  BY <1>3, MergedTarget
<1> HIDE DEF t, k, table, ks
<1>6. FindsOwn(f, table, ks, T)
  BY <1>2, <1>4, FoundOwn DEF f, t, table, ks
<1>7. IF k \notin ToSet(ks) \/ Own(table, k) = <<>>
      THEN Target(f, k) = Nothing
      ELSE Target(f, k) \in ToSet(Own(table, k))
  BY <1>2, <1>6, TargetFound
<1> QED
  BY <1>1, <1>5, <1>7 DEF t, k, table

\* Where no two rows have one key a key has at most one row.
LEMMA OneOfEachKey ==
    ASSUME NEW T, NEW table \in Seq(T), IsInjective(KeysOf(table)), NEW k,
           NEW row \in ToSet(Own(table, k))
    PROVE  Own(table, k) # <<>> /\ row = Own(table, k)[1]
<1> DEFINE own == Own(table, k)
<1>1. own \in Seq(T) /\ ToSet(own) = {r \in ToSet(table) : r.key \in {k}}
  BY RowsWithKeys DEF Own
<1>2. own # <<>>
  <2>1. ToSet(<<>>) = {}
    BY DEF ToSet
  <2> QED
    BY <2>1
<1> HIDE DEF own
<1>3. own[1] \in ToSet(own)
  BY <1>1, <1>2 DEF ToSet
<1>4. PICK i \in DOMAIN table : table[i] = row
  BY <1>1 DEF ToSet, own
<1>5. PICK j \in DOMAIN table : table[j] = own[1]
  BY <1>1, <1>3 DEF ToSet
<1>6. DOMAIN KeysOf(table) = DOMAIN table /\ KeysOf(table)[i] = k /\ KeysOf(table)[j] = k
  <2>1. DOMAIN table = 1 .. Len(table)
    OBVIOUS
  <2>2. row.key = k /\ own[1].key = k
    BY <1>1, <1>3 DEF own
  <2> QED
    BY <1>4, <1>5, <2>1, <2>2 DEF KeysOf
<1>7. i = j
  BY <1>6 DEF IsInjective
<1> QED
  BY <1>2, <1>4, <1>5, <1>7 DEF own

LEMMA BelongsToOwn ==
    ASSUME NEW K, NEW types, NEW T, NEW entities \in Seq([key : K, type : types]),
           NEW tables \in [types -> Seq(T)], NEW scope \in Scopes
    PROVE  BelongsToGetsOwn(entities, tables, scope)
<1> DEFINE E == [key : K, type : types]
           keys(t) == KeysOf(OfType(entities, t))
           found(t) == FindByForeignKeys(tables[t], Asked(keys(t)), scope, FALSE)
           lists == [t \in TypesOf(entities) |-> FlattenOne(keys(t), found(t))]
<1> SUFFICES ASSUME scope.totalLimit = 0, \A t \in DOMAIN tables : IsInjective(KeysOf(tables[t])),
                    NEW i \in 1 .. Len(entities)
             PROVE  BelongsTo(entities, tables, scope)[i] =
                       IF \/ Own(tables[entities[i].type], entities[i].key) = <<>>
                          \/ ~Truthy(entities[i].key)
                       THEN Nothing ELSE Own(tables[entities[i].type], entities[i].key)[1]
  BY DEF BelongsToGetsOwn
<1>1. BelongsTo(entities, tables, scope) = Merge(entities, lists)
  BY DEF BelongsTo
<1> DEFINE t == entities[i].type
           k == entities[i].key
           table == tables[t]
           ks == keys(t)
           f == found(t)
<1>2. t \in types /\ k \in K /\ table \in Seq(T) /\ t \in TypesOf(entities)
      /\ IsInjective(KeysOf(table))
  <2>1. t \in types /\ k \in K /\ t \in TypesOf(entities)
    <3>1. entities[i] \in E /\ entities[i] \in ToSet(entities)
      BY ElementOf, Zenon
    <3> QED
      BY <3>1 DEF TypesOf
  <2> QED
    BY <2>1
<1>3. lists[t] = FlattenOne(ks, f)
  BY <1>2
<1>4. ks \in Seq(K)
  <2>1. \A e \in E : e.key \in K
    OBVIOUS
  <2>2. OfType(entities, t) \in Seq(E)
    BY TypedIs
  <2> HIDE DEF E
  <2> QED
    BY <2>1, <2>2, KeysAre
<1> HIDE DEF lists, f
<1>5. Merge(entities, lists)[i] = Target(f, k) /\ k \in ToSet(ks)
  BY <1>3, MergedTarget
<1> HIDE DEF t, k, table, ks
<1>6. Asked(ks) \in Seq(K) /\ (k \in ToSet(Asked(ks)) <=> Truthy(k))
  BY <1>4, <1>5, AskedIs
<1>7. FindsOwn(f, table, Asked(ks), T)
  BY <1>2, <1>6, FoundOwn DEF f, t, table, ks
<1>8. IF k \notin ToSet(Asked(ks)) \/ Own(table, k) = <<>>
      THEN Target(f, k) = Nothing
      ELSE Target(f, k) \in ToSet(Own(table, k))
  BY <1>2, <1>7, TargetFound
<1>9. \A row \in ToSet(Own(table, k)) : row = Own(table, k)[1]
  BY <1>2, OneOfEachKey
<1> QED
  BY <1>1, <1>5, <1>6, <1>8, <1>9 DEF t, k, table

\* What an entity with a list of keys is given: the targets of those that are asked for and
\* have one.
LEMMA ReferencesOwn ==
    ASSUME NEW K, NEW T, NoneIn(T), \A row \in T : row.key \in K,
           NEW entities \in Seq([key : Seq(K)]), NEW table \in Seq(T), NEW scope \in Scopes
    PROVE  ReferencesInOrder(entities, table, scope)
<1> DEFINE E == [key : Seq(K)]
           lists == KeysOf(entities)
           wanted == Asked(FlattenSeq(lists))
           found == FindByForeignKeys(table, wanted, scope, FALSE)
<1> SUFFICES ASSUME scope.totalLimit = 0, NEW i \in 1 .. Len(entities)
             PROVE  KeysOf(ReferencesMany(entities, table, scope)[i]) =
                       Within(entities[i].key, {k \in ToSet(entities[i].key) :
                                                   Truthy(k) /\ Own(table, k) # <<>>})
  BY DEF ReferencesInOrder
<1> DEFINE ks == entities[i].key
           S == {k \in ToSet(ks) : Truthy(k) /\ Own(table, k) # <<>>}
           U == T \cup {Nothing}
           related == FlattenOne(ks, found)
           R == ToSet(related) \ {Nothing}
           g == [k \in K |-> Target(found, k)]
           w == Within(ks, S)
<1>1. ReferencesMany(entities, table, scope)[i] = Within(related, R)
  BY DEF ReferencesMany
<1>2. ks \in Seq(K)
  <2>1. entities[i] \in E
    BY ElementOf, Zenon
  <2> QED
    BY <2>1
<1>3. lists \in Seq(Seq(K)) /\ Len(lists) = Len(entities) /\ lists[i] = ks
  <2>1. \A e \in E : e.key \in Seq(K)
    OBVIOUS
  <2>3. entities \in Seq(E)
    OBVIOUS
  <2> DEFINE V == Seq(K)
  <2> HIDE DEF E, V, ks
  <2>2. /\ KeysOf(entities) \in Seq(V) /\ Len(KeysOf(entities)) = Len(entities)
        /\ \A j \in 1 .. Len(entities) : KeysOf(entities)[j] = entities[j].key
    <3>1. \A e \in E : e.key \in V
      BY <2>1 DEF V
    <3> DEFINE n == Len(entities)
               m == KeysOf(entities)
    <3>2. n \in Nat /\ m = [j \in 1 .. n |-> entities[j].key]
      BY DEF KeysOf
    <3>3. \A j \in 1 .. n : entities[j] \in E
      BY <2>3
    <3>4. \A j \in 1 .. n : entities[j].key \in V
      BY <3>1, <3>3
    <3> HIDE DEF n, m
    <3>5. m \in Seq(V) /\ Len(m) = n /\ \A j \in 1 .. n : m[j] = entities[j].key
      BY <3>2, <3>4
    <3> QED
      BY <3>5 DEF m, n
  <2> USE DEF V
  <2> QED
    BY <2>2 DEF ks
<1> HIDE DEF lists, ks
<1>4. FlattenSeq(lists) \in Seq(K) /\ ToSet(ks) \subseteq ToSet(FlattenSeq(lists))
  <2>1. ToSet(FlattenSeq(lists)) = UNION {ToSet(lists[j]) : j \in 1 .. Len(lists)}
    BY <1>3, FlattenElements
  <2>2. FlattenSeq(lists) \in Seq(K)
    BY <1>3, FlattenAppend
  <2> QED
    BY <1>3, <2>1, <2>2
<1>5. wanted \in Seq(K) /\ \A k \in ToSet(ks) : k \in ToSet(wanted) <=> Truthy(k)
  <2> DEFINE all == FlattenSeq(lists)
  <2> HIDE DEF all
  <2>1. /\ Asked(all) \in Seq(K)
        /\ \A k : k \in ToSet(Asked(all)) <=> k \in ToSet(all) /\ Truthy(k)
    BY <1>4, AskedIs DEF all
  <2> QED
    BY <1>4, <2>1 DEF all
<1> HIDE DEF wanted
<1>6. FindsOwn(found, table, wanted, T)
  BY <1>5, FoundOwn
<1> HIDE DEF found
<1>7. ASSUME NEW k
      PROVE  IF k \notin ToSet(wanted) \/ Own(table, k) = <<>>
             THEN Target(found, k) = Nothing
             ELSE Target(found, k) \in ToSet(Own(table, k))
  BY <1>6, TargetFound
<1>8. ASSUME NEW k
      PROVE  /\ Target(found, k) \in U
             /\ Target(found, k) # Nothing <=> k \in ToSet(wanted) /\ Own(table, k) # <<>>
             /\ Target(found, k) # Nothing => Target(found, k).key = k
  <2>1. Own(table, k) \in Seq(T) /\ ToSet(Own(table, k)) = {r \in ToSet(table) : r.key \in {k}}
    BY RowsWithKeys DEF Own
  <2>2. ToSet(table) \subseteq T
    BY DEF ToSet
  <2> QED
    BY <1>7, <2>1, <2>2 DEF NoneIn
<1>9. g \in [K -> U]
  BY <1>8
<1>10. related = Mapped(g, ks)
  <2>1. related = [j \in 1 .. Len(ks) |-> Target(found, ks[j])]
    BY <1>2, FlattenOneIs
  <2>2. DOMAIN ks = 1 .. Len(ks) /\ \A j \in 1 .. Len(ks) : ks[j] \in K
    BY <1>2
  <2> QED
    BY <2>1, <2>2 DEF Mapped
<1>11. \A k \in ToSet(ks) : k \in S <=> g[k] \in R
  <2>1. ASSUME NEW k \in ToSet(ks) PROVE g[k] \in ToSet(related) /\ k \in K
    <3>4. ToSet(ks) = {ks[j] : j \in 1 .. Len(ks)}
      BY <1>2 DEF ToSet
    <3>1. PICK j \in 1 .. Len(ks) : ks[j] = k
      BY <3>4, Zenon
    <3>2. k \in K /\ DOMAIN ks = 1 .. Len(ks)
      BY <1>2, <3>1
    <3>3. j \in DOMAIN related /\ related[j] = g[k]
      BY <1>10, <3>1, <3>2 DEF Mapped
    <3> HIDE DEF related, g
    <3> QED
      BY <3>2, <3>3 DEF ToSet
  <2> SUFFICES ASSUME NEW k \in ToSet(ks) PROVE k \in S <=> g[k] \in R
    OBVIOUS
  <2>2. g[k] = Target(found, k)
    BY <2>1
  <2>3. g[k] \in R <=> g[k] # Nothing
    <3> HIDE DEF related, g
    <3> QED
      BY <2>1
  <2> HIDE DEF R, g
  <2> QED
    BY <1>5, <1>8, <2>2, <2>3
<1> HIDE DEF g, S, R, U, related
<1>12. Commuting(g, ks, S, R)
  BY <1>2, <1>9, <1>11, WithinMapped
<1>13. Within(related, R) = Mapped(g, w)
  BY <1>10, <1>12, Zenon DEF Commuting
<1>14. w \in Seq(K) /\ ToSet(w) \subseteq S
  <2>1. ToSet(w) = ToSet(ks) \cap S
    BY <1>2, WithinElements, Zenon
  <2>2. w \in Seq(K)
    BY <1>2, WithinType
  <2> HIDE DEF w
  <2> QED
    BY <2>1, <2>2
<1> HIDE DEF w
<1>15. KeysOf(Mapped(g, w)) = w
  <2> DEFINE m == Mapped(g, w)
             n == Len(w)
  <2>1. m = [j \in 1 .. n |-> g[w[j]]] /\ n \in Nat
    BY <1>14 DEF Mapped
  <2>2. ASSUME NEW j \in 1 .. n PROVE m[j].key = w[j]
    <3>1. w[j] \in S /\ w[j] \in K
      BY <1>14 DEF ToSet
    <3>2. g[w[j]] = Target(found, w[j])
      BY <3>1 DEF g
    <3>3. w[j] \in ToSet(wanted) /\ Own(table, w[j]) # <<>>
      BY <1>5, <3>1 DEF S
    <3>4. Target(found, w[j]).key = w[j]
      BY <1>8, <3>3
    <3> HIDE DEF m
    <3>5. m[j] = g[w[j]]
      BY <2>1
    <3> QED
      BY <3>2, <3>4, <3>5
  <2>3. Len(m) = n
    BY <2>1
  <2> HIDE DEF m
  <2>4. KeysOf(m) = [j \in 1 .. n |-> w[j]]
    BY <2>2, <2>3 DEF KeysOf
  <2>5. w = [j \in 1 .. n |-> w[j]]
    BY <1>14
  <2> QED
    BY <2>4, <2>5, Zenon DEF m
<1> QED
  BY <1>1, <1>13, <1>15, Zenon DEF w, S, ks, related, R

\* The rows of the through table for an entity.
LinksAre(entities, through, i, T) ==
    LET links == HasMany(entities, through, NoScope)[i]
        own == Own(through, entities[i].key)
    IN  /\ links = IF own = <<>> THEN NoList ELSE own
        /\ links = NoList <=> own = <<>>
        /\ own \in Seq(T)
        /\ Len(HasMany(entities, through, NoScope)) = Len(entities)

LEMMA LinksOf ==
    ASSUME NEW K, NEW T, NEW E, NEW entities \in Seq(E), \A e \in E : e.key \in K,
           NEW through \in Seq(T), NoneIn(T), NEW i \in 1 .. Len(entities)
    PROVE  LinksAre(entities, through, i, T)
<1> DEFINE own == Own(through, entities[i].key)
<1>1. NoScope \in Scopes /\ NoScope.limit = 0 /\ NoScope.totalLimit = 0
  BY DEF NoScope, Scopes
<1>2. HasManyGetsOwn(entities, through, NoScope)
  BY <1>1, HasManyOwn
<1>3. Limited(own, 0) = own
  BY DEF Limited
<1>4. HasMany(entities, through, NoScope)[i] = IF own = <<>> THEN NoList ELSE own
  <2>1. HasMany(entities, through, NoScope)[i] =
            IF Limited(own, NoScope.limit) = <<>> THEN NoList ELSE Limited(own, NoScope.limit)
    BY <1>1, <1>2, Zenon DEF HasManyGetsOwn
  <2>2. Limited(own, NoScope.limit) = own
    BY <1>1, <1>3, Zenon
  <2> QED
    BY <2>1, <2>2, Zenon
<1>5. own \in Seq(T)
  BY RowsWithKeys DEF Own
<1>6. own # NoList
  <2> HIDE DEF own
  <2> QED
    BY <1>5 DEF NoneIn
<1>7. Len(HasMany(entities, through, NoScope)) = Len(entities)
  <2>1. Len(entities) \in Nat
    OBVIOUS
  <2> QED
    BY <2>1 DEF HasMany, FlattenMany, KeysOf
<1> HIDE DEF own
<1>8. HasMany(entities, through, NoScope)[i] = NoList <=> own = <<>>
  BY <1>4, <1>6
<1> QED
  BY <1>4, <1>5, <1>7, <1>8, Zenon DEF own, LinksAre

LEMMA ThroughLinked ==
    ASSUME NEW K, NEW T, NEW L, NEW E, NEW entities \in Seq(E), \A e \in E : e.key \in K,
           NEW through \in Seq(L), NoneIn(L), NEW table \in Seq(T), NEW scope \in Scopes
    PROVE  ThroughGetsLinked(entities, through, table, scope)
<1> SUFFICES ASSUME scope.totalLimit = 0, NEW i \in 1 .. Len(entities)
             PROVE  HasManyThrough(entities, through, table, scope)[i] =
                       IF Own(through, entities[i].key) = <<>> THEN NoList
                       ELSE Limited(Within(table, {row \in ToSet(table) :
                               \E j \in 1 .. Len(Own(through, entities[i].key)) :
                                  Own(through, entities[i].key)[j].to = row.key}), scope.limit)
  BY Zenon DEF ThroughGetsLinked
<1> DEFINE own == Own(through, entities[i].key)
           tos == TargetKeys(own)
           A == {row \in ToSet(table) : \E j \in 1 .. Len(own) : own[j].to = row.key}
           links == HasMany(entities, through, NoScope)
<1>1. (links[i] = IF own = <<>> THEN NoList ELSE own) /\ (links[i] = NoList <=> own = <<>>)
      /\ own \in Seq(L)
  <2>1. LinksAre(entities, through, i, L)
    BY LinksOf
  <2> QED
    BY <2>1, Zenon DEF LinksAre
<1>2. HasManyThrough(entities, through, table, scope)[i] =
         IF links[i] = NoList THEN NoList
         ELSE FindByForeignKeys(table, TargetKeys(links[i]), scope, TRUE)
  BY DEF HasManyThrough
<1> HIDE DEF own, links
<1>3. FindByForeignKeys(table, tos, scope, TRUE) = Limited(WithKeys(table, ToSet(tos)), scope.limit)
  <2>1. ~(scope.totalLimit > 0)
    BY DEF Scopes
  <2> HIDE DEF tos
  <2> QED
    BY <2>1, FoundAtOnce
<1>4. WithKeys(table, ToSet(tos)) = Within(table, A)
  <2>1. ToSet(tos) = {own[j].to : j \in 1 .. Len(own)}
    BY DEF TargetKeys, ToSet
  <2> QED
    BY <2>1 DEF WithKeys
<1> HIDE DEF A, tos
<1>5. HasManyThrough(entities, through, table, scope)[i] =
         IF own = <<>> THEN NoList ELSE Limited(Within(table, A), scope.limit)
  BY <1>1, <1>2, <1>3, <1>4 DEF tos
<1> QED
  BY <1>5, Zenon DEF A, own

\* What an entity is given where the links of all are dealt the targets of their types.
LEMMA ThroughTypesLinked ==
    ASSUME NEW K, NEW types, NEW T, NEW L, NoneIn(L), \A l \in L : l.type \in types,
           NEW E, NEW entities \in Seq(E), \A e \in E : e.key \in K,
           NEW through \in Seq(L), NEW tables \in [types -> Seq(T)]
    PROVE  ThroughTypesGetLinked(entities, through, tables)
<1> DEFINE n == Len(entities)
           parts == [i \in 1 .. n |-> Own(through, entities[i].key)]
           listed == FlattenSeq(parts)
           keys(t) == TargetKeys(OfType(listed, t))
           entries(t) == WithKeys(tables[t], ToSet(keys(t)))
           links == HasMany(entities, through, NoScope)
           before(i) == Len(FlattenSeq(SubSeq(parts, 1, i - 1)))
           found(t) == FindByForeignKeys(tables[t], keys(t), NoScope, FALSE)
           dealt(m) == LET type == listed[m].type
                           place == PlaceInType(listed, m)
                       IN  IF place <= Len(found(type)) THEN <<found(type)[place]>> ELSE <<>>
           got(i) == FlattenSeq([j \in 1 .. Len(links[i]) |-> dealt(before(i) + j)])
<1> SUFFICES ASSUME \A t \in DOMAIN tables : KeysOf(entries(t)) = keys(t), NEW i \in 1 .. n
             PROVE  LET own == Own(through, entities[i].key)
                        all == HasManyThroughTypes(entities, through, tables, NoScope)[i]
                    IN  IF own = <<>> THEN all = NoList
                        ELSE /\ Len(all) = Len(own)
                             /\ \A j \in 1 .. Len(own) :
                                   all[j] \in ToSet(Own(tables[own[j].type], own[j].to))
  BY Zenon DEF ThroughTypesGetLinked
<1>1. ASSUME NEW j \in 1 .. n
      PROVE  /\ links[j] = IF parts[j] = <<>> THEN NoList ELSE parts[j]
             /\ links[j] = NoList <=> parts[j] = <<>>
             /\ parts[j] \in Seq(L)
             /\ Len(links) = n
  <2>1. LinksAre(entities, through, j, L)
    BY LinksOf
  <2>2. parts[j] = Own(through, entities[j].key)
    OBVIOUS
  <2> QED
    BY <2>1, <2>2, Zenon DEF LinksAre
<1>2. n \in Nat /\ parts \in Seq(Seq(L)) /\ Len(parts) = n
  <2>1. n \in Nat /\ DOMAIN parts = 1 .. n
    OBVIOUS
  <2>2. parts = [j \in 1 .. n |-> parts[j]]
    OBVIOUS
  <2> HIDE DEF parts
  <2> QED
    BY <1>1, <2>1, <2>2
<1>3. Len(links) = n
  BY <1>1
<1>4. [j \in 1 .. Len(links) |-> IF links[j] = NoList THEN <<>> ELSE links[j]] = parts
  <2>1. \A j \in 1 .. n : (IF links[j] = NoList THEN <<>> ELSE links[j]) = parts[j]
    BY <1>1
  <2>2. parts = [j \in 1 .. n |-> parts[j]]
    OBVIOUS
  <2> HIDE DEF parts, links
  <2> QED
    BY <1>3, <2>1, <2>2
<1> HIDE DEF parts
<1>5. HasManyThroughTypes(entities, through, tables, NoScope)[i] =
         IF links[i] = NoList THEN NoList ELSE got(i)
  <2> HIDE DEF n
  <2>1. HasManyThroughTypes(entities, through, tables, NoScope) =
          [k \in 1 .. n |-> IF links[k] = NoList THEN NoList ELSE got(k)]
    BY <1>4, Zenon DEF HasManyThroughTypes, n
  <2> QED
    BY <2>1
<1> HIDE DEF links
<1>6. CASE parts[i] = <<>>
  <2>1. parts[i] = Own(through, entities[i].key)
    BY DEF parts
  <2> QED
    BY <1>1, <1>5, <1>6, <2>1, Zenon
<1>7. CASE parts[i] # <<>>
  <2> DEFINE own == parts[i]
             ss == [j \in 1 .. Len(own) |-> dealt(before(i) + j)]
  <2>1. listed \in Seq(L) /\ own \in Seq(L)
    BY <1>1, <1>2, FlattenAppend
  <2>2. Spread(parts)
    BY <1>2, FlattenPlaces
  <2>3. ASSUME NEW j \in 1 .. Len(own)
        PROVE  before(i) + j \in 1 .. Len(listed) /\ listed[before(i) + j] = own[j]
    <3>1. i \in 1 .. Len(parts)
      BY <1>2
    <3> QED
      BY <2>2, <3>1, Zenon DEF Spread
  <2> HIDE DEF listed, before
  <2>4. ASSUME NEW j \in 1 .. Len(own)
        PROVE  \E row \in T : /\ dealt(before(i) + j) = <<row>>
                              /\ row \in ToSet(Own(tables[own[j].type], own[j].to))
    <3> DEFINE m == before(i) + j
               t == listed[m].type
               p == PlaceInType(listed, m)
               es == OfType(listed, t)
               f == found(t)
    <3>1. m \in 1 .. Len(listed) /\ listed[m] = own[j]
      BY <2>3
    <3>2. listed[m] \in L /\ t \in types
      BY <2>1, <3>1
    <3> HIDE DEF m
    <3>3. p \in 1 .. Len(es) /\ es[p] = listed[m]
      BY <2>1, <3>1, PlacedByType
    <3>4. es \in Seq(L)
      BY <2>1, TypedIs
    <3>5. tables[t] \in Seq(T) /\ KeysOf(entries(t)) = keys(t)
      BY <3>2
    <3> DEFINE table == tables[t]
               ks == TargetKeys(es)
    <3>6. f = Limited(WithKeys(table, ToSet(ks)), 0)
      <4>1. NoScope.limit = 0 /\ NoScope.totalLimit = 0
        BY DEF NoScope
      <4>2. ~(NoScope.totalLimit > 0)
        BY <4>1
      <4>3. f = FindByForeignKeys(table, ks, NoScope, FALSE)
        BY Zenon
      <4> HIDE DEF table, ks, f
      <4>4. FindByForeignKeys(table, ks, NoScope, FALSE) =
               Limited(WithKeys(table, ToSet(ks)),
                       IF NoScope.totalLimit > 0 THEN NoScope.totalLimit ELSE NoScope.limit)
        BY <4>1, FoundAtOnce
      <4> QED
        BY <4>1, <4>2, <4>3, <4>4, Zenon
    <3>7. f = WithKeys(table, ToSet(ks))
      BY <3>6 DEF Limited
    <3>8. KeysOf(f) = ks
      BY <3>5, <3>7, Zenon
    <3> HIDE DEF p, es, f, t, table
    <3>9. ks = [k \in 1 .. Len(es) |-> es[k].to] /\ Len(es) \in Nat
      BY <3>4 DEF TargetKeys
    <3>10. f \in Seq(T) /\ ToSet(f) = {row \in ToSet(table) : row.key \in ToSet(ks)}
      <4>1. table \in Seq(T)
        BY <3>5 DEF table
      <4> DEFINE M == ToSet(ks)
      <4>2. f = WithKeys(table, M)
        BY <3>7
      <4> HIDE DEF M, ks
      <4>3. f \in Seq(T) /\ ToSet(f) = {row \in ToSet(table) : row.key \in M}
        BY <4>1, <4>2, RowsWithKeys
      <4> QED
        BY <4>3, Zenon DEF M
    <3>11. KeysOf(f) = [k \in 1 .. Len(f) |-> f[k].key] /\ Len(f) \in Nat
      BY <3>10 DEF KeysOf
    <3>12. Len(f) = Len(es)
      <4>1. Len(KeysOf(f)) = Len(f) /\ Len(ks) = Len(es)
        <5> HIDE DEF ks
        <5> QED
          BY <3>9, <3>11
      <4> QED
        BY <3>8, <4>1, Zenon
    <3>13. f[p].key = own[j].to
      <4>1. KeysOf(f)[p] = f[p].key /\ ks[p] = es[p].to
        <5> HIDE DEF ks
        <5> QED
          BY <3>3, <3>9, <3>11, <3>12
      <4> QED
        BY <3>1, <3>3, <3>8, <4>1, Zenon
    <3>14. f[p] \in T /\ f[p] \in ToSet(f)
      BY <3>3, <3>10, <3>12, ElementOf, Zenon
    <3>15. f[p] \in ToSet(Own(table, own[j].to))
      <4>1. ToSet(Own(table, own[j].to)) = {row \in ToSet(table) : row.key \in {own[j].to}}
        <5>1. table \in Seq(T)
          BY <3>5 DEF table
        <5> DEFINE k == own[j].to
        <5> HIDE DEF k
        <5>2. ToSet(WithKeys(table, {k})) = {row \in ToSet(table) : row.key \in {k}}
          BY <5>1, RowsWithKeys
        <5> QED
          BY <5>2, Zenon DEF Own, k
      <4> QED
        BY <3>10, <3>13, <3>14, <4>1
    <3>16. dealt(m) = <<f[p]>>
      <4>1. p <= Len(f)
        BY <3>3, <3>12
      <4> QED
        BY <4>1, Zenon DEF f, p, t
    <3>17. t = own[j].type
      BY <3>1 DEF t
    <3> HIDE DEF dealt
    <3> QED
      BY <3>14, <3>15, <3>16, <3>17, Zenon DEF m, table
  <2> HIDE DEF own, dealt
  <2>5. ss \in Seq(Seq(T)) /\ Len(ss) = Len(own) /\ \A j \in 1 .. Len(own) : Len(ss[j]) = 1
    <3>1. \A row \in T : <<row>> \in Seq(T) /\ Len(<<row>>) = 1
      OBVIOUS
    <3>2. \A j \in 1 .. Len(own) : ss[j] \in Seq(T) /\ Len(ss[j]) = 1
      BY <2>4, <3>1
    <3>3. Len(own) \in Nat
      BY <2>1
    <3> QED
      BY <3>2, <3>3
  <2>6. /\ Len(FlattenSeq(ss)) = Len(own)
        /\ \A j \in 1 .. Len(own) : FlattenSeq(ss)[j] = ss[j][1]
    <3> HIDE DEF ss
    <3> QED
      BY <2>5, FlattenSingles
  <2>7. \A j \in 1 .. Len(own) : ss[j][1] \in ToSet(Own(tables[own[j].type], own[j].to))
    <3>1. \A row \in T : <<row>>[1] = row
      OBVIOUS
    <3> QED
      BY <2>4, <3>1
  <2>8. links[i] = own /\ own = Own(through, entities[i].key)
    <3>1. own = Own(through, entities[i].key)
      BY DEF own, parts
    <3> QED
      BY <1>1, <1>7, <3>1 DEF own
  <2>9. got(i) = FlattenSeq(ss) /\ links[i] # NoList /\ own # <<>>
    BY <1>1, <1>7, <2>8, Zenon DEF own
  <2> HIDE DEF ss
  <2>10. HasManyThroughTypes(entities, through, tables, NoScope)[i] = FlattenSeq(ss)
    BY <1>5, <2>9, Zenon
  <2> QED
    BY <2>6, <2>7, <2>8, <2>9, <2>10, Zenon
<1> QED
  BY <1>6, <1>7

\* Every entity is given the targets its own key or keys, or the through model, lead to: for
\* any entities, keys, types, tables and limits, each resolver under its condition. With
\* limits per key no two entities have one key, what is looked up by key has each key once,
\* key 0 counts as none, and targets of several types behind a through model are neither
\* shared nor missing and are found in the order of the links, without a scope.
THEOREM InclusionGetsOwn ==
    ASSUME NEW keys, NEW types, subject = "inclusion" => input \in IncludedCalls(keys, types)
    PROVE  IncludesOwn
<1> DEFINE T == RowsWith(keys)
           L == [key : keys, to : keys, type : types]
           E == [key : keys]
           B == [key : keys, type : types]
<1>1. NoneIn(T)
  <2>1. Nothing \notin T
    BY DEF Nothing, RowsWith, NoKey
  <2> QED
    BY <2>1, NothingMissing
<1>2. NoneIn(L)
  <2>1. DOMAIN Nothing = {"key", "id"} /\ \A l \in L : "to" \in DOMAIN l
    BY DEF Nothing
  <2>2. Nothing \notin L
    BY <2>1
  <2> QED
    BY <2>2, NothingMissing
<1>3. (\A row \in T : row.key \in keys) /\ (\A e \in E : e.key \in keys)
      /\ \A l \in L : l.type \in types
  BY DEF RowsWith
<1>4. OfKind("hasMany") =>
         /\ HasManyGetsOwn(input.entities, input.table, input.scope)
         /\ TotalLimitHolds(input.entities, input.table, input.scope)
  <2> SUFFICES ASSUME OfKind("hasMany")
               PROVE  /\ HasManyGetsOwn(input.entities, input.table, input.scope)
                      /\ TotalLimitHolds(input.entities, input.table, input.scope)
    OBVIOUS
  <2>1. input.entities \in Seq(E) /\ input.table \in Seq(T) /\ input.scope \in Scopes
    BY DEF OfKind, IncludedCalls
  <2> HIDE DEF T, E
  <2> QED
    BY <1>1, <1>3, <2>1, HasManyOwn, TotalLimitKept
<1>5. OfKind("byType") =>
         /\ BelongsToGetsOwn(input.entities, input.tables, input.scope)
         /\ HasOneGetsOwn(input.entities, input.tables, input.scope)
  <2> SUFFICES ASSUME OfKind("byType")
               PROVE  /\ BelongsToGetsOwn(input.entities, input.tables, input.scope)
                      /\ HasOneGetsOwn(input.entities, input.tables, input.scope)
    OBVIOUS
  <2>1. /\ input.entities \in Seq([key : keys, type : types])
        /\ input.tables \in [types -> Seq(T)] /\ input.scope \in Scopes
    BY DEF OfKind, IncludedCalls
  <2> HIDE DEF T
  <2> QED
    BY <2>1, BelongsToOwn, HasOneOwn
<1>6. OfKind("references") => ReferencesInOrder(input.entities, input.table, input.scope)
  <2> SUFFICES ASSUME OfKind("references")
               PROVE  ReferencesInOrder(input.entities, input.table, input.scope)
    OBVIOUS
  <2>1. /\ input.entities \in Seq([key : Seq(keys)]) /\ input.table \in Seq(T)
        /\ input.scope \in Scopes
    BY DEF OfKind, IncludedCalls
  <2> HIDE DEF T
  <2> QED
    BY <1>1, <1>3, <2>1, ReferencesOwn
<1>7. OfKind("through") =>
         /\ \A type \in DOMAIN input.tables :
               ThroughGetsLinked(input.entities, input.through, input.tables[type], input.scope)
         /\ ThroughTypesGetLinked(input.entities, input.through, input.tables)
  <2> SUFFICES ASSUME OfKind("through")
               PROVE  /\ \A type \in DOMAIN input.tables :
                            ThroughGetsLinked(input.entities, input.through,
                                              input.tables[type], input.scope)
                      /\ ThroughTypesGetLinked(input.entities, input.through, input.tables)
    OBVIOUS
  <2>1. /\ input.entities \in Seq(E) /\ input.through \in Seq(L)
        /\ input.tables \in [types -> Seq(T)] /\ input.scope \in Scopes
    BY DEF OfKind, IncludedCalls
  <2> HIDE DEF T, L, E
  <2>2. ASSUME NEW type \in DOMAIN input.tables
        PROVE  ThroughGetsLinked(input.entities, input.through, input.tables[type], input.scope)
    <3>1. input.tables[type] \in Seq(T)
      BY <2>1
    <3> QED
      BY <1>2, <1>3, <2>1, <3>1, ThroughLinked
  <2>3. ThroughTypesGetLinked(input.entities, input.through, input.tables)
    BY <1>2, <1>3, <2>1, ThroughTypesLinked
  <2> QED
    BY <2>2, <2>3
<1> QED
  BY <1>4, <1>5, <1>6, <1>7 DEF IncludesOwn
=============================================================================

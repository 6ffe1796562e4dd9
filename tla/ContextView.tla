------------------------------ MODULE ContextView ------------------------------
(***************************************************************************)
(* ContextView (packages/context/src/context-view.ts): an observer that    *)
(* keeps the bindings its filter finds in a chain of contexts, and their   *)
(* values, until a notification tells it to drop them.                     *)
(*                                                                         *)
(* The value of a binding is identified with the binding; the order of the *)
(* bindings is left out. No value is null or undefined here, so the filter *)
(* of resolve() keeps them all: in the code one that is dropped shifts the *)
(* values after it to other bindings. A cache that may be undefined is a   *)
(* sequence of at most one element.                                        *)
(***************************************************************************)
EXTENDS ContextEvents

CONSTANTS
    Views,       \* the observers that are views
    Readers,     \* the calls of values() that may be in process at a time
    AsyncValues, \* do bindings resolve to promises?
    BindingsRead \* when the getter bindings is read: "anytime", or "settled",
                 \* while no promise of values of the view is on its way

ASSUME ViewConstants ==
    /\ Views \subseteq Observers /\ Views \cap Throwers = {}
    /\ AsyncValues \in BOOLEAN
    /\ BindingsRead \in {"anytime", "settled"}

VARIABLES
    cachedB,  \* cachedB[v]: _cachedBindings
    cachedV,  \* cachedV[v]: the values of _cachedValues
    reading   \* reading[r]: at most one call of values() that awaits resolve()

viewVars == <<cachedB, cachedV, reading>>
vars == <<eventVars, viewVars>>

TypeOK ==
    /\ EventsTypeOK
    /\ \A v \in Views, cache \in {cachedB, cachedV} :
          cache[v] \in Seq(SUBSET Bindings) /\ Len(cache[v]) <= 1
    /\ \A r \in Readers :
          /\ Len(reading[r]) <= 1
          /\ ToSet(reading[r]) \subseteq
               [of : Views, found : SUBSET Bindings]

\* createView() opens a view as it makes it.
Init ==
    /\ EventsInit(Views)
    /\ cachedB = [v \in Views |-> <<>>]
    /\ cachedV = [v \in Views |-> <<>>]
    /\ reading = [r \in Readers |-> <<>>]

-----------------------------------------------------------------------------
\* Context.find() with the view's filter: a binding the parent finds is left
\* out if the child has found one with its key (_mergeWithParent()).
Find(v) ==
    LET found[c \in 0 .. Depth] ==
            IF c = 0 THEN {}
            ELSE LET own == registry[c] \cap Matches[v]
                 IN  own \cup {b \in found[c - 1] :
                                 \A x \in own : KeyOf[x] # KeyOf[b]}
    IN  found[ContextOf[v]]

\* the getter bindings
BindingsOf(v) == IF cachedB[v] = <<>> THEN Find(v) ELSE cachedB[v][1]

\* A reader awaits the values of the view.
Awaited(v) ==
    \E r \in Readers : reading[r] # <<>> /\ reading[r][1].of = v

\* bindings, read by itself: it fills the cache of the bindings alone
ReadBindings(v) ==
    /\ cachedB[v] = <<>>
    /\ BindingsRead = "settled" => ~Awaited(v)
    /\ cachedB' = [cachedB EXCEPT ![v] = <<Find(v)>>]
    /\ UNCHANGED <<cachedV, reading, eventVars>>

\* observe() and refresh()
Refresh(v) ==
    /\ cachedB' = [cachedB EXCEPT ![v] = <<>>]
    /\ cachedV' = [cachedV EXCEPT ![v] = <<>>]
    /\ UNCHANGED reading

Notify(c) ==
    /\ Deliver(c)
    /\ IF Called(c) \in Views THEN Refresh(Called(c)) ELSE UNCHANGED viewVars

\* values(), from its await of nextTick() on, before which it does nothing:
\* with no values in the cache, resolve() resolves the bindings.
Values(r, v) ==
    /\ reading[r] = <<>> /\ cachedV[v] = <<>>
    /\ cachedB' = [cachedB EXCEPT ![v] = <<BindingsOf(v)>>]
    /\ IF AsyncValues /\ BindingsOf(v) # {}
       THEN /\ reading' = [reading EXCEPT ![r] =
                             <<[of |-> v, found |-> BindingsOf(v)]>>]
            /\ UNCHANGED cachedV
       ELSE /\ cachedV' = [cachedV EXCEPT ![v] = <<BindingsOf(v)>>]
            /\ UNCHANGED reading
    /\ UNCHANGED eventVars

\* A binding cannot be resolved as values() asks for it: values() rejects, and
\* the bindings it has found stay cached.
ValuesFail(r, v) ==
    /\ reading[r] = <<>> /\ cachedV[v] = <<>> /\ BindingsOf(v) # {}
    /\ cachedB' = [cachedB EXCEPT ![v] = <<BindingsOf(v)>>]
    /\ UNCHANGED <<cachedV, reading, eventVars>>

\* Fault: the values are kept although the bindings have been dropped.
ResolvedAnyway(r) ==
    /\ reading[r] # <<>>
    /\ cachedV' = [cachedV EXCEPT ![reading[r][1].of] = <<reading[r][1].found>>]
    /\ reading' = [reading EXCEPT ![r] = <<>>]
    /\ UNCHANGED <<cachedB, eventVars>>

\* updateCachedValues(), when the promise of resolve() is fulfilled: values
\* are kept if there are bindings to pair them with, by position. With the
\* order left out, other bindings may keep any of the values.
Resolved(r) ==
    /\ reading[r] # <<>>
    /\ LET v == reading[r][1].of
           found == reading[r][1].found
       IN  \/ cachedB[v] = <<>> /\ UNCHANGED cachedV
           \/ /\ cachedB[v] # <<>>
              /\ \E kept \in SUBSET found :
                    /\ \/ kept = found
                       \/ Cardinality(kept) = Cardinality(cachedB[v][1])
                    /\ Cardinality(kept) <= Cardinality(cachedB[v][1])
                    /\ cachedV' = [cachedV EXCEPT ![v] = <<kept>>]
    /\ reading' = [reading EXCEPT ![r] = <<>>]
    /\ UNCHANGED <<cachedB, eventVars>>

\* The promise of resolve() is rejected, and values() with it.
Rejected(r) ==
    /\ reading[r] # <<>>
    /\ reading' = [reading EXCEPT ![r] = <<>>]
    /\ UNCHANGED <<cachedB, cachedV, eventVars>>

\* refresh() may be called by anybody. ContextView.close() is Unsubscribe; a view is not opened again.
Next ==
    \/ EventsStep /\ UNCHANGED viewVars
    \/ \E o \in Observers \ Views : Subscribe(o) /\ UNCHANGED viewVars
    \/ \E o \in Observers : Unsubscribe(o) /\ UNCHANGED viewVars
    \/ \E c \in Contexts : Notify(c)
    \/ \E r \in Readers, v \in Views : Values(r, v) \/ ValuesFail(r, v)
    \/ \E r \in Readers : Resolved(r) \/ Rejected(r)
    \/ \E v \in Views : ReadBindings(v) \/ (Refresh(v) /\ UNCHANGED eventVars)

Spec == Init /\ [][Next]_vars

FairSpec == Spec /\ \A c \in Contexts :
    WF_vars((TaskStep(c) /\ UNCHANGED viewVars) \/ Notify(c))

-----------------------------------------------------------------------------
\* A view may be trusted as long as it is open and was not passed over.
Trusted(v) == Contains(observers[ContextOf[v]], v) /\ v \notin missed

\* A view that is not about to be notified shows exactly the bindings its
\* filter finds in the chain, also when a nearer binding hides or reveals
\* one of the parent ("maintain a live list of matching bindings").
ViewIsLive ==
    \A v \in Views :
        Trusted(v) /\ Inbox(v) = <<>> /\ cachedB[v] # <<>> =>
            cachedB[v][1] = Find(v)

\* The values a view keeps are the values of the bindings it keeps, although
\* they may arrive after the bindings have changed ("a live list of matching
\* bindings and their resolved values").
ValuesOfBindings ==
    \A v \in Views : cachedV[v] # <<>> => cachedV[v] = cachedB[v]

\* What a reader of a view may rely on between two notifications: bindings that are
\* up to date, and the values of these very bindings.
ViewInv == TypeOK /\ ViewIsLive /\ ValuesOfBindings

\* A stale view does not stay so: it is refreshed.
ViewCatchesUp ==
    \A v \in Views :
        (Trusted(v) /\ cachedB[v] # <<>> /\ cachedB[v] # <<Find(v)>>)
            ~> (~Trusted(v) \/ cachedB[v] = <<>> \/ cachedB[v] = <<Find(v)>>)
=============================================================================

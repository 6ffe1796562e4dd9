--------------------------- MODULE LifeCycleRegistry ---------------------------
(***************************************************************************)
(* The observer registry of @loopback/core: how init, start and stop reach *)
(* the observers bound to the application, group by group                  *)
(* (packages/core/src/lifecycle-registry.ts), over the ContextView that    *)
(* lists them (packages/context/src/context-view.ts) and the order of      *)
(* their groups (packages/context/src/binding-sorter.ts).                  *)
(*                                                                         *)
(* A group name is a number that stands for its place in the alphabet; 0   *)
(* is the empty name. A value that may be undefined is a sequence of at    *)
(* most one element. An observer is a singleton, named by its binding; none *)
(* of them is null, so that the filter of ContextView.resolve() keeps them. *)
(***************************************************************************)
EXTENDS Naturals, SequencesExt, Selection

CONSTANTS
    Bindings,    \* the observer bindings that may be registered
    GroupTag,    \* GroupTag[b]: the tag lifeCycleObserverGroup, 0 if absent
    PlainTag,    \* PlainTag[b]: another tag that may name a group, 0 if none
    Handles,     \* Handles[b]: the events b has a method for
    Initial,     \* the bindings at first, in the order they were registered
    Orders,      \* the values of options.orderedGroups
    MaxName,     \* the last group name in the alphabet
    Disabled,    \* options.disabledGroups
    Modes,       \* the values of options.parallel: "true", "false", "unset"
    AsyncValues, \* are observers instantiated asynchronously?
    Failures,    \* may an observer reject, or fail to be instantiated?
    Changes,     \* when observers are added and removed (see MayChange)
    Reorder,     \* when setOrderedGroups() is called: "never", "early", "anytime"
    MaxPending,  \* bound on the notifications under way
    Missing      \* undefined, where an observer should be

Events == {"init", "start", "stop"}

ASSUME ConstantsAssumption ==
    /\ GroupTag \in [Bindings -> 0 .. MaxName]
    /\ PlainTag \in [Bindings -> 0 .. MaxName]
    /\ Handles \in [Bindings -> SUBSET Events]
    /\ Initial \in Seq(Bindings) /\ IsInjective(Initial)
    /\ Orders \subseteq Seq(1 .. MaxName) /\ Orders # {}
    /\ Modes \subseteq {"true", "false", "unset"} /\ Modes # {}
    /\ Changes \in {"none", "settled", "anytime"}
    /\ Reorder \in {"never", "early", "anytime"}
    /\ {AsyncValues, Failures} \subseteq BOOLEAN
    /\ MaxName \in Nat /\ MaxPending \in Nat
    /\ Missing \notin Bindings

VARIABLES
    bound,     \* the context: observer bindings in the order find() returns
    pending,   \* bind and unbind notifications the view has not yet observed
    cachedB,   \* ContextView._cachedBindings
    cachedV,   \* the values of ContextView._cachedValues, in the map's order
    parallel,  \* options.parallel
    order,     \* options.orderedGroups
    event,     \* the event that is (or was last) notified, or "none"
    pc,        \* where the notification stands
    groups,    \* notifyGroups(): the groups still to notify
    obs,       \* notifyGroups(): observers
    bnds,      \* notifyGroups(): bindings
    queue,     \* the observers of the current group not yet invoked
    running,   \* the observers at work
    outcome,   \* how the last notification ended
    told,      \* history: the observers invoked for this event
    finished,  \* history: the ones that have finished
    members    \* history: those registered since before the event

view == <<bound, pending, cachedB, cachedV>>
call == <<parallel, order, event, groups>>
work == <<queue, running, told, finished>>
vars == <<view, call, pc, obs, bnds, work, outcome, members>>

TypeOK ==
    /\ bound \in Seq(Bindings)
    /\ pending \in 0 .. MaxPending
    /\ \A c \in {cachedB, cachedV} : Len(c) <= 1
    /\ parallel \in Modes
    /\ order \in Orders
    /\ event \in Events \cup {"none"}
    /\ pc \in {"idle", "tick", "resolving", "collect", "groups", "notifying"}
    /\ ToSet(queue) \subseteq Bindings \cup {Missing}
    /\ running \cup told \cup finished \cup members \subseteq Bindings
    /\ outcome \in {"none", "ok", "failed", "unresolved"}

Init ==
    /\ bound = Initial
    /\ pending = 0
    /\ cachedB = <<>> /\ cachedV = <<>>
    /\ parallel \in Modes
    /\ order \in Orders
    /\ event = "none" /\ pc = "idle" /\ outcome = "ok"
    /\ groups = <<>> /\ obs = <<>> /\ bnds = <<>> /\ queue = <<>>
    /\ running = {} /\ told = {} /\ finished = {}
    /\ members = {}

-----------------------------------------------------------------------------
(* Groups and their order                                                  *)

\* The place of a name in o, 0 if it is not there (indexOf() + 1).
Place(o, g) == SelectInSeq(o, LAMBDA x : x = g)

\* compareByOrder(): names outside the order come first, by the alphabet,
\* then those in it by their place.
Rank(o, g) == IF Place(o, g) = 0 THEN g ELSE MaxName + Place(o, g)

\* getObserverGroup(): the group tag, else a tag that names a group in o
GroupOf(o, b) ==
    IF GroupTag[b] # 0 THEN GroupTag[b]
    ELSE IF Place(o, PlainTag[b]) # 0 THEN PlainTag[b] ELSE 0

\* sortBindingsByPhase(): a stable sort by the group tag alone
Sorted(o, bs) ==
    LET ranks == MaxName + Len(o) + 1
        sorted[r \in 0 .. ranks] ==
            IF r = 0 THEN <<>>
            ELSE sorted[r - 1]
                   \o Within(bs, {b \in Bindings : Rank(o, GroupTag[b]) = r - 1})
    IN  sorted[ranks]


\* Fault: an observer replaces the one before it in the map of groups.
GroupsOfLast(o, sorted) ==
    LET last == {i \in DOMAIN sorted : \A k \in DOMAIN sorted :
                    k > i => GroupOf(o, sorted[k]) # GroupOf(o, sorted[i])}
        kept == Within(Positions(sorted), last)
    IN  [n \in DOMAIN kept |-> [group |-> GroupOf(o, sorted[kept[n]]),
                               bindings |-> <<sorted[kept[n]]>>]]

\* sortObserverBindingsByGroup(): a group stands where its first binding does
GroupsOf(o, sorted) ==
    LET first == {i \in DOMAIN sorted : \A k \in DOMAIN sorted :
                     k < i => GroupOf(o, sorted[k]) # GroupOf(o, sorted[i])}
        starts == Within(Positions(sorted), first)
        Group(g) == [group |-> g,
                     bindings |-> Within(sorted, {b \in Bindings : GroupOf(o, b) = g})]
    IN  [n \in DOMAIN starts |-> Group(GroupOf(o, sorted[starts[n]]))]

-----------------------------------------------------------------------------
(* The context and the view                                                *)

\* "settled": between events, and the next event waits for the notifications
\* to be observed (after an event that failed there is no next one: see Notify);
\* "anytime": during events too.
MayChange ==
    Changes = "anytime" \/ (Changes = "settled" /\ pc = "idle" /\ outcome = "ok")

Add(b) ==
    /\ MayChange
    /\ b \notin ToSet(bound)
    /\ pending < MaxPending
    /\ bound' = Append(bound, b)
    /\ pending' = pending + 1
    /\ UNCHANGED <<cachedB, cachedV, call, pc, obs, bnds, work, outcome, members>>

Unbind(b) ==
    /\ MayChange
    /\ b \in ToSet(bound)
    /\ pending < MaxPending
    /\ bound' = RemoveFirst(bound, b)
    /\ pending' = pending + 1
    /\ members' = members \ {b}
    /\ UNCHANGED <<cachedB, cachedV, call, pc, obs, bnds, work, outcome>>

\* Fault: the view drops its bindings but keeps their values.
ObserveKeepsValues ==
    /\ pending > 0
    /\ pending' = pending - 1
    /\ cachedB' = <<>>
    /\ UNCHANGED <<bound, cachedV, call, pc, obs, bnds, work, outcome, members>>

\* ContextView.observe(): refresh() drops both caches
Observe ==
    /\ pending > 0
    /\ pending' = pending - 1
    /\ cachedB' = <<>> /\ cachedV' = <<>>
    /\ UNCHANGED <<bound, call, pc, obs, bnds, work, outcome, members>>

\* the getter ContextView.bindings
ViewBindings == IF cachedB = <<>> THEN bound ELSE cachedB[1]

\* updateCachedValues(): values are paired with bindings by position
Paired(bs, values) ==
    [i \in DOMAIN bs |-> IF i \in DOMAIN values THEN values[i] ELSE Missing]

\* setOrderedGroups(): "early" is before the first event
SetOrderedGroups(o) ==
    /\ \/ Reorder = "early" /\ event = "none"
       \/ Reorder = "anytime" /\ pc = "idle"
    /\ o \in Orders
    /\ order' = o
    /\ UNCHANGED <<view, parallel, event, groups, pc, obs, bnds, work, outcome, members>>

-----------------------------------------------------------------------------
(* Notifying an event                                                      *)

\* The application initializes once, then starts and stops in turn.
NextEvents == [none |-> {"init"}, init |-> {"start", "stop"},
               start |-> {"stop"}, stop |-> {"start"}]

\* init(), start(), stop(): getObserverGroupsByOrder() sorts the array of the
\* view in place, then notifyGroups() begins to read the view's values.
Notify(e) ==
    LET sorted == Sorted(order, ViewBindings)
    IN  /\ pc = "idle" /\ outcome = "ok"
        /\ e \in NextEvents[event]
        /\ Changes = "settled" => pending = 0
        /\ cachedB' = <<sorted>>
        /\ groups' = GroupsOf(order, sorted)
        /\ event' = e /\ pc' = "tick" /\ outcome' = "none"
        /\ told' = {} /\ finished' = {}
        /\ members' = ToSet(bound)
        /\ UNCHANGED <<bound, pending, cachedV, parallel, order, obs, bnds, queue, running>>

Ends(how) == pc' = "idle" /\ outcome' = how

\* ContextView.values() after nextTick(), and resolve()
ReadValues ==
    /\ pc = "tick"
    /\ \/ /\ cachedV # <<>>
          /\ obs' = cachedV[1]
          /\ pc' = "collect"
          /\ UNCHANGED <<cachedB, cachedV>>
       \/ /\ cachedV = <<>>
          /\ cachedB' = <<ViewBindings>>
          /\ obs' = ViewBindings
          /\ IF AsyncValues /\ ViewBindings # <<>>
             THEN pc' = "resolving" /\ UNCHANGED cachedV
             ELSE pc' = "collect" /\ cachedV' = <<ViewBindings>>
    /\ UNCHANGED <<bound, pending, call, bnds, work, outcome, members>>

\* the values have arrived; the bindings may be others by now, or dropped
Resolved ==
    /\ pc = "resolving"
    /\ cachedV' = IF cachedB = <<>> THEN <<>> ELSE <<Paired(cachedB[1], obs)>>
    /\ pc' = "collect"
    /\ UNCHANGED <<bound, pending, cachedB, call, obs, bnds, work, outcome, members>>

\* values() rejects: an observer cannot be instantiated, at once or later. The
\* bindings are cached by then, their values are not.
ValuesFail ==
    /\ Failures
    /\ \/ /\ pc = "tick" /\ cachedV = <<>> /\ ViewBindings # <<>>
          /\ cachedB' = <<ViewBindings>>
       \/ pc = "resolving" /\ UNCHANGED cachedB
    /\ Ends("unresolved")
    /\ UNCHANGED <<bound, pending, cachedV, call, obs, bnds, work, members>>

\* notifyGroups() after the await: nothing is done when no observer has the
\* method, and undefined[event] throws.
Collect ==
    LET first == SelectInSeq(obs, LAMBDA o : o = Missing \/ event \in Handles[o])
    IN  /\ pc = "collect"
        /\ cachedB' = <<ViewBindings>>
        /\ bnds' = ViewBindings
        /\ groups' = IF event = "stop" THEN Reverse(groups) ELSE groups
        /\ \/ first = 0 /\ Ends("ok")
           \/ first # 0 /\ obs[first] = Missing /\ Ends("failed")
           \/ first # 0 /\ obs[first] # Missing /\ pc' = "groups" /\ UNCHANGED outcome
        /\ UNCHANGED <<bound, pending, cachedV, parallel, order, event, obs, work, members>>

\* The observer at the place a binding has in bnds; observers[-1] otherwise.
ObserverOf(b) ==
    LET i == SelectInSeq(bnds, LAMBDA x : x = b)
    IN  IF i \in DOMAIN obs THEN obs[i] ELSE Missing

AllDone ==
    /\ pc = "groups"
    /\ groups = <<>>
    /\ Ends("ok")
    /\ UNCHANGED <<view, call, obs, bnds, work, members>>

\* Fault: a disabled group is not taken off the list.
SkipDisabledForever ==
    /\ pc = "groups" /\ groups # <<>> /\ Head(groups).group \in Disabled
    /\ UNCHANGED vars

SkipDisabled ==
    /\ pc = "groups"
    /\ groups # <<>>
    /\ Head(groups).group \in Disabled
    /\ groups' = Tail(groups)
    /\ UNCHANGED <<view, parallel, order, event, pc, obs, bnds, work, outcome, members>>

\* notifyObservers(): options.parallel is true only if it was set to it
BeginGroup ==
    LET bs == IF event = "stop" THEN Reverse(Head(groups).bindings)
              ELSE Head(groups).bindings
        os == [i \in DOMAIN bs |-> ObserverOf(bs[i])]
        called == {o \in ToSet(os) \ {Missing} : event \in Handles[o]}
    IN  /\ pc = "groups"
        /\ groups # <<>>
        /\ Head(groups).group \notin Disabled
        /\ groups' = Tail(groups)
        /\ \/ /\ parallel # "true"
              /\ queue' = os
              /\ pc' = "notifying"
              /\ UNCHANGED <<running, told, outcome>>
           \/ /\ parallel = "true"
              /\ queue' = <<>>
              /\ running' = called
              /\ told' = told \cup called
              /\ IF Missing \in ToSet(os) THEN Ends("failed")
                 ELSE pc' = "notifying" /\ UNCHANGED outcome
        /\ UNCHANGED <<view, parallel, order, event, obs, bnds, finished, members>>

\* the serial loop of notifyObservers() reaches the next observer
InvokeNext ==
    /\ pc = "notifying"
    /\ running = {} /\ queue # <<>>
    /\ queue' = Tail(queue)
    /\ LET o == Head(queue)
       IN  \/ o = Missing /\ Ends("failed") /\ UNCHANGED <<running, told>>
           \/ /\ o # Missing
              /\ LET called == IF event \in Handles[o] THEN {o} ELSE {}
                 IN  running' = called /\ told' = told \cup called
              /\ UNCHANGED <<pc, outcome>>
    /\ UNCHANGED <<view, call, obs, bnds, finished, members>>

ObserverDone(o) ==
    /\ o \in running
    /\ running' = running \ {o}
    /\ finished' = finished \cup {o}
    /\ UNCHANGED <<view, call, pc, obs, bnds, queue, told, outcome, members>>

\* The promise of the event rejects; others of the group may still be at work.
ObserverFails(o) ==
    /\ Failures
    /\ o \in running
    /\ running' = running \ {o}
    /\ IF pc = "notifying" THEN Ends("failed") ELSE UNCHANGED <<pc, outcome>>
    /\ UNCHANGED <<view, call, obs, bnds, queue, told, finished, members>>

\* Fault: the promises of the observers of a group are not awaited.
GroupDoneAtOnce ==
    /\ pc = "notifying" /\ queue = <<>>
    /\ pc' = "groups"
    /\ UNCHANGED <<view, call, obs, bnds, work, outcome, members>>

GroupDone ==
    /\ pc = "notifying"
    /\ running = {} /\ queue = <<>>
    /\ pc' = "groups"
    /\ UNCHANGED <<view, call, obs, bnds, work, outcome, members>>

Next ==
    \/ \E b \in Bindings : Add(b) \/ Unbind(b)
    \/ Observe
    \/ \E o \in Orders : SetOrderedGroups(o)
    \/ \E e \in Events : Notify(e)
    \/ ReadValues \/ Resolved \/ ValuesFail \/ Collect
    \/ AllDone \/ SkipDisabled \/ BeginGroup \/ InvokeNext
    \/ \E o \in Bindings : ObserverDone(o) \/ ObserverFails(o)
    \/ GroupDone

Spec == Init /\ [][Next]_vars

\* The event loop goes on with a notification, observers settle and the
\* notification queue of the context is worked off.
Fairness ==
    /\ WF_vars(ReadValues \/ Resolved \/ ValuesFail \/ Collect)
    /\ WF_vars(AllDone \/ SkipDisabled \/ BeginGroup \/ InvokeNext \/ GroupDone)
    /\ \A o \in Bindings : WF_vars(ObserverDone(o) \/ ObserverFails(o))
    /\ WF_vars(Observe)

FairSpec == Spec /\ Fairness

-----------------------------------------------------------------------------
(* Properties                                                              *)

\* The observers the event is for.
Addressed == {b \in members : event \in Handles[b] /\ GroupOf(order, b) \notin Disabled}

Before(a, b) ==
    IF event = "stop"
    THEN Rank(order, GroupOf(order, b)) < Rank(order, GroupOf(order, a))
    ELSE Rank(order, GroupOf(order, a)) < Rank(order, GroupOf(order, b))

\* Groups are notified in the documented order, reversed for stop, and one
\* group only when all observers of the groups before it have finished
\* (Life-cycle.md, "Observer groups"; notifyGroups()).
GroupsInOrder ==
    \A b \in running : \A a \in Addressed : Before(a, b) => a \in finished

\* When init(), start() or stop() returns, every observer registered since
\* before it was called has been invoked and has finished, unless its group
\* is disabled, and no observer of a disabled group has been invoked.
EveryObserverTold ==
    outcome = "ok" /\ event # "none" =>
        /\ Addressed \subseteq finished
        /\ \A b \in told : GroupOf(order, b) \notin Disabled

\* "Notify observers of the same group in parallel, default to true"
\* (LifeCycleObserverOptions.parallel).
GroupInParallel == parallel # "false" /\ running # {} => queue = <<>>

\* With parallel: false, observers are notified one by one.
GroupInSeries == parallel = "false" => \A a, b \in running : a = b

\* What a notification leaves and how it goes on within a group: no observer that was
\* registered before it is passed over or, in a disabled group, told; those of a group
\* are told together or one by one, as the options ask.
RegistryInv == TypeOK /\ EveryObserverTold /\ GroupInParallel /\ GroupInSeries

\* Once the observers are collected, the notification fails only when one that
\* was invoked does: values cached for an earlier event are those of the
\* bindings found anew, and no binding of a group is without its observer. When
\* an observer cannot be instantiated, none is told.
FailsOnlyWithObserver ==
    /\ outcome = "failed" => told \ (finished \cup running) # {}
    /\ outcome = "unresolved" => told = {}

\* A notification that has begun ends.
NotificationEnds == pc # "idle" ~> pc = "idle"
=============================================================================

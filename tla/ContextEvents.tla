----------------------------- MODULE ContextEvents -----------------------------
(***************************************************************************)
(* How observers hear of bindings that come and go in a chain of contexts: *)
(* Context.add(), unbind(), subscribe(), unsubscribe() and close() of      *)
(* packages/context/src/context.ts, and the ContextSubscriptionManager of  *)
(* each context (context-subscription.ts).                                 *)
(*                                                                         *)
(* Context 1 is the root (the application) and context c - 1 the parent of *)
(* context c. An event is emitted in one synchronous step: it passes down  *)
(* the chain through the listeners the children hold on their parents, and *)
(* every manager that has observers queues a notification with a snapshot  *)
(* of them. A task per manager takes the notifications off its queue and   *)
(* calls the observers one after the other, awaiting each.                 *)
(***************************************************************************)
EXTENDS Naturals, SequencesExt, Selection

CONSTANTS
    Depth,       \* the number of contexts in the chain
    Bindings,    \* the bindings that may be added
    KeyOf,       \* KeyOf[b]: the key of binding b
    Locked,      \* the bindings that are locked
    Observers,   \* the observers; one subscribes to one context only
    ContextOf,   \* ContextOf[o]: the context o subscribes to
    Matches,     \* Matches[o]: the bindings its filter accepts
    Throwers,    \* the observers that may throw
    MaxPending   \* bound on the notifications under way in a context

Contexts == 1 .. Depth

ASSUME EventConstants ==
    /\ Depth \in Nat \ {0}
    /\ DOMAIN KeyOf = Bindings
    /\ ContextOf \in [Observers -> Contexts]
    /\ Matches \in [Observers -> SUBSET Bindings]
    /\ Locked \subseteq Bindings /\ Throwers \subseteq Observers
    /\ IsFiniteSet(Bindings) /\ IsFiniteSet(Observers)
    /\ MaxPending \in Nat \ {0}

VARIABLES
    registry,   \* registry[c]: the bindings of context c
    observers,  \* observers[c]: the subscribed observers, in their order
    setup,      \* setup[c]: has the manager set up its event handlers?
    closed,     \* closed[c]: has the context been closed?
    queue,      \* queue[c]: the notifications not yet taken
    busy,       \* busy[c]: at most one notification, being processed
    missed      \* history: observers that were passed over by an error

contextVars == <<registry, observers, setup, closed>>
taskVars == <<queue, busy, missed>>
eventVars == <<contextVars, taskVars>>

Event == [type : {"bind", "unbind"}, binding : Bindings]

EventsTypeOK ==
    /\ registry \in [Contexts -> SUBSET Bindings]
    /\ \A c \in Contexts, x, y \in Bindings :
          {x, y} \subseteq registry[c] /\ KeyOf[x] = KeyOf[y] => x = y
    /\ observers \in [Contexts -> Seq(Observers)]
    /\ \A c \in Contexts : IsInjective(observers[c])
    /\ setup \in [Contexts -> BOOLEAN]
    /\ closed \in [Contexts -> BOOLEAN]
    /\ queue \in [Contexts -> Seq([event : Event, to : Seq(Observers)])]
    /\ \A c \in Contexts :
          /\ busy[c] \in Seq([event : Event, to : Seq(Observers)])
          /\ Len(busy[c]) <= 1
    /\ \A c \in Contexts : Len(queue[c]) + Len(busy[c]) <= MaxPending
    /\ missed \subseteq Observers

\* The observers in Open have subscribed already.
EventsInit(Open) ==
    /\ registry = [c \in Contexts |-> {}]
    /\ observers = [c \in Contexts |->
                      SetToSeq({o \in Open : ContextOf[o] = c})]
    /\ setup = [c \in Contexts |-> \E o \in Open : ContextOf[o] >= c]
    /\ closed = [c \in Contexts |-> FALSE]
    /\ queue = [c \in Contexts |-> <<>>]
    /\ busy = [c \in Contexts |-> <<>>]
    /\ missed = {}

-----------------------------------------------------------------------------
(* Emitting events                                                         *)

SameKey(c, b) == {x \in registry[c] : KeyOf[x] = KeyOf[b]}

\* handleParentEvent(): a child that listens to its parent re-emits an event
\* of the parent unless it has a binding with that key itself.
Reach(c, b) ==
    {d \in c .. Depth : \A e \in c + 1 .. d : setup[e] /\ SameKey(e, b) = {}}

\* The listeners of setupNotification(), in every context the events reach:
\* each is queued with a snapshot of the observers, if there are any.
Emit(c, b, events) ==
    LET told == {d \in Reach(c, b) : observers[d] # <<>>}
    IN  /\ queue' = [d \in Contexts |->
              IF d \in told
              THEN queue[d] \o [i \in DOMAIN events |->
                                  [event |-> events[i], to |-> observers[d]]]
              ELSE queue[d]]
        /\ \A d \in Contexts : Len(queue'[d]) + Len(busy[d]) <= MaxPending

Bind(b) == [type |-> "bind", binding |-> b]
Unbound(b) == [type |-> "unbind", binding |-> b]

\* Context.add(): a binding with the key of another one replaces it
Add(c, b) ==
    /\ b \notin registry[c]
    /\ SameKey(c, b) \cap Locked = {}
    /\ registry' = [registry EXCEPT ![c] = (@ \ SameKey(c, b)) \cup {b}]
    /\ Emit(c, b, Append([i \in 1 .. Cardinality(SameKey(c, b)) |->
                            Unbound(CHOOSE x \in SameKey(c, b) : TRUE)],
                         Bind(b)))
    /\ UNCHANGED <<observers, setup, closed, busy, missed>>

\* Context.unbind()
Unbind(c, b) ==
    /\ b \in registry[c] \ Locked
    /\ registry' = [registry EXCEPT ![c] = @ \ {b}]
    /\ Emit(c, b, <<Unbound(b)>>)
    /\ UNCHANGED <<observers, setup, closed, busy, missed>>

-----------------------------------------------------------------------------
(* Subscriptions                                                           *)

\* subscribe(), with setupEventHandlersIfNeeded() for all ancestors. A closed
\* context is recycled: nobody subscribes to it or to a child of it again.
Subscribe(o) ==
    LET c == ContextOf[o]
    IN  /\ \A e \in 1 .. c : ~closed[e]
        /\ ~Contains(observers[c], o)
        /\ observers' = [observers EXCEPT ![c] = Append(@, o)]
        /\ setup' = IF setup[c] THEN setup
                    ELSE [e \in Contexts |-> setup[e] \/ e <= c]
        /\ UNCHANGED <<registry, closed, taskVars>>

\* unsubscribe(): notifications already queued keep their snapshot
Unsubscribe(o) ==
    LET c == ContextOf[o]
    IN  /\ Contains(observers[c], o)
        /\ observers' = [observers EXCEPT ![c] = RemoveFirst(@, o)]
        /\ UNCHANGED <<registry, setup, closed, taskVars>>

\* close(), of a context whose children have been closed or never listened.
\* The notification being processed goes on; how many of those queued a
\* cancelled iterator still yields is up to the library that provides it.
Close(c) ==
    /\ ~closed[c]
    /\ \A d \in c + 1 .. Depth : ~setup[d]
    /\ closed' = [closed EXCEPT ![c] = TRUE]
    /\ observers' = [observers EXCEPT ![c] = <<>>]
    /\ setup' = [setup EXCEPT ![c] = FALSE]
    /\ \E n \in 0 .. Len(queue[c]) :
          queue' = [queue EXCEPT ![c] = SubSeq(@, 1, n)]
    /\ UNCHANGED <<registry, busy, missed>>

-----------------------------------------------------------------------------
(* The task of processNotifications() in context c                         *)

Accepting(e) == {o \in Observers : e.binding \in Matches[o]}

\* Fault: the notification goes to the observers of now, not of then.
TakeForCurrent(c) ==
    LET n == Head(queue[c])
    IN  /\ busy[c] = <<>> /\ queue[c] # <<>>
        /\ queue' = [queue EXCEPT ![c] = Tail(@)]
        /\ busy' = [busy EXCEPT ![c] =
              <<[n EXCEPT !.to = Within(observers[c], Accepting(n.event))]>>]
        /\ UNCHANGED <<contextVars, missed>>

\* The next notification; its filter spares an observer what it rejects.
Take(c) ==
    LET n == Head(queue[c])
    IN  /\ busy[c] = <<>> /\ queue[c] # <<>>
        /\ queue' = [queue EXCEPT ![c] = Tail(@)]
        /\ busy' = [busy EXCEPT ![c] =
              <<[n EXCEPT !.to = Within(@, Accepting(n.event))]>>]
        /\ UNCHANGED <<contextVars, missed>>

\* The observer whose turn it is, if there is one.
Turn(c) == busy[c] # <<>> /\ busy[c][1].to # <<>>
Called(c) == Head(busy[c][1].to)

\* It is called and the call succeeds.
Deliver(c) ==
    LET n == busy[c][1]
    IN  /\ Turn(c)
        /\ busy' = [busy EXCEPT ![c] = <<[n EXCEPT !.to = Tail(@)]>>]
        /\ UNCHANGED <<contextVars, queue, missed>>

\* It throws: the observers after it are passed over. The error goes to a
\* context with an error listener; without one the process ends.
Throw(c) ==
    /\ Turn(c)
    /\ Called(c) \in Throwers
    /\ missed' = missed \cup ToSet(Tail(busy[c][1].to))
    /\ busy' = [busy EXCEPT ![c] = <<>>]
    /\ UNCHANGED <<contextVars, queue>>

\* Fault: a notification is over only when no other one is queued.
NotifiedIfLast(c) ==
    /\ busy[c] # <<>> /\ busy[c][1].to = <<>> /\ queue[c] = <<>>
    /\ busy' = [busy EXCEPT ![c] = <<>>]
    /\ UNCHANGED <<contextVars, queue, missed>>

\* All have been called.
Notified(c) ==
    /\ busy[c] # <<>> /\ busy[c][1].to = <<>>
    /\ busy' = [busy EXCEPT ![c] = <<>>]
    /\ UNCHANGED <<contextVars, queue, missed>>

\* What leaves the caches of views alone; Deliver is composed with them.
EventsStep ==
    \/ \E c \in Contexts, b \in Bindings : Add(c, b) \/ Unbind(c, b)
    \/ \E c \in Contexts :
          Close(c) \/ Take(c) \/ Throw(c) \/ Notified(c)

\* The event loop works off the queue of every manager.
TaskStep(c) == Take(c) \/ Throw(c) \/ Notified(c)

-----------------------------------------------------------------------------
(* What observers are promised: see ContextFeed                            *)

\* The notifications that lead to a call of an observer.
CallsOf(o, notifications) ==
    Within(notifications, {n \in ToSet(notifications) :
                              Contains(n.to, o) /\ o \in Accepting(n.event)})

EventsOf(notifications) ==
    [i \in DOMAIN notifications |-> notifications[i].event]

\* The calls of an observer that are on their way.
Inbox(o) ==
    LET c == ContextOf[o] IN EventsOf(CallsOf(o, busy[c] \o queue[c]))

Feed == INSTANCE ContextFeed WITH
    subscribed <- UNION {ToSet(observers[c]) : c \in Contexts},
    inbox <- [o \in Observers |-> Inbox(o)]

\* Every observer hears of each event it is entitled to exactly once and in
\* the order of the events, whatever other observers come and go; only an
\* error of an observer before it, or close(), takes an event from it
\* (notifyObservers(), setupNotification(), handleParentEvent()).
ImplementsFeed == Feed!FeedSpec
=============================================================================

--------------------------- MODULE ContextViewProofs ---------------------------
(***************************************************************************)
(* Proofs about ContextEvents and ContextView, for every chain of          *)
(* contexts, all bindings and observers and any number of readers.         *)
(*                                                                         *)
(* Calls(o, s) are the events that the notifications in s bring observer   *)
(* o: what Inbox(o) says by recursion.  Its laws reduce each step to the   *)
(* notifications it adds or takes, and the two invariants to those steps.  *)
(***************************************************************************)
EXTENDS ContextView, DataFacts, TLAPS

\* Observers of context c, each once.
Lists(c) == {s \in Seq(Observers) :
                IsInjective(s) /\ ToSet(s) \subseteq {o \in Observers : ContextOf[o] = c}}

Note == [event : Event, to : Seq(Observers)]
Notes(c) == {n \in Note : n.to \in Lists(c)}

\* A notification whose filter has been applied.
Underway(c) == {n \in Notes(c) : ToSet(n.to) \subseteq Accepting(n.event)}

Reading == [of : Views, found : SUBSET Bindings]

\* The types of the variables.
EventsShape ==
    /\ registry \in [Contexts -> SUBSET Bindings]
    /\ observers \in [Contexts -> Seq(Observers)]
    /\ setup \in [Contexts -> BOOLEAN]
    /\ closed \in [Contexts -> BOOLEAN]
    /\ queue \in [Contexts -> Seq(Note)]
    /\ busy \in [Contexts -> Maybe(Note)]
    /\ missed \subseteq Observers

\* Keys are bound once; observers are kept with their context, whose listeners on the
\* contexts above it are set up; notifications go to observers of their context.
EventsInv ==
    /\ EventsShape
    /\ \A c \in Contexts, x, y \in Bindings :
          {x, y} \subseteq registry[c] /\ KeyOf[x] = KeyOf[y] => x = y
    /\ \A c \in Contexts : observers[c] \in Lists(c)
    /\ \A c \in Contexts : observers[c] # <<>> => setup[c]
    /\ \A c \in Contexts : setup[c] => \A e \in 1 .. c : setup[e]
    /\ \A c \in Contexts : queue[c] \in Seq(Notes(c))
    /\ \A c \in Contexts : busy[c] \in Maybe(Underway(c))
    /\ \A c \in Contexts : Len(queue[c]) + Len(busy[c]) <= MaxPending

CachesShape ==
    /\ cachedB \in [Views -> Maybe(SUBSET Bindings)]
    /\ cachedV \in [Views -> Maybe(SUBSET Bindings)]
    /\ reading \in [Readers -> Maybe(Reading)]

---------------------------------------------------------------------------
(* Notifications and calls *)

\* The event of a notification.
EventOf == [n \in Note |-> n.event]

\* The notifications that lead to a call of o.
Mine(o) == {n \in Note : Contains(n.to, o) /\ o \in Accepting(n.event)}

Calls(o, s) == Mapped(EventOf, Within(s, Mine(o)))

LEMMA EventOfType == EventOf \in [Note -> Event]
BY DEF EventOf, Note

\* The calls are events; of no notification there is none, of two sequences there are
\* those of the first and then those of the second.
CallsLaws(o, s) ==
    /\ Calls(o, s) \in Seq(Event)
    /\ Calls(o, <<>>) = <<>>
    /\ \A t \in Seq(Note) : Calls(o, s \o t) = Calls(o, s) \o Calls(o, t)
    /\ EventsOf(CallsOf(o, s)) = Calls(o, s)

LEMMA CallsOfSequences ==
    ASSUME NEW o, NEW s \in Seq(Note)
    PROVE  CallsLaws(o, s)
<1>1. \A r \in Seq(Note) : Within(r, Mine(o)) \in Seq(Note)
  BY WithinType
<1>2. \A r \in Seq(Note) : Mapping(EventOf, r, Note, Event)
  BY EventOfType, MappedAppend, Zenon
<1>3. Calls(o, s) \in Seq(Event)
  BY <1>1, <1>2 DEF Calls, Mapping
<1>4. Calls(o, <<>>) = <<>>
  <2>1. <<>> \in Seq(Note)
    OBVIOUS
  <2>2. Within(<<>>, Mine(o)) = <<>>
    BY <2>1, WithinType
  <2> QED
    BY <2>1, <2>2, <1>2 DEF Calls, Mapping
<1>5. ASSUME NEW t \in Seq(Note) PROVE Calls(o, s \o t) = Calls(o, s) \o Calls(o, t)
  <2> DEFINE a == Within(s, Mine(o))
             b == Within(t, Mine(o))
  <2>1. Within(s \o t, Mine(o)) = a \o b
    BY WithinConcat
  <2>2. a \in Seq(Note) /\ b \in Seq(Note)
    BY <1>1
  <2> HIDE DEF a, b
  <2>3. Mapped(EventOf, a \o b) = Mapped(EventOf, a) \o Mapped(EventOf, b)
    <3>1. Mapping(EventOf, a, Note, Event)
      BY <2>2, <1>2, Zenon
    <3> QED
      BY <3>1, <2>2, Zenon DEF Mapping
  <2> QED
    BY <2>1, <2>3, Zenon DEF Calls, a, b
<1>6. EventsOf(CallsOf(o, s)) = Calls(o, s)
  <2> DEFINE M == {n \in ToSet(s) : Contains(n.to, o) /\ o \in Accepting(n.event)}
  <2>1. \A n \in ToSet(s) : n \in Note
    BY DEF ToSet
  <2>2. \A n \in ToSet(s) : n \in M <=> n \in Mine(o)
    BY <2>1 DEF Mine
  <2>3. CallsOf(o, s) = Within(s, M)
    BY DEF CallsOf
  <2> HIDE DEF M
  <2>4. Within(s, M) = Within(s, Mine(o))
    BY <2>2, WithinSame
  <2> DEFINE w == Within(s, Mine(o))
  <2>5. w \in Seq(Note) /\ DOMAIN w = 1 .. Len(w)
    BY <1>1
  <2>7. CallsOf(o, s) = w
    BY <2>3, <2>4
  <2> HIDE DEF w
  <2>6. EventsOf(w) = Mapped(EventOf, w)
    <3>1. \A i \in DOMAIN w : w[i].event = EventOf[w[i]]
      BY <2>5 DEF EventOf
    <3> QED
      BY <3>1, Zenon DEF EventsOf, Mapped
  <2> QED
    BY <2>6, <2>7 DEF Calls, w
<1> QED
  BY <1>3, <1>4, <1>5, <1>6 DEF CallsLaws

\* A single notification leads to a call or not.
LEMMA CallsOfOne ==
    ASSUME NEW o, NEW n \in Note
    PROVE  Calls(o, <<n>>) = IF n \in Mine(o) THEN <<n.event>> ELSE <<>>
<1> DEFINE w == Within(<<n>>, Mine(o))
<1>1. w = IF n \in Mine(o) THEN <<n>> ELSE <<>>
  BY WithinSingle
<1> HIDE DEF w
<1>2. CASE n \in Mine(o)
  <2>1. w = <<n>> /\ EventOf[n] = n.event
    BY <1>1, <1>2 DEF EventOf
  <2>2. Mapped(EventOf, <<n>>) = <<n.event>>
    BY <2>1 DEF Mapped
  <2> QED
    BY <1>2, <2>1, <2>2 DEF Calls, w
<1>3. CASE n \notin Mine(o)
  <2>1. w = <<>>
    BY <1>1, <1>3
  <2>2. Mapped(EventOf, <<>>) = <<>>
    BY DEF Mapped
  <2> QED
    BY <1>3, <2>1, <2>2 DEF Calls, w
<1> QED
  BY <1>2, <1>3

\* The notifications of setupNotification(): one of each event, to the same observers.
Notices(events, to) == [i \in DOMAIN events |-> [event |-> events[i], to |-> to]]

\* They lead to a call of each of the observers for every event its filter accepts.
NoticesTell(o, events, to) ==
    /\ Notices(events, to) \in Seq(Note)
    /\ Calls(o, Notices(events, to)) =
          IF o \in ToSet(to)
          THEN Within(events, [type : {"bind", "unbind"}, binding : Matches[o]])
          ELSE <<>>

LEMMA CallsOfNotices ==
    ASSUME NEW o \in Observers, NEW events \in Seq(Event), NEW to \in Seq(Observers)
    PROVE  NoticesTell(o, events, to)
<1> DEFINE mk == [e \in Event |-> [event |-> e, to |-> to]]
           N == Notices(events, to)
           R == IF o \in ToSet(to) THEN [type : {"bind", "unbind"}, binding : Matches[o]]
                ELSE {}
           w == Within(events, R)
<1>1. mk \in [Event -> Note] /\ \A e \in Event : mk[e] = [event |-> e, to |-> to]
  BY DEF Note
<1>2. N = Mapped(mk, events)
  <2>1. \A i \in DOMAIN events : events[i] \in Event
    OBVIOUS
  <2> QED
    BY <2>1 DEF Notices, Mapped
<1>3. \A e \in Event : e \in R <=> mk[e] \in Mine(o)
  <2>1. \A e \in Event : mk[e] \in Note /\ mk[e].to = to /\ mk[e].event = e
    BY <1>1
  <2>2. Contains(to, o) <=> o \in ToSet(to)
    BY ContainsIs
  <2>3. \A e \in Event : mk[e] \in Mine(o) <=> Contains(to, o) /\ e.binding \in Matches[o]
    BY <2>1 DEF Mine, Accepting
  <2>4. \A e \in Event : e \in [type : {"bind", "unbind"}, binding : Matches[o]]
                            <=> e.binding \in Matches[o]
    BY DEF Event
  <2> HIDE DEF mk
  <2> QED
    BY <2>2, <2>3, <2>4
<1> HIDE DEF mk, R
<1>4. /\ Mapping(mk, events, Event, Note)
  BY <1>1, MappedAppend, Zenon
<1>5. N \in Seq(Note) /\ Len(N) = Len(events)
  BY <1>2, <1>4 DEF Mapping
<1>7. Within(N, Mine(o)) = Mapped(mk, w)
  <2>1. \A e \in ToSet(events) : e \in R <=> mk[e] \in Mine(o)
    <3>1. \A e \in ToSet(events) : e \in Event
      BY DEF ToSet
    <3> QED
      BY <3>1, <1>3
  <2> DEFINE M == Mine(o)
  <2> HIDE DEF M
  <2>3. \A e \in ToSet(events) : e \in R <=> mk[e] \in M
    BY <2>1 DEF M
  <2>4. mk \in [Event -> Note]
    BY <1>1
  <2>2. Commuting(mk, events, R, M)
    BY <2>3, <2>4, WithinMapped, Zenon
  <2> QED
    BY <2>2, <1>2 DEF M, Commuting
<1>8. Mapped(EventOf, Mapped(mk, w)) = w
  <2>1. w \in Seq(Event)
    BY WithinType
  <2> HIDE DEF w
  <2>2. \A i \in DOMAIN w : EventOf[mk[w[i]]] = w[i]
    BY <2>1, <1>1 DEF EventOf
  <2>3. DOMAIN Mapped(mk, w) = DOMAIN w /\ \A i \in DOMAIN w : Mapped(mk, w)[i] = mk[w[i]]
    BY DEF Mapped
  <2>4. Mapped(EventOf, Mapped(mk, w)) = [i \in DOMAIN w |-> EventOf[mk[w[i]]]]
    BY <2>3 DEF Mapped
  <2>5. w = [i \in DOMAIN w |-> w[i]]
    BY <2>1
  <2> QED
    BY <2>2, <2>4, <2>5, Zenon
<1>9. Calls(o, N) = w
  BY <1>7, <1>8 DEF Calls
<1>10. w = IF o \in ToSet(to)
           THEN Within(events, [type : {"bind", "unbind"}, binding : Matches[o]]) ELSE <<>>
  <2>1. CASE o \in ToSet(to)
    BY <2>1 DEF R
  <2>2. CASE o \notin ToSet(to)
    <3>1. R = {}
      BY <2>2 DEF R
    <3>2. w \in Seq(Event) /\ ToSet(w) = ToSet(events) \cap R
      BY WithinType, WithinElements
    <3> HIDE DEF w
    <3>3. w = <<>>
      <4>1. \A i \in DOMAIN w : w[i] \in ToSet(w)
        BY DEF ToSet
      <4>3. ToSet(w) = {} /\ DOMAIN w = 1 .. Len(w)
        BY <3>1, <3>2
      <4>2. Len(w) \notin Nat \ {0}
        <5>1. ASSUME Len(w) \in Nat \ {0} PROVE FALSE
          <6>1. 1 \in DOMAIN w
            BY <5>1, <4>3
          <6> QED
            BY <6>1, <4>1, <4>3
        <5> QED
          BY <5>1
      <4> QED
        BY <4>2, <3>2, EmptySeq
    <3> QED
      BY <3>3, <2>2
  <2> QED
    BY <2>1, <2>2
<1> HIDE DEF w
<1> QED
  BY <1>5, <1>9, <1>10, Zenon DEF NoticesTell

\* What is left of the events an observer is still to hear of when notifications come
\* first: those being processed, then those queued.
LEMMA InboxIs ==
    ASSUME NEW o \in Observers, NEW s \in Maybe(Note), NEW t \in Seq(Note)
    PROVE  EventsOf(CallsOf(o, s \o t)) = Calls(o, s) \o Calls(o, t)
<1>1. s \in Seq(Note)
  BY MaybeOne
<1>2. s \o t \in Seq(Note)
  BY <1>1
<1>3. CallsLaws(o, s) /\ CallsLaws(o, s \o t)
  BY <1>1, <1>2, CallsOfSequences, Zenon
<1> QED
  BY <1>3 DEF CallsLaws

---------------------------------------------------------------------------
(* Lists of observers and of notifications *)

\* What is left of a list of observers of a context is one, too.
LEMMA ListsClosed ==
    ASSUME NEW c \in Contexts, NEW s \in Lists(c)
    PROVE  /\ <<>> \in Lists(c)
           /\ \A S : Within(s, S) \in Lists(c)
           /\ \A o : RemoveFirst(s, o) \in Lists(c)
           /\ s # <<>> => /\ Tail(s) \in Lists(c) /\ Head(s) \in Observers
                          /\ ToSet(s) = {Head(s)} \cup ToSet(Tail(s))
                          /\ Head(s) \notin ToSet(Tail(s)) /\ ContextOf[Head(s)] = c
<1>1. s \in Seq(Observers) /\ IsInjective(s) /\ \A o \in ToSet(s) : ContextOf[o] = c
  BY DEF Lists
<1>2. \A o \in ToSet(s) : o \in Observers
  BY <1>1 DEF ToSet
<1>3. <<>> \in Lists(c)
  <2>1. <<>> \in Seq(Observers) /\ IsInjective(<<>>) /\ ToSet(<<>>) = {}
    BY DEF IsInjective, ToSet
  <2> QED
    BY <2>1 DEF Lists
<1>4. ASSUME NEW S PROVE Within(s, S) \in Lists(c)
  <2>1. /\ Within(s, S) \in Seq(Observers) /\ IsInjective(Within(s, S))
        /\ ToSet(Within(s, S)) = ToSet(s) \cap S
    BY <1>1, WithinType, WithinElements
  <2> QED
    BY <2>1, <1>1, <1>2 DEF Lists
<1>5. ASSUME NEW o PROVE RemoveFirst(s, o) \in Lists(c)
  <2>1. /\ RemoveFirst(s, o) \in Seq(Observers) /\ IsInjective(RemoveFirst(s, o))
        /\ ToSet(RemoveFirst(s, o)) = ToSet(s) \ {o}
    BY <1>1, RemovedFirst
  <2> QED
    BY <2>1, <1>1, <1>2 DEF Lists
<1>6. ASSUME s # <<>>
      PROVE  /\ Tail(s) \in Lists(c) /\ Head(s) \in Observers
             /\ ToSet(s) = {Head(s)} \cup ToSet(Tail(s))
             /\ Head(s) \notin ToSet(Tail(s)) /\ ContextOf[Head(s)] = c
  <2>1. /\ Tail(s) \in Seq(Observers) /\ IsInjective(Tail(s)) /\ Head(s) \notin ToSet(Tail(s))
        /\ Head(s) \in Observers /\ ToSet(s) = {Head(s)} \cup ToSet(Tail(s))
    BY <1>1, <1>6, TailOnce
  <2> QED
    BY <2>1, <1>1, <1>2 DEF Lists
<1> QED
  BY <1>3, <1>4, <1>5, <1>6

\* A notification of a context and what is known of it.
LEMMA NotesAre ==
    ASSUME NEW c \in Contexts, NEW n \in Notes(c)
    PROVE  /\ n \in Note /\ n.event \in Event /\ n.to \in Lists(c) /\ n.to \in Seq(Observers)
           /\ \A o : Contains(n.to, o) <=> o \in ToSet(n.to)
           /\ \A t \in Lists(c) : /\ [n EXCEPT !.to = t] \in Notes(c)
                                  /\ [n EXCEPT !.to = t].to = t
                                  /\ [n EXCEPT !.to = t].event = n.event
<1>1. n \in Note /\ n.event \in Event /\ n.to \in Lists(c) /\ n.to \in Seq(Observers)
  BY DEF Notes, Note, Lists
<1>2. \A o : Contains(n.to, o) <=> o \in ToSet(n.to)
  BY <1>1, ContainsIs
<1>3. ASSUME NEW t \in Lists(c)
      PROVE  /\ [n EXCEPT !.to = t] \in Notes(c) /\ [n EXCEPT !.to = t].to = t
             /\ [n EXCEPT !.to = t].event = n.event
  <2>1. t \in Seq(Observers)
    BY DEF Lists
  <2>2. n = [event |-> n.event, to |-> n.to]
    BY <1>1 DEF Note
  <2>3. [n EXCEPT !.to = t] = [event |-> n.event, to |-> t]
    BY <2>2
  <2> QED
    BY <2>1, <2>3, <1>1 DEF Notes, Note
<1> QED
  BY <1>1, <1>2, <1>3

\* Notifications of a context are notifications.
LEMMA NotesInSequence ==
    ASSUME NEW c, NEW s \in Seq(Notes(c))
    PROVE  /\ s \in Seq(Note)
           /\ s # <<>> => /\ Head(s) \in Notes(c) /\ Tail(s) \in Seq(Notes(c))
                          /\ Len(Tail(s)) = Len(s) - 1 /\ s = <<Head(s)>> \o Tail(s)
                          /\ <<Head(s)>> \in Seq(Note)
           /\ \A n \in 0 .. Len(s) : /\ SubSeq(s, 1, n) \in Seq(Notes(c))
                                     /\ Len(SubSeq(s, 1, n)) <= Len(s)
           /\ \A t \in Seq(Notes(c)) : s \o t \in Seq(Notes(c))
<1>1. Notes(c) \subseteq Note
  BY DEF Notes
<1>2. s \in Seq(Note)
  BY <1>1
<1>3. ASSUME s # <<>>
      PROVE  /\ Head(s) \in Notes(c) /\ Tail(s) \in Seq(Notes(c))
             /\ Len(Tail(s)) = Len(s) - 1 /\ s = <<Head(s)>> \o Tail(s)
  BY <1>3
<1>4. ASSUME s # <<>> PROVE <<Head(s)>> \in Seq(Note)
  BY <1>1, <1>3, <1>4
<1> QED
  BY <1>2, <1>3, <1>4

LEMMA UnderwayAre ==
    ASSUME NEW c, NEW s \in Maybe(Underway(c))
    PROVE  s \in Maybe(Note) /\ s \in Seq(Note) /\ (s # <<>> => s[1] \in Underway(c))
<1>1. Underway(c) \subseteq Note
  BY DEF Underway, Notes
<1>2. s \in Maybe(Note)
  BY <1>1 DEF Maybe
<1> QED
  BY <1>2, MaybeOne

---------------------------------------------------------------------------
(* What is emitted *)

\* Observer o is subscribed where an event of context c about the key of b arrives.
Told(o, c, b) ==
    /\ o \in ToSet(observers[ContextOf[o]])
    /\ ContextOf[o] >= c
    /\ \A e \in c + 1 .. ContextOf[o] : SameKey(e, b) = {}

\* What o hears of some events.
Accepted(o, events) == Within(events, [type : {"bind", "unbind"}, binding : Matches[o]])

\* The queues remain lists of notifications, and grow by what an observer is to hear.
Emitted(c, b, events) ==
    /\ queue' \in [Contexts -> Seq(Note)]
    /\ \A d \in Contexts : queue'[d] \in Seq(Notes(d))
    /\ \A d \in Contexts : Len(queue'[d]) + Len(busy[d]) <= MaxPending
    /\ \A o \in Observers :
          Calls(o, queue'[ContextOf[o]]) =
             Calls(o, queue[ContextOf[o]])
                \o (IF Told(o, c, b) THEN Accepted(o, events) ELSE <<>>)

LEMMA EmitTells ==
    ASSUME EventsInv, NEW c \in Contexts, NEW b \in Bindings, NEW events \in Seq(Event),
           Emit(c, b, events)
    PROVE  Emitted(c, b, events)
<1> DEFINE told == {d \in Reach(c, b) : observers[d] # <<>>}
           new(d) == Notices(events, observers[d])
<1>1. /\ observers \in [Contexts -> Seq(Observers)] /\ queue \in [Contexts -> Seq(Note)]
      /\ \A d \in Contexts : observers[d] \in Lists(d) /\ queue[d] \in Seq(Notes(d))
  BY DEF EventsInv, EventsShape
<1>2. /\ queue' = [d \in Contexts |-> IF d \in told THEN queue[d] \o new(d) ELSE queue[d]]
      /\ \A d \in Contexts : Len(queue'[d]) + Len(busy[d]) <= MaxPending
  BY DEF Emit, Notices
<1>3. ASSUME NEW d \in Contexts PROVE new(d) \in Seq(Notes(d))
  <2> DEFINE N == Notices(events, observers[d])
  <2>1. observers[d] \in Lists(d) /\ observers[d] \in Seq(Observers)
    BY <1>1
  <2>2. \A i \in DOMAIN events : events[i] \in Event
    OBVIOUS
  <2>3. \A i \in DOMAIN events : [event |-> events[i], to |-> observers[d]] \in Notes(d)
    BY <2>1, <2>2 DEF Notes, Note
  <2>4. Len(events) \in Nat /\ DOMAIN events = 1 .. Len(events)
    OBVIOUS
  <2> QED
    BY <2>3, <2>4 DEF Notices
<1>4. ASSUME NEW d \in Contexts
      PROVE  queue'[d] \in Seq(Notes(d)) /\ queue'[d] \in Seq(Note)
             /\ queue'[d] = IF d \in told THEN queue[d] \o new(d) ELSE queue[d]
  <2>1. queue'[d] = IF d \in told THEN queue[d] \o new(d) ELSE queue[d]
    BY <1>2
  <2>2. queue'[d] \in Seq(Notes(d))
    BY <2>1, <1>1, <1>3, NotesInSequence
  <2> QED
    BY <2>1, <2>2, NotesInSequence
<1>5. queue' \in [Contexts -> Seq(Note)]
  BY <1>2, <1>4
<1>6. ASSUME NEW o \in Observers
      PROVE  Calls(o, queue'[ContextOf[o]]) =
                Calls(o, queue[ContextOf[o]])
                   \o (IF Told(o, c, b) THEN Accepted(o, events) ELSE <<>>)
  <2> DEFINE d == ContextOf[o]
             q == queue[d]
             N == Notices(events, observers[d])
  <2>1. d \in Contexts
    BY EventConstants
  <2>2. q \in Seq(Note) /\ observers[d] \in Seq(Observers)
    BY <1>1, <2>1
  <2>3. /\ N \in Seq(Note)
        /\ Calls(o, N) = IF o \in ToSet(observers[d]) THEN Accepted(o, events) ELSE <<>>
    <3>1. NoticesTell(o, events, observers[d])
      BY <2>2, CallsOfNotices, Zenon
    <3> QED
      BY <3>1, Zenon DEF NoticesTell, Accepted
  <2>4. /\ Calls(o, q) \in Seq(Event)
        /\ Calls(o, q \o N) = Calls(o, q) \o Calls(o, N)
    <3>1. CallsLaws(o, q)
      BY <2>2, CallsOfSequences
    <3> QED
      BY <3>1, <2>3, Zenon DEF CallsLaws
  <2>5. o \in ToSet(observers[d]) => (d \in told <=> Told(o, c, b))
    <3>1. SUFFICES ASSUME o \in ToSet(observers[d]) PROVE d \in told <=> Told(o, c, b)
      OBVIOUS
    <3>2. observers[d] # <<>>
      BY <3>1 DEF ToSet
    <3>3. \A e \in 1 .. d : setup[e]
      BY <3>2, <2>1 DEF EventsInv
    <3>4. d \in Nat /\ d <= Depth /\ c \in Nat /\ c >= 1
      BY <2>1 DEF Contexts
    <3>5. d \in Reach(c, b) <=> d >= c /\ \A e \in c + 1 .. d : SameKey(e, b) = {}
      <4>1. \A e \in c + 1 .. d : setup[e]
        BY <3>3, <3>4
      <4>2. d \in c .. Depth <=> d >= c
        BY <3>4, EventConstants
      <4> QED
        BY <4>1, <4>2 DEF Reach
    <3> QED
      BY <3>1, <3>2, <3>5 DEF Told
  <2>6. queue'[d] = IF d \in told THEN q \o N ELSE q
    BY <2>1, <1>4
  <2>7. Calls(o, q) \o <<>> = Calls(o, q)
    BY <2>4
  <2> HIDE DEF q, N, told
  <2>8. CASE o \in ToSet(observers[d]) /\ Told(o, c, b)
    <3>1. queue'[d] = q \o N /\ Calls(o, N) = Accepted(o, events)
      BY <2>3, <2>5, <2>6, <2>8
    <3> QED
      BY <3>1, <2>4, <2>8, Zenon DEF q
  <2>9. CASE o \in ToSet(observers[d]) /\ ~Told(o, c, b)
    BY <2>3, <2>5, <2>6, <2>7, <2>9 DEF q
  <2>10. CASE o \notin ToSet(observers[d])
    <3>1. ~Told(o, c, b)
      BY <2>10 DEF Told
    <3>2. Calls(o, q \o N) = Calls(o, q)
      BY <2>3, <2>4, <2>7, <2>10
    <3> QED
      BY <3>1, <3>2, <2>6, <2>7 DEF q
  <2> QED
    BY <2>8, <2>9, <2>10 DEF q
<1> QED
  BY <1>2, <1>4, <1>5, <1>6 DEF Emitted

---------------------------------------------------------------------------
(* The invariant of the events *)

\* What concerns the registry, the subscriptions and the notifications.
Bound == /\ registry \in [Contexts -> SUBSET Bindings]
         /\ \A c \in Contexts, x, y \in Bindings :
               {x, y} \subseteq registry[c] /\ KeyOf[x] = KeyOf[y] => x = y

Subscribed == /\ observers \in [Contexts -> Seq(Observers)]
              /\ setup \in [Contexts -> BOOLEAN] /\ closed \in [Contexts -> BOOLEAN]
              /\ \A c \in Contexts : observers[c] \in Lists(c)
              /\ \A c \in Contexts : observers[c] # <<>> => setup[c]
              /\ \A c \in Contexts : setup[c] => \A e \in 1 .. c : setup[e]

Queued == /\ queue \in [Contexts -> Seq(Note)] /\ busy \in [Contexts -> Maybe(Note)]
          /\ missed \subseteq Observers
          /\ \A c \in Contexts : queue[c] \in Seq(Notes(c))
          /\ \A c \in Contexts : busy[c] \in Maybe(Underway(c))
          /\ \A c \in Contexts : Len(queue[c]) + Len(busy[c]) <= MaxPending

LEMMA EventsInvParts == EventsInv <=> Bound /\ Subscribed /\ Queued
BY Zenon DEF EventsInv, EventsShape, Bound, Subscribed, Queued

LEMMA EventsInvPartsNext == EventsInv' <=> Bound' /\ Subscribed' /\ Queued'
BY Zenon DEF EventsInv, EventsShape, Bound, Subscribed, Queued

LEMMA BoundKept == ASSUME Bound, UNCHANGED registry PROVE Bound'
BY DEF Bound

LEMMA SubscribedKept ==
    ASSUME Subscribed, UNCHANGED <<observers, setup, closed>> PROVE Subscribed'
BY DEF Subscribed

LEMMA QueuedKept == ASSUME Queued, UNCHANGED taskVars PROVE Queued'
BY DEF Queued, taskVars

\* An observer's calls: those of the notification being processed, then the queued ones.
LEMMA InboxParts ==
    ASSUME Queued, NEW o \in Observers
    PROVE  Inbox(o) = Calls(o, busy[ContextOf[o]]) \o Calls(o, queue[ContextOf[o]])
<1> DEFINE c == ContextOf[o]
<1>1. c \in Contexts
  BY EventConstants
<1>2. busy[c] \in Maybe(Note) /\ queue[c] \in Seq(Note)
  BY <1>1 DEF Queued
<1>3. Inbox(o) = EventsOf(CallsOf(o, busy[c] \o queue[c]))
  BY DEF Inbox
<1> HIDE DEF c
<1> QED
  BY <1>2, <1>3, InboxIs DEF c

LEMMA InboxPartsNext ==
    ASSUME Queued', NEW o \in Observers
    PROVE  Inbox(o)' = Calls(o, busy'[ContextOf[o]]) \o Calls(o, queue'[ContextOf[o]])
<1> DEFINE c == ContextOf[o]
<1>1. c \in Contexts
  BY EventConstants
<1>2. busy'[c] \in Maybe(Note) /\ queue'[c] \in Seq(Note)
  BY <1>1 DEF Queued
<1>3. Inbox(o)' = EventsOf(CallsOf(o, busy'[c] \o queue'[c]))
  BY DEF Inbox
<1> HIDE DEF c
<1> QED
  BY <1>2, <1>3, InboxIs DEF c

\* The calls of what is under way and of what is queued in a context.
LEMMA CallsTypes ==
    ASSUME Queued, NEW o \in Observers
    PROVE  /\ Calls(o, busy[ContextOf[o]]) \in Seq(Event)
           /\ Calls(o, queue[ContextOf[o]]) \in Seq(Event) /\ Inbox(o) \in Seq(Event)
<1> DEFINE c == ContextOf[o]
<1>1. c \in Contexts
  BY EventConstants
<1>2. busy[c] \in Maybe(Note) /\ queue[c] \in Seq(Note)
  BY <1>1 DEF Queued
<1>3. busy[c] \in Seq(Note)
  BY <1>2, MaybeOne
<1>4. CallsLaws(o, busy[c]) /\ CallsLaws(o, queue[c])
  BY <1>2, <1>3, CallsOfSequences, Zenon
<1>5. Calls(o, busy[c]) \in Seq(Event) /\ Calls(o, queue[c]) \in Seq(Event)
  BY <1>4 DEF CallsLaws
<1> DEFINE x == Calls(o, busy[c])
           y == Calls(o, queue[c])
<1>6. Inbox(o) = x \o y /\ x \in Seq(Event) /\ y \in Seq(Event)
  BY <1>5, InboxParts
<1> HIDE DEF x, y
<1>7. x \o y \in Seq(Event)
  BY <1>6, ConcatProperties
<1> QED
  BY <1>5, <1>6, <1>7

\* Events are emitted: the queues are what they should be, and each observer is to
\* hear, after all else, of those it is told and accepts.
LEMMA EmitKeeps ==
    ASSUME EventsInv, NEW c \in Contexts, NEW b \in Bindings, NEW events \in Seq(Event),
           Emit(c, b, events), UNCHANGED <<busy, missed>>
    PROVE  /\ Queued'
           /\ \A o \in Observers :
                 Inbox(o)' = Inbox(o)
                    \o (IF Told(o, c, b) THEN Accepted(o, events) ELSE <<>>)
<1>1. Queued /\ Emitted(c, b, events)
  BY EventsInvParts, EmitTells
<1>2. Queued'
  BY <1>1 DEF Queued, Emitted
<1>3. ASSUME NEW o \in Observers
      PROVE  Inbox(o)' = Inbox(o)
                \o (IF Told(o, c, b) THEN Accepted(o, events) ELSE <<>>)
  <2> DEFINE d == ContextOf[o]
             x == Calls(o, busy[d])
             y == Calls(o, queue[d])
             z == IF Told(o, c, b) THEN Accepted(o, events) ELSE <<>>
  <2>1. x \in Seq(Event) /\ y \in Seq(Event)
    BY <1>1, CallsTypes
  <2>2. z \in Seq(Event)
    <3>1. Accepted(o, events) \in Seq(Event)
      BY WithinType DEF Accepted
    <3> QED
      BY <3>1
  <2>3. Inbox(o) = x \o y /\ Inbox(o)' = x \o Calls(o, queue'[d])
    BY <1>1, <1>2, InboxParts, InboxPartsNext
  <2>4. Calls(o, queue'[d]) = y \o z
    BY <1>1 DEF Emitted
  <2> HIDE DEF x, y, z
  <2>5. (x \o y) \o z = x \o (y \o z)
    <3>1. Associative(x, y, z)
      BY <2>1, <2>2, ThreeInARow
    <3> QED
      BY <3>1 DEF Associative
  <2> QED
    BY <2>3, <2>4, <2>5, Zenon DEF z
<1> QED
  BY <1>2, <1>3

\* The events that add() emits.
AddEvents(c, b) ==
    Append([i \in 1 .. Cardinality(SameKey(c, b)) |->
              Unbound(CHOOSE x \in SameKey(c, b) : TRUE)], Bind(b))

\* At most one binding is replaced.
LEMMA OneReplaced ==
    ASSUME Bound, NEW c \in Contexts, NEW b \in Bindings
    PROVE  SameKey(c, b) = {} \/ \E x \in Bindings : SameKey(c, b) = {x} /\ x \in registry[c]
<1>1. \A x \in SameKey(c, b) : x \in Bindings /\ x \in registry[c] /\ KeyOf[x] = KeyOf[b]
  BY DEF SameKey, Bound
<1>2. \A x, y \in SameKey(c, b) : x = y
  BY <1>1 DEF Bound
<1> QED
  BY <1>1, <1>2

LEMMA AddEventsAre ==
    ASSUME Bound, NEW c \in Contexts, NEW b \in Bindings
    PROVE  /\ AddEvents(c, b) \in Seq(Event)
           /\ AddEvents(c, b) = SetToSeq([type : {"unbind"}, binding : SameKey(c, b)])
                                  \o <<Bind(b)>>
<1>1. Bind(b) \in Event /\ \A x \in Bindings : Unbound(x) \in Event
  BY DEF Bind, Unbound, Event
<1>2. CASE SameKey(c, b) = {}
  <2>1. Cardinality(SameKey(c, b)) = 0 /\ IsFiniteSet({})
    BY <1>2, FS_EmptySet
  <2>2. AddEvents(c, b) = Append(<<>>, Bind(b))
    <3>1. [i \in 1 .. 0 |-> Unbound(CHOOSE x \in SameKey(c, b) : TRUE)] = <<>>
      OBVIOUS
    <3> QED
      BY <2>1, <3>1 DEF AddEvents
  <2>3. [type : {"unbind"}, binding : SameKey(c, b)] = {}
    BY <1>2
  <2>4. SetToSeq({}) = <<>>
    <3>1. SetToSeq({}) \in Seq({}) /\ Len(SetToSeq({})) = 0
      BY <2>1, SetAsSequence, FS_EmptySet
    <3> QED
      BY <3>1
  <2>5. Append(<<>>, Bind(b)) = <<Bind(b)>> /\ <<>> \o <<Bind(b)>> = <<Bind(b)>>
    OBVIOUS
  <2>6. <<Bind(b)>> \in Seq(Event)
    BY <1>1
  <2> QED
    BY <2>2, <2>3, <2>4, <2>5, <2>6
<1>3. CASE SameKey(c, b) # {}
  <2>1. PICK x \in Bindings : SameKey(c, b) = {x}
    BY <1>3, OneReplaced
  <2> DEFINE u == Unbound(x)
  <2>2. Cardinality(SameKey(c, b)) = 1 /\ (CHOOSE y \in SameKey(c, b) : TRUE) = x
    BY <2>1, FS_Singleton
  <2>3. [i \in 1 .. 1 |-> Unbound(CHOOSE y \in SameKey(c, b) : TRUE)] = <<u>>
    <3>1. [i \in 1 .. 1 |-> Unbound(CHOOSE y \in SameKey(c, b) : TRUE)] = [i \in 1 .. 1 |-> u]
      <4>1. Unbound(CHOOSE y \in SameKey(c, b) : TRUE) = u
        BY <2>2, Zenon
      <4> QED
        BY <4>1, Zenon
    <3> HIDE DEF u
    <3>2. [i \in 1 .. 1 |-> u] = <<u>>
      OBVIOUS
    <3> QED
      BY <3>1, <3>2
  <2>4. [type : {"unbind"}, binding : SameKey(c, b)] = {u}
    <3>1. ASSUME NEW r \in [type : {"unbind"}, binding : {x}] PROVE r = u
      <4>1. r = [type |-> r.type, binding |-> r.binding] /\ r.type = "unbind" /\ r.binding = x
        OBVIOUS
      <4> QED
        BY <4>1 DEF Unbound
    <3>2. u \in [type : {"unbind"}, binding : {x}]
      BY DEF Unbound
    <3> QED
      BY <3>1, <3>2, <2>1
  <2>5. IsFiniteSet({u}) /\ Cardinality({u}) = 1 /\ u \in Event
    BY <1>1, FS_Singleton
  <2> DEFINE v == Bind(b)
  <2>8. v \in Event
    BY <1>1
  <2>9. AddEvents(c, b) = Append(<<u>>, v)
    BY <2>2, <2>3 DEF AddEvents
  <2> HIDE DEF u, v
  <2>6. SetToSeq({u}) = <<u>>
    <3> DEFINE s == SetToSeq({u})
    <3>1. s \in Seq({u}) /\ Len(s) = 1
      BY <2>5, SetAsSequence
    <3> HIDE DEF s
    <3>2. s = <<u>>
      BY <3>1
    <3> QED
      BY <3>2 DEF s
  <2>7. Append(<<u>>, v) = <<u>> \o <<v>> /\ Append(<<u>>, v) \in Seq(Event)
    BY <2>5, <2>8
  <2> QED
    BY <2>4, <2>6, <2>7, <2>9, Zenon DEF v
<1> QED
  BY <1>2, <1>3

\* add(): keys stay apart, and the observers that are told hear of the binding that is
\* replaced and of the new one.
LEMMA AddKeeps ==
    ASSUME EventsInv, NEW c \in Contexts, NEW b \in Bindings, Add(c, b)
    PROVE  /\ EventsInv'
           /\ \A o \in Observers :
                 Inbox(o)' = Inbox(o)
                    \o (IF Told(o, c, b) THEN Accepted(o, AddEvents(c, b)) ELSE <<>>)
<1>1. Bound /\ Subscribed /\ Queued
  BY EventsInvParts
<1>2. Emit(c, b, AddEvents(c, b)) /\ UNCHANGED <<observers, setup, closed, busy, missed>>
      /\ registry' = [registry EXCEPT ![c] = (@ \ SameKey(c, b)) \cup {b}]
  BY Zenon DEF Add, AddEvents
<1>3. AddEvents(c, b) \in Seq(Event)
  BY <1>1, AddEventsAre
<1>4. /\ Queued'
      /\ \A o \in Observers :
            Inbox(o)' = Inbox(o)
               \o (IF Told(o, c, b) THEN Accepted(o, AddEvents(c, b)) ELSE <<>>)
  <2> DEFINE ev == AddEvents(c, b)
  <2>1. ev \in Seq(Event) /\ Emit(c, b, ev) /\ UNCHANGED <<busy, missed>>
    BY <1>2, <1>3
  <2> HIDE DEF ev
  <2>2. /\ Queued'
        /\ \A o \in Observers :
              Inbox(o)' = Inbox(o) \o (IF Told(o, c, b) THEN Accepted(o, ev) ELSE <<>>)
    BY <2>1, EmitKeeps
  <2> QED
    BY <2>2 DEF ev
<1>5. Bound'
  BY <1>1, <1>2 DEF Bound, SameKey
<1>6. Subscribed'
  BY <1>1, <1>2, SubscribedKept
<1> QED
  BY <1>4, <1>5, <1>6, EventsInvPartsNext

\* unbind(), likewise.
LEMMA UnbindKeeps ==
    ASSUME EventsInv, NEW c \in Contexts, NEW b \in Bindings, Unbind(c, b)
    PROVE  /\ EventsInv' /\ <<Unbound(b)>> \in Seq(Event)
           /\ \A o \in Observers :
                 Inbox(o)' = Inbox(o)
                    \o (IF Told(o, c, b) THEN Accepted(o, <<Unbound(b)>>) ELSE <<>>)
<1>1. Bound /\ Subscribed /\ Queued
  BY EventsInvParts
<1>2. /\ Emit(c, b, <<Unbound(b)>>) /\ UNCHANGED <<observers, setup, closed, busy, missed>>
      /\ registry' = [registry EXCEPT ![c] = @ \ {b}]
  BY DEF Unbind
<1> DEFINE ev == <<Unbound(b)>>
<1>3. ev \in Seq(Event)
  <2>1. Unbound(b) \in Event
    BY DEF Unbound, Event
  <2> QED
    BY <2>1
<1>4. /\ Queued'
      /\ \A o \in Observers :
            Inbox(o)' = Inbox(o) \o (IF Told(o, c, b) THEN Accepted(o, ev) ELSE <<>>)
  <2>1. Emit(c, b, ev) /\ UNCHANGED <<busy, missed>>
    BY <1>2
  <2> HIDE DEF ev
  <2> QED
    BY <2>1, <1>3, EmitKeeps
<1>5. Bound'
  BY <1>1, <1>2 DEF Bound
<1>6. Subscribed'
  BY <1>1, <1>2, SubscribedKept
<1> QED
  BY <1>3, <1>4, <1>5, <1>6, EventsInvPartsNext

\* subscribe(): the observer comes last, and the contexts above it are listened to.
LEMMA SubscribeKeeps ==
    ASSUME EventsInv, NEW o \in Observers, Subscribe(o)
    PROVE  /\ EventsInv'
           /\ \A p \in Observers : Inbox(p)' = Inbox(p)
           /\ \A c \in Contexts : ToSet(observers'[c]) =
                 IF c = ContextOf[o] THEN ToSet(observers[c]) \cup {o} ELSE ToSet(observers[c])
<1> DEFINE c == ContextOf[o]
           s == observers[c]
<1>1. Bound /\ Subscribed /\ Queued
  BY EventsInvParts
<1>2. c \in Contexts /\ Depth \in Nat \ {0}
  BY EventConstants
<1>3. s \in Lists(c) /\ s \in Seq(Observers) /\ IsInjective(s)
  BY <1>1, <1>2 DEF Subscribed, Lists
<1>4. /\ observers' = [observers EXCEPT ![c] = Append(@, o)] /\ o \notin ToSet(s)
      /\ setup' = IF setup[c] THEN setup ELSE [e \in Contexts |-> setup[e] \/ e <= c]
      /\ UNCHANGED <<registry, closed, queue, busy, missed>>
  BY <1>3, ContainsIs DEF Subscribe, taskVars
<1>5. /\ Append(s, o) \in Seq(Observers) /\ IsInjective(Append(s, o))
      /\ ToSet(Append(s, o)) = ToSet(s) \cup {o}
  BY <1>3, <1>4, AppendedOnce
<1>6. Append(s, o) \in Lists(c)
  BY <1>3, <1>5 DEF Lists
<1>7. observers' = [observers EXCEPT ![c] = Append(s, o)]
  BY <1>4
<1>8. Subscribed'
  <2>1. /\ observers' \in [Contexts -> Seq(Observers)] /\ closed' \in [Contexts -> BOOLEAN]
        /\ \A d \in Contexts : observers'[d] \in Lists(d)
        /\ \A d \in Contexts : d # c => observers'[d] = observers[d]
    <3> HIDE DEF c, s
    <3> QED
      BY <1>1, <1>2, <1>4, <1>5, <1>6, <1>7 DEF Subscribed
  <2>2. /\ setup' \in [Contexts -> BOOLEAN] /\ setup'[c]
        /\ \A d \in Contexts : setup[d] => setup'[d]
        /\ \A d \in Contexts : setup'[d] => setup[d] \/ d <= c
        /\ \A d \in Contexts : d <= c => setup'[d]
    <3> HIDE DEF c
    <3>1. \A d \in Contexts : d \in Nat /\ (d <= c => d \in 1 .. c)
      BY <1>2 DEF Contexts
    <3>2. CASE setup[c]
      BY <3>1, <3>2, <1>1, <1>2, <1>4 DEF Subscribed
    <3>3. CASE ~setup[c]
      <4>1. setup' = [e \in Contexts |-> setup[e] \/ e <= c]
        BY <3>3, <1>4
      <4>2. \A e \in Contexts : (setup[e] \/ e <= c) \in BOOLEAN
        BY <1>1 DEF Subscribed
      <4>3. c <= c
        BY <3>1, <1>2
      <4> QED
        BY <4>1, <4>2, <4>3, <1>2
    <3> QED
      BY <3>2, <3>3
  <2>3. \A d \in Contexts : observers'[d] # <<>> => setup'[d]
    BY <2>1, <2>2, <1>1 DEF Subscribed
  <2>4. \A d \in Contexts : setup'[d] => \A e \in 1 .. d : setup'[e]
    <3>1. SUFFICES ASSUME NEW d \in Contexts, setup'[d], NEW e \in 1 .. d PROVE setup'[e]
      OBVIOUS
    <3>2. e \in Contexts /\ e <= d /\ d \in Nat /\ c \in Nat
      BY <1>2 DEF Contexts
    <3>3. CASE setup[d]
      BY <3>2, <3>3, <2>2, <1>1 DEF Subscribed
    <3>4. CASE d <= c
      BY <3>2, <3>4, <2>2
    <3> QED
      BY <3>1, <3>3, <3>4, <2>2
  <2> QED
    BY <2>1, <2>2, <2>3, <2>4 DEF Subscribed
<1>9. Queued' /\ Bound'
  BY <1>1, <1>4, QueuedKept, BoundKept DEF taskVars
<1>10. \A p \in Observers : Inbox(p)' = Inbox(p)
  BY <1>4 DEF Inbox
<1>11. \A d \in Contexts : ToSet(observers'[d]) =
          IF d = c THEN ToSet(observers[d]) \cup {o} ELSE ToSet(observers[d])
  <2> HIDE DEF c
  <2> QED
    BY <1>1, <1>5, <1>7 DEF Subscribed
<1> QED
  BY <1>8, <1>9, <1>10, <1>11, EventsInvPartsNext

\* unsubscribe()
LEMMA UnsubscribeKeeps ==
    ASSUME EventsInv, NEW o \in Observers, Unsubscribe(o)
    PROVE  /\ EventsInv'
           /\ \A p \in Observers : Inbox(p)' = Inbox(p)
           /\ \A c \in Contexts : ToSet(observers'[c]) =
                 IF c = ContextOf[o] THEN ToSet(observers[c]) \ {o} ELSE ToSet(observers[c])
<1> DEFINE c == ContextOf[o]
           s == observers[c]
<1>1. Bound /\ Subscribed /\ Queued
  BY EventsInvParts
<1>2. c \in Contexts
  BY EventConstants
<1>3. s \in Lists(c) /\ s \in Seq(Observers) /\ IsInjective(s)
  BY <1>1, <1>2 DEF Subscribed, Lists
<1>4. /\ observers' = [observers EXCEPT ![c] = RemoveFirst(s, o)] /\ s # <<>>
      /\ UNCHANGED <<registry, setup, closed, queue, busy, missed>>
  BY DEF Unsubscribe, taskVars, Contains
<1>5. RemoveFirst(s, o) \in Lists(c) /\ ToSet(RemoveFirst(s, o)) = ToSet(s) \ {o}
      /\ RemoveFirst(s, o) \in Seq(Observers)
  BY <1>2, <1>3, ListsClosed, RemovedFirst
<1>6. /\ observers' \in [Contexts -> Seq(Observers)]
      /\ \A d \in Contexts : observers'[d] = IF d = c THEN RemoveFirst(s, o) ELSE observers[d]
  <2> HIDE DEF c, s
  <2> QED
    BY <1>1, <1>2, <1>4, <1>5 DEF Subscribed
<1>7. Subscribed'
  BY <1>1, <1>2, <1>3, <1>4, <1>5, <1>6 DEF Subscribed
<1>8. Queued' /\ Bound'
  BY <1>1, <1>4, QueuedKept, BoundKept DEF taskVars
<1>9. \A p \in Observers : Inbox(p)' = Inbox(p)
  BY <1>4 DEF Inbox
<1>10. \A d \in Contexts : ToSet(observers'[d]) =
          IF d = c THEN ToSet(observers[d]) \ {o} ELSE ToSet(observers[d])
  BY <1>5, <1>6
<1> QED
  BY <1>7, <1>8, <1>9, <1>10, EventsInvPartsNext

\* The task of a context, or close(), leaves it other notifications, no more than there
\* were: only the calls of its observers may change.
LEMMA TaskChange ==
    ASSUME Queued, NEW c \in Contexts, NEW q \in Seq(Notes(c)), NEW m \in Maybe(Underway(c)),
           Len(q) + Len(m) <= Len(queue[c]) + Len(busy[c]),
           queue' = [queue EXCEPT ![c] = q], busy' = [busy EXCEPT ![c] = m],
           missed' \subseteq Observers
    PROVE  /\ Queued'
           /\ \A o \in Observers :
                 Inbox(o)' = IF ContextOf[o] = c THEN Calls(o, m) \o Calls(o, q) ELSE Inbox(o)
<1>1. q \in Seq(Note) /\ m \in Maybe(Note)
  BY NotesInSequence, UnderwayAre
<1>2. /\ queue' \in [Contexts -> Seq(Note)] /\ busy' \in [Contexts -> Maybe(Note)]
      /\ \A d \in Contexts : queue'[d] = (IF d = c THEN q ELSE queue[d])
                             /\ busy'[d] = (IF d = c THEN m ELSE busy[d])
  BY <1>1 DEF Queued
<1>3. \A d \in Contexts : Len(queue'[d]) + Len(busy'[d]) <= MaxPending
  <2>1. \A d \in Contexts : Len(queue[d]) + Len(busy[d]) <= MaxPending
    BY DEF Queued
  <2>2. \A d \in Contexts : Len(queue[d]) \in Nat /\ Len(busy[d]) \in Nat
    BY MaybeOne DEF Queued
  <2>3. Len(q) \in Nat /\ Len(m) \in Nat
    BY <1>1, MaybeOne
  <2>4. Len(q) + Len(m) <= MaxPending
    <3> DEFINE a == Len(queue[c])
               b == Len(busy[c])
               d == Len(q)
               e == Len(m)
    <3>1. a \in Nat /\ b \in Nat /\ d \in Nat /\ e \in Nat /\ MaxPending \in Nat
      BY <2>2, <2>3, EventConstants
    <3>2. a + b <= MaxPending /\ d + e <= a + b
      BY <2>1
    <3> HIDE DEF a, b, d, e
    <3>3. d + e <= MaxPending
      BY <3>1, <3>2
    <3> QED
      BY <3>3 DEF d, e
  <2> QED
    BY <2>1, <2>4, <1>2
<1>4. Queued'
  BY <1>2, <1>3 DEF Queued
<1>5. ASSUME NEW o \in Observers
      PROVE  Inbox(o)' = IF ContextOf[o] = c THEN Calls(o, m) \o Calls(o, q) ELSE Inbox(o)
  <2>1. ContextOf[o] \in Contexts
    BY EventConstants
  <2>2. Inbox(o)' = Calls(o, busy'[ContextOf[o]]) \o Calls(o, queue'[ContextOf[o]])
    BY <1>4, InboxPartsNext
  <2>3. Inbox(o) = Calls(o, busy[ContextOf[o]]) \o Calls(o, queue[ContextOf[o]])
    BY InboxParts
  <2>4. CASE ContextOf[o] = c
    BY <2>2, <2>4, <1>2
  <2>5. CASE ContextOf[o] # c
    BY <2>1, <2>2, <2>3, <2>5, <1>2
  <2> QED
    BY <2>4, <2>5
<1> QED
  BY <1>4, <1>5

\* What is taken off a queue has the calls that it had there.
LEMMA FirstCalls ==
    ASSUME NEW c \in Contexts, NEW s \in Seq(Notes(c)), s # <<>>, NEW o
    PROVE  /\ Calls(o, s) = Calls(o, <<Head(s)>>) \o Calls(o, Tail(s))
           /\ Calls(o, Tail(s)) \in Seq(Event)
<1> DEFINE a == <<Head(s)>>
           b == Tail(s)
<1>1. s = a \o b /\ a \in Seq(Note) /\ b \in Seq(Note)
  BY NotesInSequence
<1> HIDE DEF a, b
<1>2. CallsLaws(o, a) /\ CallsLaws(o, b)
  BY <1>1, CallsOfSequences, Zenon
<1> QED
  BY <1>1, <1>2 DEF CallsLaws, a, b

\* The calls of one notification of a context.
LEMMA CallsOfNote ==
    ASSUME NEW c \in Contexts, NEW n \in Notes(c), NEW o
    PROVE  Calls(o, <<n>>) = IF o \in ToSet(n.to) /\ o \in Accepting(n.event)
                             THEN <<n.event>> ELSE <<>>
<1>1. n \in Note /\ (Contains(n.to, o) <=> o \in ToSet(n.to))
  BY NotesAre
<1>2. n \in Mine(o) <=> o \in ToSet(n.to) /\ o \in Accepting(n.event)
  BY <1>1 DEF Mine
<1>3. Calls(o, <<n>>) = IF n \in Mine(o) THEN <<n.event>> ELSE <<>>
  BY <1>1, CallsOfOne
<1> QED
  BY <1>2, <1>3, Zenon

LEMMA EmptyCalls == \A o : Calls(o, <<>>) = <<>>
<1>1. <<>> \in Seq(Note)
  OBVIOUS
<1> QED
  BY <1>1, CallsOfSequences DEF CallsLaws

\* What is under way in a context.
LEMMA BusyIs ==
    ASSUME Queued, NEW c \in Contexts, busy[c] # <<>>
    PROVE  /\ busy[c] = <<busy[c][1]>> /\ busy[c][1] \in Underway(c) /\ busy[c][1] \in Notes(c)
           /\ Len(busy[c]) = 1
           /\ \A o : Calls(o, busy[c]) =
                 IF o \in ToSet(busy[c][1].to) THEN <<busy[c][1].event>> ELSE <<>>
<1>1. busy[c] \in Maybe(Underway(c))
  BY DEF Queued
<1>2. busy[c] = <<busy[c][1]>> /\ busy[c][1] \in Underway(c) /\ Len(busy[c]) = 1
  BY <1>1, MaybeOne
<1>3. /\ busy[c][1] \in Notes(c)
      /\ ToSet(busy[c][1].to) \subseteq Accepting(busy[c][1].event)
  BY <1>2 DEF Underway
<1> DEFINE n == busy[c][1]
<1> HIDE DEF n
<1>4. ASSUME NEW o
      PROVE  Calls(o, <<n>>) = IF o \in ToSet(n.to) THEN <<n.event>> ELSE <<>>
  <2>1. Calls(o, <<n>>) = IF o \in ToSet(n.to) /\ o \in Accepting(n.event)
                          THEN <<n.event>> ELSE <<>>
    BY <1>3, CallsOfNote DEF n
  <2>2. o \in ToSet(n.to) => o \in Accepting(n.event)
    BY <1>3 DEF n
  <2> QED
    BY <2>1, <2>2, Zenon
<1> QED
  BY <1>2, <1>3, <1>4 DEF n

\* The task takes a notification: nobody is to hear of more or of less.
LEMMA TakeKeeps ==
    ASSUME EventsInv, NEW c \in Contexts, Take(c)
    PROVE  EventsInv' /\ \A o \in Observers : Inbox(o)' = Inbox(o)
<1> DEFINE n == Head(queue[c])
           w == Within(n.to, Accepting(n.event))
           r == [n EXCEPT !.to = w]
           q == Tail(queue[c])
<1>1. Bound /\ Subscribed /\ Queued
  BY EventsInvParts
<1>2. /\ busy[c] = <<>> /\ queue[c] # <<>> /\ queue[c] \in Seq(Notes(c))
      /\ queue' = [queue EXCEPT ![c] = q]
      /\ UNCHANGED <<registry, observers, setup, closed, missed>>
  BY <1>1 DEF Take, contextVars, Queued
<1>3. busy' = [busy EXCEPT ![c] = <<r>>]
  BY DEF Take
<1>4. n \in Notes(c) /\ q \in Seq(Notes(c)) /\ Len(q) = Len(queue[c]) - 1
      /\ Len(queue[c]) \in Nat
  BY <1>2, NotesInSequence
<1> HIDE DEF n, q
<1>5. n.to \in Lists(c) /\ n.to \in Seq(Observers)
  BY <1>4, NotesAre
<1>6. w \in Lists(c) /\ ToSet(w) = ToSet(n.to) \cap Accepting(n.event)
  BY <1>5, ListsClosed, WithinElements
<1> HIDE DEF w
<1>7. r \in Notes(c) /\ r.to = w /\ r.event = n.event
  BY <1>4, <1>6, NotesAre
<1> HIDE DEF r
<1>8. r \in Underway(c)
  BY <1>6, <1>7 DEF Underway
<1>9. <<r>> \in Maybe(Underway(c)) /\ Len(<<r>>) = 1 /\ Len(busy[c]) = 0
  BY <1>2, <1>8 DEF Maybe
<1>10. Len(q) + Len(<<r>>) <= Len(queue[c]) + Len(busy[c]) /\ missed' \subseteq Observers
  BY <1>1, <1>2, <1>4, <1>9 DEF Queued
<1>11. /\ Queued'
       /\ \A o \in Observers :
             Inbox(o)' = IF ContextOf[o] = c THEN Calls(o, <<r>>) \o Calls(o, q) ELSE Inbox(o)
  <2> DEFINE m == <<r>>
  <2>1. /\ m \in Maybe(Underway(c)) /\ Len(q) + Len(m) <= Len(queue[c]) + Len(busy[c])
        /\ busy' = [busy EXCEPT ![c] = m]
    BY <1>3, <1>9, <1>10
  <2> HIDE DEF m
  <2>2. /\ Queued'
        /\ \A o \in Observers :
              Inbox(o)' = IF ContextOf[o] = c THEN Calls(o, m) \o Calls(o, q) ELSE Inbox(o)
    BY <2>1, <1>1, <1>2, <1>4, <1>10, TaskChange
  <2> QED
    BY <2>2 DEF m
<1>12. ASSUME NEW o \in Observers PROVE Inbox(o)' = Inbox(o)
  <2>1. CASE ContextOf[o] # c
    BY <2>1, <1>11
  <2>2. CASE ContextOf[o] = c
    <3>1. Calls(o, <<r>>) = Calls(o, <<n>>)
      <4>1. Calls(o, <<r>>) = IF o \in ToSet(r.to) /\ o \in Accepting(r.event)
                              THEN <<r.event>> ELSE <<>>
        BY <1>7, CallsOfNote
      <4>2. Calls(o, <<n>>) = IF o \in ToSet(n.to) /\ o \in Accepting(n.event)
                              THEN <<n.event>> ELSE <<>>
        BY <1>4, CallsOfNote
      <4>3. r.event = n.event /\ (o \in ToSet(r.to) <=> o \in ToSet(n.to) /\ o \in Accepting(n.event))
        BY <1>6, <1>7
      <4> QED
        <5>1. CASE o \in ToSet(n.to) /\ o \in Accepting(n.event)
          <6>1. o \in ToSet(r.to) /\ o \in Accepting(r.event)
            BY <4>3, <5>1
          <6> QED
            BY <4>1, <4>2, <4>3, <5>1, <6>1
        <5>2. CASE ~(o \in ToSet(n.to) /\ o \in Accepting(n.event))
          <6>1. ~(o \in ToSet(r.to) /\ o \in Accepting(r.event))
            BY <4>3, <5>2
          <6> QED
            BY <4>1, <4>2, <5>2, <6>1
        <5> QED
          BY <5>1, <5>2
    <3>2. Calls(o, queue[c]) = Calls(o, <<n>>) \o Calls(o, q)
      BY <1>2, FirstCalls DEF n, q
    <3>3. Inbox(o) = Calls(o, busy[c]) \o Calls(o, queue[c])
      BY <2>2, <1>1, InboxParts
    <3>4. Calls(o, busy[c]) = <<>> /\ Calls(o, queue[c]) \in Seq(Event)
      BY <2>2, <1>1, <1>2, EmptyCalls, CallsTypes
    <3>5. Inbox(o) = Calls(o, queue[c])
      BY <3>3, <3>4
    <3>6. Inbox(o)' = Calls(o, <<r>>) \o Calls(o, q)
      BY <2>2, <1>11
    <3> QED
      BY <3>1, <3>2, <3>5, <3>6, Zenon
  <2> QED
    BY <2>1, <2>2
<1>13. Bound' /\ Subscribed'
  BY <1>1, <1>2, BoundKept, SubscribedKept
<1> QED
  BY <1>11, <1>12, <1>13, EventsInvPartsNext

\* The task goes on with what is under way, or is done with it: only the calls of that
\* notification change.
LEMMA BusyChange ==
    ASSUME EventsInv, NEW c \in Contexts, busy[c] # <<>>, NEW m \in Maybe(Underway(c)),
           busy' = [busy EXCEPT ![c] = m], UNCHANGED <<contextVars, queue>>,
           missed' \subseteq Observers
    PROVE  /\ EventsInv'
           /\ \A o \in Observers :
                 /\ Inbox(o) = Calls(o, busy[ContextOf[o]]) \o Calls(o, queue[ContextOf[o]])
                 /\ Calls(o, queue[ContextOf[o]]) \in Seq(Event)
                 /\ Inbox(o)' = IF ContextOf[o] = c THEN Calls(o, m) \o Calls(o, queue[c])
                                ELSE Inbox(o)
<1>1. Bound /\ Subscribed /\ Queued
  BY EventsInvParts
<1>2. queue[c] \in Seq(Notes(c)) /\ queue' = [queue EXCEPT ![c] = queue[c]]
  BY <1>1 DEF Queued
<1>3. Len(m) <= Len(busy[c]) /\ Len(queue[c]) \in Nat /\ Len(m) \in Nat /\ Len(busy[c]) \in Nat
  BY <1>1, <1>2, BusyIs, MaybeOne
<1>4. Len(queue[c]) + Len(m) <= Len(queue[c]) + Len(busy[c])
  BY <1>3
<1>5. /\ Queued'
      /\ \A o \in Observers :
            Inbox(o)' = IF ContextOf[o] = c THEN Calls(o, m) \o Calls(o, queue[c])
                        ELSE Inbox(o)
  <2> DEFINE q == queue[c]
  <2>1. q \in Seq(Notes(c)) /\ queue' = [queue EXCEPT ![c] = q]
        /\ Len(q) + Len(m) <= Len(queue[c]) + Len(busy[c])
    BY <1>2, <1>4
  <2> HIDE DEF q
  <2>2. /\ Queued'
        /\ \A o \in Observers :
              Inbox(o)' = IF ContextOf[o] = c THEN Calls(o, m) \o Calls(o, q) ELSE Inbox(o)
    BY <2>1, <1>1, TaskChange
  <2> QED
    BY <2>2 DEF q
<1>6. Bound' /\ Subscribed'
  BY <1>1, BoundKept, SubscribedKept DEF contextVars
<1> QED
  BY <1>1, <1>5, <1>6, InboxParts, CallsTypes, EventsInvPartsNext

\* All have been called, or nobody was to be: the notification is over.
LEMMA NotifiedKeeps ==
    ASSUME EventsInv, NEW c \in Contexts, Notified(c)
    PROVE  EventsInv' /\ \A o \in Observers : Inbox(o)' = Inbox(o)
<1>1. Queued /\ busy[c] # <<>> /\ busy[c][1].to = <<>> /\ busy' = [busy EXCEPT ![c] = <<>>]
      /\ UNCHANGED <<contextVars, queue, missed>>
  BY EventsInvParts DEF Notified
<1> DEFINE m == <<>>
<1>2. m \in Maybe(Underway(c)) /\ missed' \subseteq Observers
  BY <1>1 DEF Maybe, Queued
<1>3. \A o : Calls(o, busy[c]) = <<>>
  <2>1. \A o : o \notin ToSet(busy[c][1].to)
    BY <1>1 DEF ToSet
  <2> QED
    BY <1>1, <2>1, BusyIs
<1>4. busy' = [busy EXCEPT ![c] = m]
  BY <1>1
<1> HIDE DEF m
<1>5. /\ EventsInv'
      /\ \A o \in Observers :
            /\ Inbox(o) = Calls(o, busy[ContextOf[o]]) \o Calls(o, queue[ContextOf[o]])
            /\ Inbox(o)' = IF ContextOf[o] = c THEN Calls(o, m) \o Calls(o, queue[c])
                           ELSE Inbox(o)
  BY <1>1, <1>2, <1>4, BusyChange
<1>6. \A o : Calls(o, m) = <<>>
  BY EmptyCalls DEF m
<1> QED
  BY <1>3, <1>5, <1>6

\* An event before others.
LEMMA FirstEvent ==
    ASSUME NEW e \in Event, NEW t \in Seq(Event)
    PROVE  /\ <<e>> \o t # <<>> /\ Head(<<e>> \o t) = e /\ Tail(<<e>> \o t) = t
           /\ <<>> \o t = t
OBVIOUS

\* The observers that are still to be called, and what they are called for.
LEMMA TurnIs ==
    ASSUME EventsInv, NEW c \in Contexts, Turn(c)
    PROVE  /\ busy[c] # <<>> /\ Called(c) \in Observers /\ ContextOf[Called(c)] = c
           /\ ToSet(busy[c][1].to) = {Called(c)} \cup ToSet(Tail(busy[c][1].to))
           /\ Called(c) \notin ToSet(Tail(busy[c][1].to))
           /\ Tail(busy[c][1].to) \in Lists(c)
           /\ \A p \in ToSet(busy[c][1].to) : p \in Observers /\ ContextOf[p] = c
           /\ busy[c][1].event \in Event
           /\ \A o \in Observers :
                 Inbox(o) = IF o \in ToSet(busy[c][1].to)
                            THEN <<busy[c][1].event>> \o Calls(o, queue[c])
                            ELSE Calls(o, busy[ContextOf[o]]) \o Calls(o, queue[ContextOf[o]])
           /\ \A o \in Observers : Calls(o, queue[ContextOf[o]]) \in Seq(Event)
           /\ \A o \in ToSet(busy[c][1].to) : Calls(o, queue[c]) \in Seq(Event)
<1> DEFINE n == busy[c][1]
           s == n.to
<1>1. Queued /\ busy[c] # <<>> /\ s # <<>>
  BY EventsInvParts DEF Turn
<1>2. n \in Underway(c) /\ n \in Notes(c)
      /\ \A o : Calls(o, busy[c]) = IF o \in ToSet(s) THEN <<n.event>> ELSE <<>>
  BY <1>1, BusyIs
<1>3. s \in Lists(c) /\ n.event \in Event
  BY <1>2, NotesAre
<1>4. Called(c) = Head(s)
  BY DEF Called
<1> HIDE DEF n, s
<1>5. /\ Called(c) \in Observers /\ ContextOf[Called(c)] = c
      /\ ToSet(s) = {Called(c)} \cup ToSet(Tail(s))
      /\ Called(c) \notin ToSet(Tail(s)) /\ Tail(s) \in Lists(c)
  BY <1>1, <1>3, <1>4, ListsClosed
<1>6. \A p \in ToSet(s) : p \in Observers /\ ContextOf[p] = c
  BY <1>3 DEF Lists, ToSet
<1>7. \A o \in Observers :
         /\ Inbox(o) = Calls(o, busy[ContextOf[o]]) \o Calls(o, queue[ContextOf[o]])
         /\ Calls(o, queue[ContextOf[o]]) \in Seq(Event)
  BY <1>1, InboxParts, CallsTypes
<1>8. ASSUME NEW o \in Observers
      PROVE  Inbox(o) = IF o \in ToSet(s) THEN <<n.event>> \o Calls(o, queue[c])
                        ELSE Calls(o, busy[ContextOf[o]]) \o Calls(o, queue[ContextOf[o]])
  <2>1. CASE o \in ToSet(s)
    <3>1. ContextOf[o] = c /\ Calls(o, busy[c]) = <<n.event>>
      BY <2>1, <1>2, <1>6
    <3>2. Inbox(o) = Calls(o, busy[c]) \o Calls(o, queue[c])
      BY <3>1, <1>7
    <3> QED
      BY <2>1, <3>1, <3>2, Zenon
  <2>2. CASE o \notin ToSet(s)
    BY <2>2, <1>7, Zenon
  <2> QED
    BY <2>1, <2>2
<1>9. \A o \in ToSet(s) : Calls(o, queue[c]) \in Seq(Event)
  BY <1>6, <1>7
<1> QED
  BY <1>1, <1>3, <1>5, <1>6, <1>7, <1>8, <1>9 DEF n, s

\* An observer is called: it has heard of the event, the others are to hear what they were.
LEMMA DeliverKeeps ==
    ASSUME EventsInv, NEW c \in Contexts, Deliver(c)
    PROVE  /\ EventsInv' /\ Called(c) \in Observers /\ ContextOf[Called(c)] = c
           /\ Inbox(Called(c)) # <<>>
           /\ \A o \in Observers :
                 Inbox(o)' = IF o = Called(c) THEN Tail(Inbox(o)) ELSE Inbox(o)
<1> DEFINE n == busy[c][1]
           s == n.to
           t == Tail(s)
           r == [n EXCEPT !.to = t]
<1>0. busy' = [busy EXCEPT ![c] = <<r>>]
  BY DEF Deliver
<1>1. Queued /\ Turn(c) /\ busy[c] # <<>> /\ UNCHANGED <<contextVars, queue, missed>>
  BY EventsInvParts DEF Deliver, Turn
<1>2. n \in Underway(c) /\ n \in Notes(c)
  BY <1>1, BusyIs
<1>19. PICK h \in Observers : h = Called(c)
  BY <1>1, TurnIs
<1>3. /\ h \in Observers /\ ContextOf[h] = c /\ ToSet(s) = {h} \cup ToSet(Tail(s))
      /\ h \notin ToSet(Tail(s)) /\ Tail(s) \in Lists(c) /\ n.event \in Event
      /\ \A p \in ToSet(s) : p \in Observers /\ ContextOf[p] = c
  BY <1>1, <1>19, TurnIs
<1>4. \A o \in Observers :
         Inbox(o) = IF o \in ToSet(s) THEN <<n.event>> \o Calls(o, queue[c])
                    ELSE Calls(o, busy[ContextOf[o]]) \o Calls(o, queue[ContextOf[o]])
  BY <1>1, TurnIs
<1>5. /\ \A o \in ToSet(s) : Calls(o, queue[c]) \in Seq(Event)
      /\ \A o \in Observers : Calls(o, queue[ContextOf[o]]) \in Seq(Event)
      /\ \A o : Calls(o, busy[c]) = IF o \in ToSet(s) THEN <<n.event>> ELSE <<>>
  BY <1>1, TurnIs, BusyIs
<1> HIDE DEF n, t
<1>14. t = Tail(s) /\ t \in Lists(c)
  BY <1>3 DEF t
<1>15. n \in Notes(c)
  BY <1>2
<1>16. r \in Notes(c) /\ r.to = t /\ r.event = n.event
  <2>1. n = [event |-> n.event, to |-> n.to] /\ n \in Note
    BY <1>15 DEF Notes, Note
  <2>2. r = [event |-> n.event, to |-> t]
    BY <2>1
  <2>3. t \in Seq(Observers)
    BY <1>14 DEF Lists
  <2> QED
    BY <2>1, <2>2, <2>3, <1>14 DEF Notes, Note
<1>6. r \in Notes(c) /\ r.to = Tail(s) /\ r.event = n.event
  BY <1>14, <1>16
<1> HIDE DEF s, r
<1>7. r \in Underway(c)
  BY <1>2, <1>3, <1>6 DEF Underway, s
<1>8. <<r>> \in Maybe(Underway(c)) /\ missed' \subseteq Observers
  BY <1>1, <1>7 DEF Maybe, Queued
<1>9. /\ EventsInv'
      /\ \A o \in Observers :
            Inbox(o)' = IF ContextOf[o] = c THEN Calls(o, <<r>>) \o Calls(o, queue[c])
                        ELSE Inbox(o)
  <2> DEFINE m == <<r>>
  <2>1. m \in Maybe(Underway(c)) /\ busy' = [busy EXCEPT ![c] = m]
    BY <1>0, <1>8
  <2> HIDE DEF m
  <2>2. /\ EventsInv'
        /\ \A o \in Observers :
              Inbox(o)' = IF ContextOf[o] = c THEN Calls(o, m) \o Calls(o, queue[c])
                          ELSE Inbox(o)
    BY <2>1, <1>1, <1>8, BusyChange
  <2> QED
    BY <2>2 DEF m
<1>10. \A o : Calls(o, <<r>>) = IF o \in ToSet(Tail(s)) THEN <<n.event>> ELSE <<>>
  <2>1. SUFFICES ASSUME NEW o
                 PROVE  Calls(o, <<r>>) = IF o \in ToSet(Tail(s)) THEN <<n.event>> ELSE <<>>
    OBVIOUS
  <2>2. Calls(o, <<r>>) = IF o \in ToSet(r.to) /\ o \in Accepting(r.event)
                          THEN <<r.event>> ELSE <<>>
    BY <1>6, CallsOfNote
  <2>3. o \in ToSet(r.to) => o \in Accepting(r.event)
    BY <1>7 DEF Underway
  <2>4. CASE o \in ToSet(r.to)
    BY <2>2, <2>3, <2>4, <1>6
  <2>5. CASE o \notin ToSet(r.to)
    BY <2>2, <2>5, <1>6
  <2> QED
    BY <2>4, <2>5
<1>11. Inbox(h) = <<n.event>> \o Calls(h, queue[c]) /\ Calls(h, queue[c]) \in Seq(Event)
  BY <1>3, <1>4, <1>5
<1>12. Inbox(h) # <<>> /\ Tail(Inbox(h)) = Calls(h, queue[c])
  BY <1>3, <1>11, FirstEvent
<1>13. Inbox(h)' = Tail(Inbox(h))
  <2>1. Inbox(h)' = Calls(h, <<r>>) \o Calls(h, queue[c]) /\ Calls(h, <<r>>) = <<>>
    <3>1. Inbox(h)' = Calls(h, <<r>>) \o Calls(h, queue[c])
      BY <1>3, <1>9
    <3>2. Calls(h, <<r>>) = IF h \in ToSet(Tail(s)) THEN <<n.event>> ELSE <<>>
      BY <1>10, Zenon
    <3>3. h \notin ToSet(Tail(s))
      BY <1>3
    <3> QED
      BY <3>1, <3>2, <3>3, Zenon
  <2>2. <<>> \o Calls(h, queue[c]) = Calls(h, queue[c])
    BY <1>3, <1>11, FirstEvent
  <2> QED
    BY <2>1, <2>2, <1>12, Zenon
<1>17. ASSUME NEW o \in Observers, o # h PROVE Inbox(o)' = Inbox(o)
  <2>1. CASE ContextOf[o] # c
    BY <2>1, <1>9
  <2>2. CASE o \in ToSet(s)
    <3>1. ContextOf[o] = c /\ o \in ToSet(Tail(s))
      BY <2>2, <1>3, <1>17
    <3>2. Inbox(o)' = Calls(o, <<r>>) \o Calls(o, queue[c]) /\ Calls(o, <<r>>) = <<n.event>>
      BY <3>1, <1>9, <1>10
    <3> QED
      BY <2>2, <3>2, <1>4, Zenon
  <2>3. CASE ContextOf[o] = c /\ o \notin ToSet(s)
    <3>1. o \notin ToSet(Tail(s))
      BY <2>3, <1>3
    <3>2. Inbox(o)' = Calls(o, <<r>>) \o Calls(o, queue[c]) /\ Calls(o, <<r>>) = <<>>
      BY <2>3, <3>1, <1>9, <1>10
    <3>3. Inbox(o) = Calls(o, busy[c]) \o Calls(o, queue[c]) /\ Calls(o, busy[c]) = <<>>
      BY <2>3, <1>4, <1>5
    <3> QED
      BY <3>2, <3>3, Zenon
  <2> QED
    BY <2>1, <2>2, <2>3
<1>18. \A o \in Observers : Inbox(o)' = IF o = h THEN Tail(Inbox(o)) ELSE Inbox(o)
  <2>1. SUFFICES ASSUME NEW o \in Observers
                 PROVE  Inbox(o)' = IF o = h THEN Tail(Inbox(o)) ELSE Inbox(o)
    OBVIOUS
  <2>2. CASE o = h
    BY <2>2, <1>13, Zenon
  <2>3. CASE o # h
    BY <2>3, <1>17
  <2> QED
    BY <2>2, <2>3
<1> QED
  BY <1>3, <1>9, <1>12, <1>18, <1>19

\* An observer throws: it has heard of the event, and those after it will not.
LEMMA ThrowKeeps ==
    ASSUME EventsInv, NEW c \in Contexts, Throw(c)
    PROVE  /\ EventsInv' /\ Called(c) \in Observers /\ ContextOf[Called(c)] = c
           /\ Called(c) \notin ToSet(Tail(busy[c][1].to))
           /\ ToSet(Tail(busy[c][1].to)) \subseteq Observers
           /\ \A o \in {Called(c)} \cup ToSet(Tail(busy[c][1].to)) :
                 /\ ContextOf[o] = c /\ Inbox(o) # <<>>
                 /\ Head(Inbox(o)) = busy[c][1].event
           /\ \A o \in Observers :
                 Inbox(o)' = IF o \in {Called(c)} \cup ToSet(Tail(busy[c][1].to))
                             THEN Tail(Inbox(o)) ELSE Inbox(o)
<1> DEFINE n == busy[c][1]
           s == n.to
           h == Called(c)
<1>1. Queued /\ Turn(c) /\ busy[c] # <<>> /\ UNCHANGED <<contextVars, queue>>
      /\ busy' = [busy EXCEPT ![c] = <<>>] /\ missed' = missed \cup ToSet(Tail(s))
  BY EventsInvParts DEF Throw, Turn
<1>2. /\ h \in Observers /\ ContextOf[h] = c /\ ToSet(s) = {h} \cup ToSet(Tail(s))
      /\ h \notin ToSet(Tail(s)) /\ n.event \in Event
      /\ \A p \in ToSet(s) : p \in Observers /\ ContextOf[p] = c
  BY <1>1, TurnIs
<1>3. \A o \in Observers :
         Inbox(o) = IF o \in ToSet(s) THEN <<n.event>> \o Calls(o, queue[c])
                    ELSE Calls(o, busy[ContextOf[o]]) \o Calls(o, queue[ContextOf[o]])
  BY <1>1, TurnIs
<1>4. /\ \A o \in ToSet(s) : Calls(o, queue[c]) \in Seq(Event)
      /\ \A o : Calls(o, busy[c]) = IF o \in ToSet(s) THEN <<n.event>> ELSE <<>>
  BY <1>1, TurnIs, BusyIs
<1> HIDE DEF n, h, s
<1> DEFINE m == <<>>
<1>5. m \in Maybe(Underway(c)) /\ missed' \subseteq Observers /\ \A o : Calls(o, m) = <<>>
  BY <1>1, <1>2, EmptyCalls DEF Maybe, Queued
<1>6. busy' = [busy EXCEPT ![c] = m]
  BY <1>1
<1> HIDE DEF m
<1>7. /\ EventsInv'
      /\ \A o \in Observers :
            Inbox(o)' = IF ContextOf[o] = c THEN Calls(o, m) \o Calls(o, queue[c])
                        ELSE Inbox(o)
  BY <1>1, <1>5, <1>6, BusyChange
<1>8. ASSUME NEW o \in ToSet(s)
      PROVE  /\ Inbox(o) # <<>> /\ Head(Inbox(o)) = n.event /\ Inbox(o)' = Tail(Inbox(o))
  <2>1. Inbox(o) = <<n.event>> \o Calls(o, queue[c]) /\ Calls(o, queue[c]) \in Seq(Event)
    BY <1>2, <1>3, <1>4
  <2>2. Inbox(o)' = <<>> \o Calls(o, queue[c])
    <3>1. o \in Observers /\ ContextOf[o] = c
      BY <1>2
    <3> QED
      BY <3>1, <1>5, <1>7
  <2> QED
    BY <2>1, <2>2, <1>2, FirstEvent
<1>9. ASSUME NEW o \in Observers, o \notin ToSet(s) PROVE Inbox(o)' = Inbox(o)
  <2>1. CASE ContextOf[o] # c
    BY <2>1, <1>7
  <2>2. CASE ContextOf[o] = c
    <3>1. Inbox(o)' = <<>> \o Calls(o, queue[c])
      BY <2>2, <1>5, <1>7
    <3>2. Inbox(o) = Calls(o, busy[c]) \o Calls(o, queue[c]) /\ Calls(o, busy[c]) = <<>>
      BY <2>2, <1>3, <1>4, <1>9
    <3> QED
      BY <3>1, <3>2, Zenon
  <2> QED
    BY <2>1, <2>2
<1> QED
  BY <1>2, <1>7, <1>8, <1>9 DEF n, h, s

\* A context is closed: its observers may lose the last of the events they were to hear of.
LEMMA CloseKeeps ==
    ASSUME EventsInv, NEW c \in Contexts, Close(c)
    PROVE  /\ EventsInv'
           /\ \A d \in Contexts : observers'[d] = IF d = c THEN <<>> ELSE observers[d]
           /\ \A o \in Observers :
                 /\ ContextOf[o] # c => Inbox(o)' = Inbox(o)
                 /\ ContextOf[o] = c => \E l \in 0 .. Len(Inbox(o)) :
                                           Inbox(o)' = SubSeq(Inbox(o), 1, l)
<1>1. Bound /\ Subscribed /\ Queued
  BY EventsInvParts
<1>2. PICK k \in 0 .. Len(queue[c]) :
         queue' = [queue EXCEPT ![c] = SubSeq(@, 1, k)]
  BY DEF Close
<1>3. /\ closed' = [closed EXCEPT ![c] = TRUE] /\ observers' = [observers EXCEPT ![c] = <<>>]
      /\ setup' = [setup EXCEPT ![c] = FALSE] /\ \A d \in c + 1 .. Depth : ~setup[d]
      /\ UNCHANGED <<registry, busy, missed>>
  BY DEF Close
<1> DEFINE q == SubSeq(queue[c], 1, k)
           t == SubSeq(queue[c], k + 1, Len(queue[c]))
           m == busy[c]
<1>4. queue[c] \in Seq(Notes(c)) /\ m \in Maybe(Underway(c))
  BY <1>1 DEF Queued
<1>5. q \in Seq(Notes(c)) /\ Len(q) <= Len(queue[c]) /\ Len(q) \in Nat
      /\ t \in Seq(Notes(c)) /\ q \o t = queue[c] /\ Len(queue[c]) \in Nat
  <2>1. q \in Seq(Notes(c)) /\ Len(q) = k /\ t \in Seq(Notes(c)) /\ Len(queue[c]) \in Nat
    BY <1>4
  <2>2. q \o t = queue[c]
    <3> DEFINE s == queue[c]
    <3>1. s \in Seq(Notes(c)) /\ k \in 0 .. Len(s)
      BY <1>4
    <3> HIDE DEF s
    <3>2. 1 \in 1 .. Len(s) + 1 /\ k \in 1 - 1 .. Len(s) /\ Len(s) \in k .. Len(s)
      BY <3>1
    <3>3. SubSeq(s, 1, k) \o SubSeq(s, k + 1, Len(s)) = SubSeq(s, 1, Len(s))
      BY <3>1, <3>2, ConcatAdjacentSubSeq
    <3>4. SubSeq(s, 1, Len(s)) = s
      BY <3>1
    <3> QED
      BY <3>3, <3>4 DEF s
  <2>3. k <= Len(queue[c]) /\ k \in Nat
    BY <2>1
  <2> HIDE DEF q, t
  <2> QED
    BY <2>1, <2>2, <2>3
<1>6. queue' = [queue EXCEPT ![c] = q] /\ busy' = [busy EXCEPT ![c] = m]
      /\ missed' \subseteq Observers
  BY <1>1, <1>2, <1>3 DEF Queued
<1> HIDE DEF q, t
<1>7. Len(q) + Len(m) <= Len(queue[c]) + Len(busy[c])
  <2>1. Len(m) \in Nat
    BY <1>4, MaybeOne
  <2> QED
    BY <2>1, <1>5
<1> HIDE DEF m
<1>8. /\ Queued'
      /\ \A o \in Observers :
            Inbox(o)' = IF ContextOf[o] = c THEN Calls(o, m) \o Calls(o, q) ELSE Inbox(o)
  BY <1>1, <1>4, <1>5, <1>6, <1>7, TaskChange
<1>9. /\ observers' \in [Contexts -> Seq(Observers)]
      /\ \A d \in Contexts : observers'[d] = IF d = c THEN <<>> ELSE observers[d]
      /\ setup' \in [Contexts -> BOOLEAN] /\ closed' \in [Contexts -> BOOLEAN]
      /\ \A d \in Contexts : setup'[d] <=> d # c /\ setup[d]
  BY <1>1, <1>3 DEF Subscribed
<1>10. \A d \in Contexts : setup'[d] => d < c
  <2>1. \A d \in Contexts : d \in Nat /\ c \in Nat /\ (d > c => d \in c + 1 .. Depth)
    BY EventConstants DEF Contexts
  <2>2. \A d \in Contexts : setup'[d] => d # c /\ setup[d]
    BY <1>9
  <2> QED
    BY <2>1, <2>2, <1>3
<1>11. Subscribed'
  <2>1. \A d \in Contexts : observers'[d] \in Lists(d)
    BY <1>1, <1>9, ListsClosed DEF Subscribed
  <2>2. \A d \in Contexts : observers'[d] # <<>> => setup'[d]
    BY <1>1, <1>9 DEF Subscribed
  <2>3. \A d \in Contexts : setup'[d] => \A e \in 1 .. d : setup'[e]
    <3>1. SUFFICES ASSUME NEW d \in Contexts, setup'[d], NEW e \in 1 .. d PROVE setup'[e]
      OBVIOUS
    <3>2. setup[d] /\ d < c
      BY <3>1, <1>9, <1>10
    <3>3. e \in Contexts /\ e # c
      BY <3>2, EventConstants DEF Contexts
    <3>4. setup[e]
      BY <3>2, <1>1 DEF Subscribed
    <3> QED
      BY <3>3, <3>4, <1>9
  <2> QED
    BY <2>1, <2>2, <2>3, <1>9 DEF Subscribed
<1>12. Bound'
  BY <1>1, <1>3, BoundKept
<1>13. ASSUME NEW o \in Observers, ContextOf[o] = c
       PROVE  \E l \in 0 .. Len(Inbox(o)) : Inbox(o)' = SubSeq(Inbox(o), 1, l)
  <2> DEFINE x == Calls(o, m)
             y == Calls(o, q)
             z == Calls(o, t)
  <2>1. x \in Seq(Event) /\ Inbox(o) = x \o Calls(o, queue[c])
    BY <1>1, <1>13, InboxParts, CallsTypes DEF m
  <2>2. y \in Seq(Event) /\ z \in Seq(Event) /\ Calls(o, queue[c]) = y \o z
    <3>1. q \in Seq(Note) /\ t \in Seq(Note)
      BY <1>5, NotesInSequence
    <3>2. CallsLaws(o, q) /\ CallsLaws(o, t)
      BY <3>1, CallsOfSequences, Zenon
    <3> QED
      BY <3>1, <3>2, <1>5 DEF CallsLaws
  <2>3. Inbox(o)' = x \o y
    BY <1>8, <1>13
  <2> HIDE DEF x, y, z
  <2>4. Inbox(o) = (x \o y) \o z
    <3>1. Associative(x, y, z)
      BY <2>1, <2>2, ThreeInARow
    <3> QED
      BY <3>1, <2>1, <2>2 DEF Associative
  <2> DEFINE a == x \o y
  <2>5. a \in Seq(Event)
    BY <2>1, <2>2, ConcatProperties
  <2> HIDE DEF a
  <2>6. Len(a) \in 0 .. Len(a \o z) /\ SubSeq(a \o z, 1, Len(a)) = a
    BY <2>2, <2>5, FirstPart
  <2> QED
    BY <2>3, <2>4, <2>6 DEF a
<1> QED
  BY <1>8, <1>9, <1>11, <1>12, <1>13, EventsInvPartsNext

\* The observers that have subscribed already are listed with their contexts.
LEMMA EventsInitially ==
    ASSUME NEW Open \in SUBSET Observers, EventsInit(Open)
    PROVE  EventsInv /\ \A o \in Observers : Inbox(o) = <<>>
<1>1. Depth \in Nat \ {0} /\ MaxPending \in Nat \ {0} /\ ContextOf \in [Observers -> Contexts]
      /\ IsFiniteSet(Observers)
  BY EventConstants
<1>2. Bound
  BY DEF EventsInit, Bound
<1>3. ASSUME NEW c \in Contexts PROVE observers[c] \in Lists(c) /\ observers[c] \in Seq(Observers)
                                      /\ (observers[c] # <<>> => setup[c])
  <2> DEFINE S == {o \in Open : ContextOf[o] = c}
  <2>1. S \subseteq Observers /\ IsFiniteSet(S)
    BY <1>1, FS_Subset
  <2>2. observers[c] = SetToSeq(S) /\ (setup[c] <=> \E o \in Open : ContextOf[o] >= c)
    BY DEF EventsInit
  <2>3. \A o \in S : ContextOf[o] = c
    OBVIOUS
  <2> HIDE DEF S
  <2>4. SetToSeq(S) \in Seq(S) /\ IsInjective(SetToSeq(S)) /\ ToSet(SetToSeq(S)) = S
    BY <2>1, SetAsSequence
  <2>5. SetToSeq(S) \in Seq(Observers)
    BY <2>1, <2>4
  <2>6. S # {} => setup[c]
    <3>1. SUFFICES ASSUME NEW o \in S PROVE \E p \in Open : ContextOf[p] >= c
      BY <2>2
    <3>2. o \in Open /\ ContextOf[o] = c /\ c \in Nat
      BY <1>1 DEF S, Contexts
    <3> QED
      BY <3>2
  <2>7. SetToSeq(S) # <<>> => S # {}
    <3>1. SUFFICES ASSUME SetToSeq(S) # <<>>, S = {} PROVE FALSE
      OBVIOUS
    <3>2. SetToSeq(S)[1] \in S
      BY <2>4, <3>1, EmptySeq
    <3> QED
      BY <3>1, <3>2
  <2> QED
    BY <2>1, <2>2, <2>3, <2>4, <2>5, <2>6, <2>7 DEF Lists
<1>4. Subscribed
  <2>1. /\ DOMAIN observers = Contexts /\ observers = [c \in Contexts |-> observers[c]]
        /\ setup \in [Contexts -> BOOLEAN] /\ closed \in [Contexts -> BOOLEAN]
    BY DEF EventsInit
  <2>2. observers \in [Contexts -> Seq(Observers)]
    BY <2>1, <1>3
  <2>3. ASSUME NEW c \in Contexts, setup[c], NEW e \in 1 .. c PROVE setup[e]
    <3>1. PICK o \in Open : ContextOf[o] >= c
      BY <2>3 DEF EventsInit
    <3>2. ContextOf[o] \in Contexts /\ e \in Contexts
      BY <1>1 DEF Contexts
    <3>3. ContextOf[o] >= e
      BY <3>1, <3>2 DEF Contexts
    <3> QED
      BY <3>2, <3>3 DEF EventsInit
  <2> QED
    BY <2>1, <2>2, <2>3, <1>3 DEF Subscribed
<1>5. Queued
  <2>1. /\ \A c \in Contexts : queue[c] = <<>> /\ busy[c] = <<>>
        /\ queue \in [Contexts -> Seq(Note)] /\ busy \in [Contexts -> Maybe(Note)]
        /\ missed = {}
    BY DEF EventsInit, Maybe
  <2>2. \A c \in Contexts : queue[c] \in Seq(Notes(c)) /\ busy[c] \in Maybe(Underway(c))
    BY <2>1 DEF Maybe
  <2>3. \A c \in Contexts : Len(queue[c]) + Len(busy[c]) <= MaxPending
    BY <2>1, <1>1
  <2> QED
    BY <2>1, <2>2, <2>3 DEF Queued
<1>6. ASSUME NEW o \in Observers PROVE Inbox(o) = <<>>
  <2>1. ContextOf[o] \in Contexts
    BY <1>1
  <2>2. busy[ContextOf[o]] = <<>> /\ queue[ContextOf[o]] = <<>>
    BY <2>1 DEF EventsInit
  <2>3. Inbox(o) = Calls(o, <<>>) \o Calls(o, <<>>)
    BY <2>2, <1>5, InboxParts
  <2>4. <<>> \o <<>> = <<>>
    OBVIOUS
  <2> QED
    BY <2>3, <2>4, EmptyCalls
<1> QED
  BY <1>2, <1>4, <1>5, <1>6, EventsInvParts

---------------------------------------------------------------------------
(* What a view finds *)

\* The bindings in M seen from context k: no nearer one in M has their key.
Seen(reg, M, k) ==
    {b \in M : \E c \in 1 .. k :
        /\ b \in reg[c]
        /\ \A e \in c + 1 .. k : \A x \in reg[e] \cap M : KeyOf[x] # KeyOf[b]}

\* find() of each context merges its own bindings with those of its parent.
LEMMA FoundAreSeen ==
    ASSUME NEW reg, NEW M, NEW k \in Contexts
    PROVE  (LET found[c \in 0 .. Depth] ==
                  IF c = 0 THEN {}
                  ELSE LET own == reg[c] \cap M
                       IN  own \cup {b \in found[c - 1] :
                                       \A x \in own : KeyOf[x] # KeyOf[b]}
            IN  found[k]) = Seen(reg, M, k)
<1> DEFINE Step(f, c) == (reg[c] \cap M) \cup {b \in f[c - 1] :
                            \A x \in reg[c] \cap M : KeyOf[x] # KeyOf[b]}
           Sol(f) == f = [c \in 0 .. Depth |-> IF c = 0 THEN {} ELSE Step(f, c)]
           f == [c \in 0 .. Depth |-> Seen(reg, M, c)]
           g == CHOOSE h : Sol(h)
<1>1. Depth \in Nat \ {0} /\ k \in 1 .. Depth
  BY EventConstants DEF Contexts
<1>2. Seen(reg, M, 0) = {}
  BY DEF Seen
<1>3. ASSUME NEW c \in 1 .. Depth PROVE Seen(reg, M, c) = Step(f, c)
  <2>1. c - 1 \in 0 .. Depth /\ c \in Nat /\ c \in 1 .. c
    BY <1>1
  <2>2. f[c - 1] = Seen(reg, M, c - 1)
    BY <2>1
  <2> HIDE DEF f
  <2>3. ASSUME NEW b \in Seen(reg, M, c) PROVE b \in Step(f, c)
    <3>1. PICK d \in 1 .. c :
             /\ b \in reg[d]
             /\ \A e \in d + 1 .. c : \A x \in reg[e] \cap M : KeyOf[x] # KeyOf[b]
      BY DEF Seen
    <3>2. b \in M
      BY DEF Seen
    <3>3. CASE d = c
      BY <3>1, <3>2, <3>3
    <3>4. CASE d # c
      <4>1. d \in 1 .. c - 1 /\ c \in d + 1 .. c /\ \A e \in d + 1 .. c - 1 : e \in d + 1 .. c
        BY <3>4, <2>1
      <4>2. b \in Seen(reg, M, c - 1)
        BY <3>1, <3>2, <4>1 DEF Seen
      <4> QED
        BY <2>2, <3>1, <4>1, <4>2
    <3> QED
      BY <3>3, <3>4
  <2>4. ASSUME NEW b \in Step(f, c) PROVE b \in Seen(reg, M, c)
    <3>1. CASE b \in reg[c] \cap M
      <4>1. \A e \in c + 1 .. c : FALSE
        BY <2>1
      <4> QED
        BY <3>1, <4>1, <2>1 DEF Seen
    <3>2. CASE b \in Seen(reg, M, c - 1) /\ \A x \in reg[c] \cap M : KeyOf[x] # KeyOf[b]
      <4>1. PICK d \in 1 .. c - 1 :
               /\ b \in reg[d]
               /\ \A e \in d + 1 .. c - 1 : \A x \in reg[e] \cap M : KeyOf[x] # KeyOf[b]
        BY <3>2 DEF Seen
      <4>2. d \in 1 .. c /\ \A e \in d + 1 .. c : e = c \/ e \in d + 1 .. c - 1
        BY <2>1
      <4>3. b \in M
        BY <3>2 DEF Seen
      <4>4. \A e \in d + 1 .. c : \A x \in reg[e] \cap M : KeyOf[x] # KeyOf[b]
        BY <3>2, <4>1, <4>2
      <4> QED
        BY <4>1, <4>2, <4>3, <4>4 DEF Seen
    <3> QED
      BY <3>1, <3>2, <2>2
  <2> QED
    BY <2>3, <2>4
<1>4. Sol(f)
  <2>1. \A c \in 0 .. Depth : c = 0 \/ c \in 1 .. Depth
    BY <1>1
  <2>2. \A c \in 0 .. Depth : Seen(reg, M, c) = IF c = 0 THEN {} ELSE Step(f, c)
    BY <2>1, <1>2, <1>3, Zenon
  <2> QED
    BY <2>2, Zenon
<1>5. Sol(g)
  <2> HIDE DEF Sol, f
  <2> QED
    BY <1>4
<1> HIDE DEF g
<1>6. \A c \in 0 .. Depth : g[c] = IF c = 0 THEN {} ELSE Step(g, c)
  <2> HIDE DEF Step
  <2> QED
    BY <1>5, Zenon
<1>7. \A c \in 0 .. Depth : g[c] = Seen(reg, M, c)
  <2> DEFINE G == {n \in Nat : n <= Depth => g[n] = Seen(reg, M, n)}
  <2>1. 0 \in G
    <3>1. 0 \in 0 .. Depth
      BY <1>1
    <3> QED
      BY <3>1, <1>2, <1>6
  <2>2. ASSUME NEW n \in Nat, n \in G PROVE n + 1 \in G
    <3>1. SUFFICES ASSUME n + 1 <= Depth PROVE g[n + 1] = Seen(reg, M, n + 1)
      OBVIOUS
    <3>2. n + 1 \in 1 .. Depth /\ n + 1 \in 0 .. Depth /\ n \in 0 .. Depth
          /\ (n + 1) - 1 = n /\ n + 1 # 0
      BY <1>1, <3>1
    <3>3. g[n] = f[n]
      BY <2>2, <3>2
    <3>4. Step(g, n + 1) = Step(f, n + 1)
      BY <3>2, <3>3
    <3> HIDE DEF Step, f
    <3>5. g[n + 1] = Step(g, n + 1)
      BY <3>2, <1>6
    <3> QED
      BY <3>2, <3>4, <3>5, <1>3
  <2>3. Nat \subseteq G
    <3> HIDE DEF G
    <3> QED
      BY <2>1, <2>2, Induction
  <2> QED
    BY <2>3
<1>8. g[k] = Seen(reg, M, k)
  <2>1. k \in 0 .. Depth
    BY <1>1
  <2> QED
    BY <2>1, <1>7
<1> QED
  BY <1>8, Zenon DEF g

\* What the view v finds, in every context up to its own.
LEMMA FindIs ==
    ASSUME NEW v \in Views
    PROVE  /\ Find(v) = Seen(registry, Matches[v], ContextOf[v])
           /\ Find(v)' = Seen(registry', Matches[v], ContextOf[v])
           /\ Matches[v] \subseteq Bindings
           /\ Find(v) \in SUBSET Bindings /\ Find(v)' \in SUBSET Bindings
<1>1. v \in Observers /\ ContextOf[v] \in Contexts /\ Matches[v] \subseteq Bindings
  BY EventConstants, ViewConstants
<1>2. Find(v) = Seen(registry, Matches[v], ContextOf[v])
  BY <1>1, FoundAreSeen, Zenon DEF Find
<1>3. Find(v)' = Seen(registry', Matches[v], ContextOf[v])
  BY <1>1, FoundAreSeen, Zenon DEF Find
<1> QED
  BY <1>1, <1>2, <1>3 DEF Seen

\* A filter that tells bindings apart by their keys only.
SeesKeys(M) == \A x, y \in Bindings : KeyOf[x] = KeyOf[y] /\ x \in M => y \in M

\* Two registries that differ in context c only, and there in bindings with the key of b,
\* show the same where b is not looked for, c is not reached or a nearer binding hides b.
LEMMA SeenWithin ==
    ASSUME NEW r1 \in [Contexts -> SUBSET Bindings], NEW r2 \in [Contexts -> SUBSET Bindings],
           NEW M \in SUBSET Bindings, SeesKeys(M),
           NEW k \in Contexts, NEW c \in Contexts, NEW b \in Bindings,
           \A d \in Contexts : d # c => r1[d] = r2[d],
           \A x \in Bindings : KeyOf[x] # KeyOf[b] => (x \in r1[c] <=> x \in r2[c]),
           \/ b \notin M
           \/ k < c
           \/ \E e \in c + 1 .. k : \E x \in r1[e] : KeyOf[x] = KeyOf[b]
    PROVE  Seen(r1, M, k) \subseteq Seen(r2, M, k)
<1>1. Depth \in Nat /\ k \in 1 .. Depth /\ c \in 1 .. Depth
  BY EventConstants DEF Contexts
<1>2. SUFFICES ASSUME NEW z \in Seen(r1, M, k) PROVE z \in Seen(r2, M, k)
  OBVIOUS
<1>3. PICK d \in 1 .. k :
         /\ z \in r1[d]
         /\ \A e \in d + 1 .. k : \A x \in r1[e] \cap M : KeyOf[x] # KeyOf[z]
  BY DEF Seen
<1>4. z \in M /\ z \in Bindings /\ d \in Contexts /\ \A e \in d + 1 .. k : e \in Contexts
  BY <1>1 DEF Seen, Contexts
<1>5. ASSUME \A e \in d .. k : e # c PROVE z \in Seen(r2, M, k)
  <2>1. r1[d] = r2[d] /\ \A e \in d + 1 .. k : r1[e] = r2[e]
    BY <1>1, <1>4, <1>5
  <2> QED
    BY <1>3, <1>4, <2>1 DEF Seen
<1>6. CASE KeyOf[z] = KeyOf[b]
  <2>1. b \in M
    BY <1>4, <1>6 DEF SeesKeys
  <2>2. CASE k < c
    BY <1>1, <1>5, <2>2
  <2>3. CASE \E e \in c + 1 .. k : \E x \in r1[e] : KeyOf[x] = KeyOf[b]
    <3>1. PICK e \in c + 1 .. k : \E x \in r1[e] : KeyOf[x] = KeyOf[b]
      BY <2>3
    <3>2. PICK x \in r1[e] : KeyOf[x] = KeyOf[b]
      BY <3>1
    <3>3. e \in Contexts /\ x \in Bindings
      BY <1>1, <3>1, <3>2 DEF Contexts
    <3>4. x \in r1[e] \cap M
      BY <2>1, <3>2, <3>3 DEF SeesKeys
    <3>5. e \notin d + 1 .. k
      BY <1>3, <1>6, <3>2, <3>4
    <3>6. \A i \in d .. k : i # c
      BY <1>1, <1>3, <3>1, <3>5
    <3> QED
      BY <1>5, <3>6
  <2> QED
    BY <2>1, <2>2, <2>3
<1>7. CASE KeyOf[z] # KeyOf[b]
  <2>1. z \in r2[d]
    BY <1>3, <1>4, <1>7
  <2>2. ASSUME NEW e \in d + 1 .. k, NEW x \in r2[e] \cap M, KeyOf[x] = KeyOf[z] PROVE FALSE
    <3>1. x \in r1[e]
      BY <1>4, <1>7, <2>2
    <3> QED
      BY <1>3, <2>2, <3>1
  <2> QED
    BY <1>3, <1>4, <2>1, <2>2 DEF Seen
<1> QED
  BY <1>6, <1>7

-----------------------------------------------------------------------------
(* A view is live *)

Live(v) == Trusted(v) /\ Inbox(v) = <<>> /\ cachedB[v] # <<>> => cachedB[v] = <<Find(v)>>

LEMMA TrustedIs ==
    ASSUME NEW v \in Views
    PROVE  /\ EventsInv => (Trusted(v) <=> v \in ToSet(observers[ContextOf[v]]) /\ v \notin missed)
           /\ EventsInv' => (Trusted(v)' <=> v \in ToSet(observers'[ContextOf[v]])
                                              /\ v \notin missed')
<1>1. ContextOf[v] \in Contexts
  BY EventConstants, ViewConstants
<1>2. EventsInv => observers[ContextOf[v]] \in Seq(Observers)
  BY <1>1 DEF EventsInv, EventsShape
<1>3. EventsInv' => observers'[ContextOf[v]] \in Seq(Observers)
  BY <1>1 DEF EventsInv, EventsShape
<1>4. EventsInv => (Contains(observers[ContextOf[v]], v) <=> v \in ToSet(observers[ContextOf[v]]))
  BY <1>2, ContainsIs
<1>5. EventsInv' => (Contains(observers'[ContextOf[v]], v) <=> v \in ToSet(observers'[ContextOf[v]]))
  BY <1>3, ContainsIs
<1> QED
  BY <1>4, <1>5 DEF Trusted

\* A step that leaves the bindings alone, and makes no view trusted that was not and no
\* inbox empty that was not, leaves a view live.
LEMMA LiveKept ==
    ASSUME NEW v \in Views, Live(v), UNCHANGED <<registry, cachedB>>,
           Trusted(v)' /\ Inbox(v)' = <<>> => Trusted(v) /\ Inbox(v) = <<>>
    PROVE  Live(v)'
<1>1. Find(v)' = Find(v)
  BY FindIs
<1> QED
  BY <1>1 DEF Live

\* A binding comes or goes: a view that does not hear of it finds what it found.
LEMMA LiveChange ==
    ASSUME EventsInv, EventsInv', NEW v \in Views, Live(v), SeesKeys(Matches[v]),
           NEW c \in Contexts, NEW b \in Bindings, NEW news \in Seq(Event),
           UNCHANGED <<observers, missed, cachedB>>,
           \A d \in Contexts : d # c => registry'[d] = registry[d],
           \A x \in Bindings : KeyOf[x] # KeyOf[b] => (x \in registry'[c] <=> x \in registry[c]),
           Inbox(v)' = Inbox(v) \o (IF Told(v, c, b) THEN Accepted(v, news) ELSE <<>>),
           b \in Matches[v] => Accepted(v, news) # <<>>
    PROVE  Live(v)'
<1>1. SUFFICES ASSUME Trusted(v)', Inbox(v)' = <<>>, cachedB'[v] # <<>>
               PROVE  cachedB'[v] = <<Find(v)'>>
  BY DEF Live
<1>2. v \in Observers /\ ContextOf[v] \in Contexts
  BY EventConstants, ViewConstants
<1>3. Trusted(v) /\ v \in ToSet(observers[ContextOf[v]])
  BY <1>1, TrustedIs
<1>4. Inbox(v) \in Seq(Event)
  BY <1>2, CallsTypes, EventsInvParts
<1>5. Accepted(v, news) \in Seq(Event)
  BY WithinType DEF Accepted
<1> DEFINE more == IF Told(v, c, b) THEN Accepted(v, news) ELSE <<>>
           in == Inbox(v)
<1>6. more \in Seq(Event) /\ in \o more = <<>>
  BY <1>1, <1>5
<1>7. Inbox(v) = <<>> /\ more = <<>>
  <2> HIDE DEF more
  <2>1. in \in Seq(Event)
    BY <1>4
  <2> HIDE DEF in
  <2>2. in = <<>> /\ more = <<>>
    BY <1>6, <2>1
  <2> QED
    BY <2>2 DEF in
<1>8. cachedB[v] = <<Find(v)>>
  BY <1>1, <1>3, <1>7 DEF Live
<1>9. ~Told(v, c, b) \/ b \notin Matches[v]
  BY <1>7
<1>10. registry \in [Contexts -> SUBSET Bindings] /\ registry' \in [Contexts -> SUBSET Bindings]
  BY DEF EventsInv, EventsShape
<1>11. Matches[v] \in SUBSET Bindings
  BY FindIs
<1>12. \/ b \notin Matches[v]
       \/ ContextOf[v] < c
       \/ \E e \in c + 1 .. ContextOf[v] :
             (\E x \in registry[e] : KeyOf[x] = KeyOf[b]) /\ registry'[e] = registry[e]
  <2>1. SUFFICES ASSUME b \in Matches[v], ~(ContextOf[v] < c)
                 PROVE  \E e \in c + 1 .. ContextOf[v] :
                          (\E x \in registry[e] : KeyOf[x] = KeyOf[b]) /\ registry'[e] = registry[e]
    OBVIOUS
  <2>2. Depth \in Nat /\ c \in 1 .. Depth /\ ContextOf[v] \in 1 .. Depth
    BY <1>2, EventConstants DEF Contexts
  <2>3. PICK e \in c + 1 .. ContextOf[v] : SameKey(e, b) # {}
    BY <1>3, <1>9, <2>1, <2>2 DEF Told
  <2>4. e \in Contexts /\ e # c
    BY <2>2 DEF Contexts
  <2> QED
    BY <2>3, <2>4 DEF SameKey
<1>13. Seen(registry', Matches[v], ContextOf[v]) = Seen(registry, Matches[v], ContextOf[v])
  <2> DEFINE r1 == registry
             r2 == registry'
             M == Matches[v]
             k == ContextOf[v]
  <2>1. /\ r1 \in [Contexts -> SUBSET Bindings] /\ r2 \in [Contexts -> SUBSET Bindings]
        /\ M \in SUBSET Bindings /\ SeesKeys(M) /\ k \in Contexts
    BY <1>2, <1>10, <1>11
  <2>2. /\ \A d \in Contexts : d # c => r1[d] = r2[d] /\ r2[d] = r1[d]
        /\ \A x \in Bindings : KeyOf[x] # KeyOf[b] =>
              (x \in r1[c] <=> x \in r2[c]) /\ (x \in r2[c] <=> x \in r1[c])
    OBVIOUS
  <2>3. /\ \/ b \notin M
           \/ k < c
           \/ \E e \in c + 1 .. k : \E x \in r1[e] : KeyOf[x] = KeyOf[b]
        /\ \/ b \notin M
           \/ k < c
           \/ \E e \in c + 1 .. k : \E x \in r2[e] : KeyOf[x] = KeyOf[b]
    BY <1>12
  <2> HIDE DEF r1, r2, M, k
  <2>4. Seen(r1, M, k) \subseteq Seen(r2, M, k)
    BY <2>1, <2>2, <2>3, SeenWithin
  <2>5. Seen(r2, M, k) \subseteq Seen(r1, M, k)
    BY <2>1, <2>2, <2>3, SeenWithin
  <2>6. Seen(r2, M, k) = Seen(r1, M, k)
    BY <2>4, <2>5
  <2> QED
    BY <2>6 DEF r1, r2, M, k
<1> QED
  BY <1>8, <1>13, FindIs

LEMMA EventsStutter ==
    ASSUME EventsInv, UNCHANGED eventVars
    PROVE  EventsInv' /\ \A o \in Observers : Inbox(o)' = Inbox(o)
<1>1. Bound /\ Subscribed /\ Queued
  BY EventsInvParts
<1>2. /\ UNCHANGED registry /\ UNCHANGED <<observers, setup, closed>> /\ UNCHANGED taskVars
      /\ UNCHANGED busy /\ UNCHANGED queue
  BY DEF eventVars, contextVars, taskVars
<1>3. Bound' /\ Subscribed' /\ Queued'
  BY <1>1, <1>2, BoundKept, SubscribedKept, QueuedKept
<1>4. \A o \in Observers : Inbox(o)' = Inbox(o)
  BY <1>1, <1>2, <1>3, InboxParts, InboxPartsNext
<1> QED
  BY <1>3, <1>4, EventsInvPartsNext

\* Each of the steps that emit events leaves a live view live.
LEMMA AddLive ==
    ASSUME EventsInv, NEW c \in Contexts, NEW b \in Bindings, Add(c, b), UNCHANGED viewVars,
           NEW v \in Views, Live(v), SeesKeys(Matches[v])
    PROVE  Live(v)'
<1>1. EventsInv' /\ v \in Observers
  BY AddKeeps, ViewConstants
<1>2. Inbox(v)' = Inbox(v) \o (IF Told(v, c, b) THEN Accepted(v, AddEvents(c, b)) ELSE <<>>)
  BY <1>1, AddKeeps
<1>3. Bound
  BY EventsInvParts
<1>4. AddEvents(c, b) \in Seq(Event)
  BY <1>3, AddEventsAre
<1>5. b \in Matches[v] => Accepted(v, AddEvents(c, b)) # <<>>
  <2> DEFINE old == [i \in 1 .. Cardinality(SameKey(c, b)) |->
                       Unbound(CHOOSE x \in SameKey(c, b) : TRUE)]
             news == AddEvents(c, b)
             S == [type : {"bind", "unbind"}, binding : Matches[v]]
  <2>1. SUFFICES ASSUME b \in Matches[v] PROVE Within(news, S) # <<>>
    BY DEF Accepted
  <2>2. \E i \in 1 .. Len(news) : news[i] = Bind(b)
    <3>1. old \in Seq(Event)
      <4> DEFINE m == Cardinality(SameKey(c, b))
                 u == Unbound(CHOOSE x \in SameKey(c, b) : TRUE)
      <4>1. m \in Nat
        <5>1. SameKey(c, b) = {} \/ \E x \in Bindings : SameKey(c, b) = {x}
          BY <1>3, OneReplaced
        <5>2. Cardinality({}) = 0 /\ \A x : Cardinality({x}) = 1
          BY FS_EmptySet, FS_Singleton
        <5>3. m = 0 \/ m = 1
          BY <5>1, <5>2, Zenon
        <5> QED
          BY <5>3
      <4>2. SameKey(c, b) # {} => (CHOOSE x \in SameKey(c, b) : TRUE) \in Bindings
        BY <1>3, OneReplaced
      <4>3. SameKey(c, b) = {} => Cardinality(SameKey(c, b)) = 0
        BY FS_EmptySet
      <4>4. m = 0 \/ u \in Event
        BY <4>2, <4>3 DEF Unbound, Event
      <4>5. old = [i \in 1 .. m |-> u]
        OBVIOUS
      <4> HIDE DEF m, u, old
      <4> QED
        BY <4>1, <4>4, <4>5
    <3>2. news = Append(old, Bind(b))
      BY DEF AddEvents
    <3> HIDE DEF news, old
    <3>3. Len(news) \in 1 .. Len(news) /\ news[Len(news)] = Bind(b)
      BY <3>1, <3>2
    <3> QED
      BY <3>3
  <2>3. Bind(b) \in S
    BY <2>1 DEF Bind
  <2> HIDE DEF news, S
  <2>4. news \in Seq(Event)
    BY <1>4 DEF news
  <2>5. Bind(b) \in ToSet(Within(news, S))
    <3>1. ToSet(Within(news, S)) = ToSet(news) \cap S
      BY <2>4, WithinElements
    <3>2. Bind(b) \in ToSet(news)
      BY <2>2, <2>4 DEF ToSet
    <3> QED
      BY <2>3, <3>1, <3>2
  <2> QED
    BY <2>5 DEF ToSet
<1>6. /\ UNCHANGED <<observers, missed, cachedB>>
      /\ \A d \in Contexts : d # c => registry'[d] = registry[d]
      /\ \A x \in Bindings : KeyOf[x] # KeyOf[b] => (x \in registry'[c] <=> x \in registry[c])
  BY DEF Add, viewVars, EventsInv, EventsShape, SameKey
<1> HIDE DEF AddEvents
<1> QED
  BY <1>1, <1>2, <1>4, <1>5, <1>6, LiveChange

LEMMA UnbindLive ==
    ASSUME EventsInv, NEW c \in Contexts, NEW b \in Bindings, Unbind(c, b), UNCHANGED viewVars,
           NEW v \in Views, Live(v), SeesKeys(Matches[v])
    PROVE  Live(v)'
<1>1. EventsInv' /\ v \in Observers /\ <<Unbound(b)>> \in Seq(Event)
  BY UnbindKeeps, ViewConstants
<1>2. Inbox(v)' = Inbox(v) \o (IF Told(v, c, b) THEN Accepted(v, <<Unbound(b)>>) ELSE <<>>)
  BY <1>1, UnbindKeeps
<1>3. b \in Matches[v] => Accepted(v, <<Unbound(b)>>) # <<>>
  <2> DEFINE u == Unbound(b)
             S == [type : {"bind", "unbind"}, binding : Matches[v]]
  <2>1. SUFFICES ASSUME b \in Matches[v] PROVE Within(<<u>>, S) # <<>>
    BY DEF Accepted
  <2>2. u \in S /\ u \in Event
    BY <2>1 DEF Unbound, Event
  <2> HIDE DEF u, S
  <2>3. Within(<<u>>, S) = <<u>>
    BY <2>2, WithinSingle
  <2>4. <<u>> # <<>>
    OBVIOUS
  <2> QED
    BY <2>3, <2>4, Zenon
<1>4. /\ UNCHANGED <<observers, missed, cachedB>>
      /\ \A d \in Contexts : d # c => registry'[d] = registry[d]
      /\ \A x \in Bindings : KeyOf[x] # KeyOf[b] => (x \in registry'[c] <=> x \in registry[c])
  BY DEF Unbind, viewVars, EventsInv, EventsShape
<1> DEFINE news == <<Unbound(b)>>
<1> HIDE DEF news
<1>5. Live(v)'
  <2>1. news \in Seq(Event) /\ (b \in Matches[v] => Accepted(v, news) # <<>>)
        /\ Inbox(v)' = Inbox(v) \o (IF Told(v, c, b) THEN Accepted(v, news) ELSE <<>>)
    BY <1>1, <1>2, <1>3 DEF news
  <2> QED
    BY <1>1, <1>4, <2>1, LiveChange
<1> QED
  BY <1>5

\* The other steps of the events: an observer that is passed over is not trusted, and a
\* view is not passed over by an error of its own.
LEMMA EventsLive ==
    ASSUME EventsInv, NEW v \in Views, Live(v), UNCHANGED viewVars,
           \/ \E c \in Contexts : Close(c) \/ Take(c) \/ Throw(c) \/ Notified(c)
           \/ \E o \in Observers \ Views : Subscribe(o)
           \/ \E o \in Observers : Unsubscribe(o)
    PROVE  Live(v)'
<1>1. v \in Observers /\ v \notin Throwers /\ ContextOf[v] \in Contexts
  BY EventConstants, ViewConstants
<1>2. UNCHANGED cachedB
  BY DEF viewVars
<1>3. ASSUME NEW c \in Contexts, Close(c) PROVE Live(v)'
  <2>1. /\ EventsInv' /\ observers'[ContextOf[v]] =
             IF ContextOf[v] = c THEN <<>> ELSE observers[ContextOf[v]]
        /\ ContextOf[v] # c => Inbox(v)' = Inbox(v)
    BY <1>1, <1>3, CloseKeeps
  <2>2. UNCHANGED <<registry, missed>>
    BY <1>3 DEF Close
  <2>3. ToSet(<<>>) = {}
    BY DEF ToSet
  <2>4. Trusted(v)' => Trusted(v) /\ ContextOf[v] # c
    BY <2>1, <2>2, <2>3, TrustedIs
  <2> QED
    BY <1>2, <2>1, <2>2, <2>4, LiveKept
<1>4. ASSUME NEW c \in Contexts, Take(c) PROVE Live(v)'
  <2>1. EventsInv' /\ Inbox(v)' = Inbox(v)
    BY <1>1, <1>4, TakeKeeps
  <2>2. UNCHANGED <<registry, observers, missed>>
    BY <1>4 DEF Take, contextVars
  <2> QED
    BY <1>2, <2>1, <2>2, TrustedIs, LiveKept
<1>5. ASSUME NEW c \in Contexts, Throw(c) PROVE Live(v)'
  <2>1. /\ EventsInv'
        /\ Inbox(v)' = IF v \in {Called(c)} \cup ToSet(Tail(busy[c][1].to))
                       THEN Tail(Inbox(v)) ELSE Inbox(v)
    BY <1>1, <1>5, ThrowKeeps
  <2>2. /\ UNCHANGED <<registry, observers>> /\ Called(c) \in Throwers
        /\ missed' = missed \cup ToSet(Tail(busy[c][1].to))
    BY <1>5 DEF Throw, contextVars
  <2>3. Trusted(v)' => Trusted(v) /\ v \notin {Called(c)} \cup ToSet(Tail(busy[c][1].to))
    BY <1>1, <2>1, <2>2, TrustedIs
  <2> QED
    BY <1>2, <2>1, <2>2, <2>3, LiveKept
<1>6. ASSUME NEW c \in Contexts, Notified(c) PROVE Live(v)'
  <2>1. EventsInv' /\ Inbox(v)' = Inbox(v)
    BY <1>1, <1>6, NotifiedKeeps
  <2>2. UNCHANGED <<registry, observers, missed>>
    BY <1>6 DEF Notified, contextVars
  <2> QED
    BY <1>2, <2>1, <2>2, TrustedIs, LiveKept
<1>7. ASSUME NEW o \in Observers \ Views, Subscribe(o) PROVE Live(v)'
  <2>1. /\ EventsInv' /\ Inbox(v)' = Inbox(v)
        /\ ToSet(observers'[ContextOf[v]]) = IF ContextOf[v] = ContextOf[o]
              THEN ToSet(observers[ContextOf[v]]) \cup {o} ELSE ToSet(observers[ContextOf[v]])
    BY <1>1, <1>7, SubscribeKeeps
  <2>2. UNCHANGED <<registry, missed>> /\ v # o
    BY <1>7 DEF Subscribe, taskVars
  <2>3. Trusted(v)' => Trusted(v)
    BY <2>1, <2>2, TrustedIs
  <2> QED
    BY <1>2, <2>1, <2>2, <2>3, LiveKept
<1>8. ASSUME NEW o \in Observers, Unsubscribe(o) PROVE Live(v)'
  <2>1. /\ EventsInv' /\ Inbox(v)' = Inbox(v)
        /\ ToSet(observers'[ContextOf[v]]) = IF ContextOf[v] = ContextOf[o]
              THEN ToSet(observers[ContextOf[v]]) \ {o} ELSE ToSet(observers[ContextOf[v]])
    BY <1>1, <1>8, UnsubscribeKeeps
  <2>2. UNCHANGED <<registry, missed>>
    BY <1>8 DEF Unsubscribe, taskVars
  <2>3. Trusted(v)' => Trusted(v)
    BY <2>1, <2>2, TrustedIs
  <2> QED
    BY <1>2, <2>1, <2>2, <2>3, LiveKept
<1> QED
  BY <1>3, <1>4, <1>5, <1>6, <1>7, <1>8

\* A view that is notified drops what it has; the others are not concerned.
LEMMA NotifyLive ==
    ASSUME EventsInv, CachesShape, NEW v \in Views, Live(v), NEW c \in Contexts, Notify(c)
    PROVE  Live(v)'
<1>1. v \in Observers /\ ContextOf[v] \in Contexts
  BY EventConstants, ViewConstants
<1>2. Deliver(c)
  BY DEF Notify
<1>3. EventsInv' /\ Inbox(v)' = IF v = Called(c) THEN Tail(Inbox(v)) ELSE Inbox(v)
  BY <1>1, <1>2, DeliverKeeps
<1>4. UNCHANGED <<registry, observers, missed>>
  BY <1>2 DEF Deliver, contextVars
<1>5. CASE v = Called(c)
  BY <1>5 DEF Notify, Refresh, CachesShape, Live
<1>6. CASE v # Called(c)
  <2>1. cachedB'[v] = cachedB[v]
    BY <1>6 DEF Notify, Refresh, viewVars, CachesShape
  <2>2. Inbox(v)' = Inbox(v) /\ (Trusted(v)' => Trusted(v)) /\ Find(v)' = Find(v)
    BY <1>3, <1>4, <1>6, TrustedIs, FindIs
  <2> QED
    BY <2>1, <2>2 DEF Live
<1> QED
  BY <1>5, <1>6

\* values(), and what it does when it goes on.
LEMMA ReadLive ==
    ASSUME EventsInv, CachesShape, NEW v \in Views, Live(v),
           \/ \E r \in Readers : Resolved(r) \/ Rejected(r)
           \/ \E r \in Readers, w \in Views : Values(r, w) \/ ValuesFail(r, w)
           \/ \E w \in Views : ReadBindings(w)
    PROVE  Live(v)'
<1>1. UNCHANGED eventVars
  BY DEF Values, ValuesFail, Resolved, Rejected, ReadBindings
<1>2. v \in Observers
  BY ViewConstants
<1>3. EventsInv' /\ Inbox(v)' = Inbox(v) /\ UNCHANGED <<registry, observers, missed>>
  BY <1>1, <1>2, EventsStutter DEF eventVars, contextVars, taskVars
<1>4. Find(v)' = Find(v) /\ (Trusted(v)' => Trusted(v))
  BY <1>3, FindIs, TrustedIs
<1>5. cachedB'[v] = cachedB[v] \/ (cachedB'[v] = <<BindingsOf(v)>>)
  BY DEF Values, ValuesFail, Resolved, Rejected, ReadBindings, BindingsOf, CachesShape
<1>6. cachedB[v] # <<>> => cachedB[v] = <<cachedB[v][1]>>
  BY MaybeOne DEF CachesShape
<1>7. cachedB'[v] = cachedB[v] \/ (cachedB[v] = <<>> /\ cachedB'[v] = <<Find(v)>>)
  BY <1>5, <1>6 DEF BindingsOf
<1> QED
  BY <1>3, <1>4, <1>7 DEF Live

\* refresh()
LEMMA RefreshLive ==
    ASSUME EventsInv, CachesShape, NEW v \in Views, Live(v), NEW w \in Views,
           Refresh(w), UNCHANGED eventVars
    PROVE  Live(v)'
<1>1. v \in Observers
  BY ViewConstants
<1>2. EventsInv' /\ Inbox(v)' = Inbox(v) /\ UNCHANGED <<registry, observers, missed>>
  BY <1>1, EventsStutter DEF eventVars, contextVars, taskVars
<1>3. Find(v)' = Find(v) /\ (Trusted(v)' => Trusted(v))
  BY <1>2, FindIs, TrustedIs
<1>4. cachedB'[v] = cachedB[v] \/ cachedB'[v] = <<>>
  BY DEF Refresh, CachesShape
<1> QED
  BY <1>2, <1>3, <1>4 DEF Live

-----------------------------------------------------------------------------
(* The types, and the invariant of a view *)

LEMMA EventsKept ==
    ASSUME EventsInv, CachesShape, [Next]_vars
    PROVE  EventsInv'
<1>1. CASE EventsStep
  BY <1>1, AddKeeps, UnbindKeeps, CloseKeeps, TakeKeeps, ThrowKeeps, NotifiedKeeps DEF EventsStep
<1>2. CASE \E o \in Observers \ Views : Subscribe(o)
  BY <1>2, SubscribeKeeps
<1>3. CASE \E o \in Observers : Unsubscribe(o)
  BY <1>3, UnsubscribeKeeps
<1>4. CASE \E c \in Contexts : Notify(c)
  BY <1>4, DeliverKeeps DEF Notify
<1>5. CASE UNCHANGED eventVars
  BY <1>5, EventsStutter
<1> QED
  BY <1>1, <1>2, <1>3, <1>4, <1>5 DEF Next, vars, Values, ValuesFail, Resolved, Rejected, ReadBindings

LEMMA BindingsFound ==
    ASSUME CachesShape, NEW v \in Views
    PROVE  BindingsOf(v) \in SUBSET Bindings
<1>1. cachedB[v] \in Maybe(SUBSET Bindings)
  BY DEF CachesShape
<1>2. cachedB[v] # <<>> => cachedB[v][1] \in SUBSET Bindings
  BY <1>1, MaybeOne
<1> QED
  BY <1>2, FindIs DEF BindingsOf

LEMMA CachesKept ==
    ASSUME EventsInv, CachesShape, [Next]_vars
    PROVE  CachesShape'
<1> USE DEF CachesShape
<1>1. ASSUME NEW c \in Contexts, Notify(c) PROVE CachesShape'
  <2>1. <<>> \in Maybe(SUBSET Bindings)
    BY DEF Maybe
  <2> QED
    BY <1>1, <2>1, CacheSet DEF Notify, Refresh, viewVars
<1>2. ASSUME NEW r \in Readers, NEW v \in Views, Values(r, v) PROVE CachesShape'
  <2> DEFINE now == [of |-> v, found |-> BindingsOf(v)]
  <2>1. BindingsOf(v) \in SUBSET Bindings
    BY BindingsFound
  <2>2. <<BindingsOf(v)>> \in Maybe(SUBSET Bindings) /\ <<now>> \in Maybe(Reading)
    BY <2>1 DEF Reading, Maybe
  <2>3. /\ cachedB' = [cachedB EXCEPT ![v] = <<BindingsOf(v)>>]
        /\ cachedV' = cachedV \/ cachedV' = [cachedV EXCEPT ![v] = <<BindingsOf(v)>>]
        /\ reading' = reading \/ reading' = [reading EXCEPT ![r] = <<now>>]
    BY <1>2 DEF Values
  <2> HIDE DEF now
  <2>4. cachedB' \in [Views -> Maybe(SUBSET Bindings)]
    BY <2>2, <2>3, CacheSet
  <2>5. cachedV' \in [Views -> Maybe(SUBSET Bindings)]
    BY <2>2, <2>3, CacheSet
  <2>6. reading' \in [Readers -> Maybe(Reading)]
    BY <2>2, <2>3, CacheSet
  <2> QED
    BY <2>4, <2>5, <2>6
<1>3. ASSUME NEW r \in Readers, NEW v \in Views, ValuesFail(r, v) PROVE CachesShape'
  <2>1. <<BindingsOf(v)>> \in Maybe(SUBSET Bindings)
    BY BindingsFound DEF Maybe
  <2> QED
    BY <1>3, <2>1, CacheSet DEF ValuesFail
<1>4. ASSUME NEW r \in Readers, Resolved(r) PROVE CachesShape'
  <2>1. reading[r] # <<>> /\ reading[r] \in Maybe(Reading)
    BY <1>4 DEF Resolved
  <2>2. reading[r][1] \in Reading
    BY <2>1, MaybeOne
  <2> DEFINE v == reading[r][1].of
  <2>3. v \in Views /\ reading[r][1].found \in SUBSET Bindings
    BY <2>2 DEF Reading
  <2>4. /\ cachedB' = cachedB /\ reading' = [reading EXCEPT ![r] = <<>>]
        /\ \/ cachedV' = cachedV
           \/ \E kept \in SUBSET reading[r][1].found : cachedV' = [cachedV EXCEPT ![v] = <<kept>>]
    BY <1>4 DEF Resolved
  <2>5. \A kept \in SUBSET reading[r][1].found : <<kept>> \in Maybe(SUBSET Bindings)
    BY <2>3 DEF Maybe
  <2>6. <<>> \in Maybe(Reading)
    BY DEF Maybe
  <2> QED
    BY <2>3, <2>4, <2>5, <2>6, CacheSet
<1>5. CASE UNCHANGED viewVars
  BY <1>5 DEF viewVars
<1>6. ASSUME NEW v \in Views, ReadBindings(v) PROVE CachesShape'
  <2>1. <<Find(v)>> \in Maybe(SUBSET Bindings)
    BY FindIs DEF Maybe
  <2> QED
    BY <1>6, <2>1, CacheSet DEF ReadBindings
<1>7. ASSUME NEW v \in Views, Refresh(v) PROVE CachesShape'
  <2>1. <<>> \in Maybe(SUBSET Bindings)
    BY DEF Maybe
  <2> QED
    BY <1>7, <2>1, CacheSet DEF Refresh
<1>8. ASSUME NEW r \in Readers, Rejected(r) PROVE CachesShape'
  <2>1. <<>> \in Maybe(Reading)
    BY DEF Maybe
  <2> QED
    BY <1>8, <2>1, CacheSet DEF Rejected
<1> QED
  BY <1>1, <1>2, <1>3, <1>4, <1>5, <1>6, <1>7, <1>8 DEF Next, vars

LEMMA Initially ==
    ASSUME Init
    PROVE  EventsInv /\ CachesShape /\ \A o \in Observers : Inbox(o) = <<>>
<1>1. EventsInv /\ \A o \in Observers : Inbox(o) = <<>>
  BY EventsInitially, ViewConstants DEF Init
<1>2. CachesShape
  BY DEF Init, CachesShape, Maybe
<1> QED
  BY <1>1, <1>2

LEMMA TypesAre ==
    ASSUME EventsInv, CachesShape
    PROVE  TypeOK
<1>1. Event = [type : {"bind", "unbind"}, binding : Bindings]
      /\ Note = [event : Event, to : Seq(Observers)]
  BY DEF Event, Note
<1>2. \A c \in Contexts : IsInjective(observers[c])
  BY DEF EventsInv, Lists
<1>3. \A c \in Contexts : busy[c] \in Seq(Note) /\ Len(busy[c]) <= 1
  BY MaybeOne DEF EventsInv, EventsShape
<1>4. EventsTypeOK
  BY <1>1, <1>2, <1>3 DEF EventsTypeOK, EventsInv, EventsShape
<1>5. ASSUME NEW v \in Views, NEW cache \in {cachedB, cachedV}
      PROVE  cache[v] \in Seq(SUBSET Bindings) /\ Len(cache[v]) <= 1
  <2>1. cache[v] \in Maybe(SUBSET Bindings)
    BY DEF CachesShape
  <2> QED
    BY <2>1, MaybeOne
<1>6. ASSUME NEW r \in Readers
      PROVE  Len(reading[r]) <= 1 /\ ToSet(reading[r]) \subseteq Reading
  <2>1. reading[r] \in Maybe(Reading)
    BY DEF CachesShape
  <2>2. reading[r] \in Seq(Reading) /\ Len(reading[r]) <= 1
    BY <2>1, MaybeOne
  <2> QED
    BY <2>2 DEF ToSet
<1> QED
  BY <1>4, <1>5, <1>6 DEF TypeOK, Reading

\* The registry, the subscriptions, the queues and the caches hold what they should: a
\* key is bound once in a context, an observer is in its context's list at most once, and
\* a context has no more than one notification under way.
THEOREM TypeCorrect == Spec => []TypeOK
<1>1. Init => EventsInv /\ CachesShape
  BY Initially
<1>2. (EventsInv /\ CachesShape) /\ [Next]_vars => (EventsInv /\ CachesShape)'
  BY EventsKept, CachesKept
<1>3. EventsInv /\ CachesShape => TypeOK
  BY TypesAre
<1> QED
  BY <1>1, <1>2, <1>3, PTL DEF Spec

\* Cached values are those of the cached bindings, and a reader that awaits the values of
\* some bindings will find these cached, or none.
Paired ==
    /\ \A v \in Views : cachedV[v] # <<>> => cachedV[v] = cachedB[v]
    /\ \A r \in Readers :
          reading[r] # <<>> =>
             \/ cachedB[reading[r][1].of] = <<>>
             \/ cachedB[reading[r][1].of] = <<reading[r][1].found>>

LEMMA PairedKept ==
    ASSUME CachesShape, Paired, \A r, s \in Readers : r = s, BindingsRead = "settled",
           [Next]_vars, EventsInv
    PROVE  Paired'
<1>1. CASE UNCHANGED viewVars
  BY <1>1 DEF Paired, viewVars
<1>2. ASSUME NEW c \in Contexts, Notify(c) PROVE Paired'
  <2>1. CASE Called(c) \in Views
    <3>1. PICK w \in Views : Refresh(w)
      BY <1>2, <2>1 DEF Notify
    <3> QED
      BY <3>1 DEF Paired, Refresh, CachesShape
  <2> QED
    BY <1>1, <1>2, <2>1 DEF Notify
<1>3. ASSUME NEW v \in Views PROVE cachedB[v] = <<>> \/ cachedB[v] = <<BindingsOf(v)>>
  <2>1. cachedB[v] \in Maybe(SUBSET Bindings)
    BY DEF CachesShape
  <2> QED
    BY <2>1, MaybeOne DEF BindingsOf
<1>4. ASSUME NEW r \in Readers, NEW v \in Views, Values(r, v) \/ ValuesFail(r, v)
      PROVE  Paired'
  <2>1. \A s \in Readers : s = r
    OBVIOUS
  <2> QED
    BY <1>3, <1>4, <2>1 DEF Paired, Values, ValuesFail, CachesShape
<1>5. ASSUME NEW r \in Readers, Resolved(r) PROVE Paired'
  <2>1. reading[r] # <<>> /\ reading[r] \in Maybe(Reading)
    BY <1>5 DEF Resolved, CachesShape
  <2>2. reading[r][1].of \in Views /\ reading[r][1].found \in SUBSET Bindings
    <3>1. reading[r][1] \in Reading
      BY <2>1, MaybeOne
    <3> QED
      BY <3>1 DEF Reading
  <2> DEFINE v == reading[r][1].of
             found == reading[r][1].found
  <2>3. cachedB[v] = <<>> \/ cachedB[v] = <<found>>
    BY <2>1 DEF Paired
  <2>4. IsFiniteSet(found)
    BY <2>2, FS_Subset, EventConstants
  <2>5. \A kept \in SUBSET found : Cardinality(kept) = Cardinality(found) => kept = found
    BY <2>4, FS_Subset
  <2>6. cachedB' = cachedB /\ reading' = [reading EXCEPT ![r] = <<>>]
        /\ (cachedV' = cachedV \/ cachedV' = [cachedV EXCEPT ![v] = cachedB[v]])
    <3>1. CASE cachedB[v] = <<>>
      BY <1>5, <3>1 DEF Resolved
    <3>2. CASE cachedB[v] # <<>>
      <4>1. cachedB[v] = <<found>> /\ cachedB[v][1] = found
        BY <2>3, <3>2
      <4>2. PICK kept \in SUBSET found :
               /\ kept = found \/ Cardinality(kept) = Cardinality(cachedB[v][1])
               /\ cachedV' = [cachedV EXCEPT ![v] = <<kept>>]
        BY <1>5, <3>2 DEF Resolved
      <4>3. kept = found
        BY <2>5, <4>1, <4>2
      <4> QED
        BY <1>5, <4>1, <4>2, <4>3 DEF Resolved
    <3> QED
      BY <3>1, <3>2
  <2>7. \A s \in Readers : s = r
    OBVIOUS
  <2> QED
    BY <2>2, <2>6, <2>7 DEF Paired, CachesShape
<1>6. ASSUME NEW w \in Views, Refresh(w) PROVE Paired'
  BY <1>6 DEF Paired, Refresh, CachesShape
<1>7. ASSUME NEW w \in Views, ReadBindings(w) PROVE Paired'
  <2>1. /\ ~Awaited(w) /\ cachedB[w] = <<>>
        /\ cachedB' = [cachedB EXCEPT ![w] = <<Find(w)>>] /\ UNCHANGED <<cachedV, reading>>
    BY <1>7 DEF ReadBindings
  <2>2. cachedV[w] = <<>>
    BY <2>1 DEF Paired
  <2>3. \A v \in Views : v # w => cachedB'[v] = cachedB[v]
    BY <2>1 DEF CachesShape
  <2>4. ASSUME NEW r \in Readers, reading[r] # <<>>
        PROVE  reading[r][1].of \in Views /\ reading[r][1].of # w
    <3>1. reading[r][1] \in Reading
      BY <2>4, MaybeOne DEF CachesShape
    <3> QED
      BY <2>1, <2>4, <3>1 DEF Awaited, Reading
  <2> QED
    BY <2>1, <2>2, <2>3, <2>4 DEF Paired
<1>8. ASSUME NEW r \in Readers, Rejected(r) PROVE Paired'
  BY <1>8 DEF Paired, Rejected, CachesShape
<1> QED
  BY <1>1, <1>2, <1>4, <1>5, <1>6, <1>7, <1>8 DEF Next, vars

\* What keeps a view right: it is live or about to be notified, and Paired.
ViewIsRight == EventsInv /\ CachesShape /\ Paired /\ \A v \in Views : Live(v)

LEMMA LiveStep ==
    ASSUME EventsInv, CachesShape, NEW v \in Views, Live(v), SeesKeys(Matches[v]), [Next]_vars
    PROVE  Live(v)'
<1>1. CASE EventsStep /\ UNCHANGED viewVars
  BY <1>1, AddLive, UnbindLive, EventsLive DEF EventsStep
<1>2. CASE \E o \in Observers \ Views : Subscribe(o) /\ UNCHANGED viewVars
  BY <1>2, EventsLive
<1>3. CASE \E o \in Observers : Unsubscribe(o) /\ UNCHANGED viewVars
  BY <1>3, EventsLive
<1>4. CASE \E c \in Contexts : Notify(c)
  BY <1>4, NotifyLive
<1>5. CASE \/ \E r \in Readers : Resolved(r) \/ Rejected(r)
           \/ \E r \in Readers, w \in Views : Values(r, w) \/ ValuesFail(r, w)
           \/ \E w \in Views : ReadBindings(w)
  BY <1>5, ReadLive
<1>7. CASE \E w \in Views : Refresh(w) /\ UNCHANGED eventVars
  BY <1>7, RefreshLive
<1>6. CASE UNCHANGED vars
  <2>1. v \in Observers /\ UNCHANGED eventVars /\ UNCHANGED cachedB
    BY <1>6, ViewConstants DEF vars, viewVars
  <2>2. EventsInv' /\ Inbox(v)' = Inbox(v) /\ UNCHANGED <<registry, observers, missed>>
    BY <2>1, EventsStutter DEF eventVars, contextVars, taskVars
  <2>3. Trusted(v)' => Trusted(v)
    BY <2>2, TrustedIs
  <2> QED
    BY <2>1, <2>2, <2>3, LiveKept
<1> QED
  BY <1>1, <1>2, <1>3, <1>4, <1>5, <1>6, <1>7 DEF Next

\* A view whose filter looks at keys only, with one reader of values at a time and whose
\* bindings nobody reads while values are on their way, is live and pairs values with their
\* bindings, whatever is bound, refreshed or fails to resolve. The conditions are needed:
\* the runs view_shadow and view_race show what a filter by another property, and what a
\* second reader or the getter bindings lead to.
THEOREM ViewInvariant ==
    ASSUME \A v \in Views : SeesKeys(Matches[v]), \A r, s \in Readers : r = s,
           BindingsRead = "settled"
    PROVE  Spec => []ViewInv
<1>1. Init => ViewIsRight
  BY Initially DEF ViewIsRight, Paired, Live, Init
<1>2. ViewIsRight /\ [Next]_vars => ViewIsRight'
  BY EventsKept, CachesKept, PairedKept, LiveStep DEF ViewIsRight
<1>3. ViewIsRight => ViewInv
  <2>1. SUFFICES ASSUME ViewIsRight PROVE ViewInv
    OBVIOUS
  <2>2. TypeOK /\ ValuesOfBindings
    BY <2>1, TypesAre DEF ViewIsRight, Paired, ValuesOfBindings
  <2>3. ViewIsLive
    BY <2>1 DEF ViewIsRight, Live, ViewIsLive
  <2> QED
    BY <2>2, <2>3 DEF ViewInv
<1> QED
  BY <1>1, <1>2, <1>3, PTL DEF Spec

-----------------------------------------------------------------------------
(* What observers are promised *)

\* The observers that are subscribed, and what each is still to hear.
Subs == UNION {ToSet(observers[c]) : c \in Contexts}
Inboxes == [o \in Observers |-> Inbox(o)]

\* The words of ContextFeed, for what is in the contexts.
LEMMA FeedWords ==
    /\ \A s, S : Feed!Within(s, S) = Within(s, S)
    /\ \A S : Feed!SetToSeq(S) = SetToSeq(S)
    /\ \A s : Feed!Prefixes(s) = Prefixes(s)
    /\ \A s, t : Feed!IsPrefix(s, t) <=> IsPrefix(s, t)
    /\ \A c, b : Feed!Of(c, KeyOf[b]) = SameKey(c, b)
<1>1. \A s, S : Feed!Within(s, S) = Within(s, S)
  BY DEF Feed!Within, Within
<1>2. \A S : Feed!SetToSeq(S) = SetToSeq(S)
  BY DEF Feed!SetToSeq, SetToSeq, Feed!IsInjective, IsInjective, Feed!Cardinality, Cardinality
<1>3. \A s : Feed!Prefixes(s) = Prefixes(s)
  BY DEF Feed!Prefixes, Prefixes
<1>4. \A s, t : Feed!IsPrefix(s, t) <=> IsPrefix(s, t)
  BY DEF Feed!IsPrefix, IsPrefix
<1>5. \A c, b : Feed!Of(c, KeyOf[b]) = SameKey(c, b)
  BY DEF Feed!Of, SameKey
<1> QED
  BY <1>1, <1>2, <1>3, <1>4, <1>5

LEMMA SubsAre ==
    /\ Subscribed => \A o : o \in Subs <=> o \in Observers /\ o \in ToSet(observers[ContextOf[o]])
    /\ Subscribed' => \A o : o \in Subs' <=> o \in Observers /\ o \in ToSet(observers'[ContextOf[o]])
<1>1. \A o \in Observers : ContextOf[o] \in Contexts
  BY EventConstants
<1>2. ASSUME Subscribed, NEW o
      PROVE  o \in Subs <=> o \in Observers /\ o \in ToSet(observers[ContextOf[o]])
  <2>1. ASSUME NEW c \in Contexts, o \in ToSet(observers[c])
        PROVE  o \in Observers /\ ContextOf[o] = c
    BY <1>2, <2>1 DEF Subscribed, Lists
  <2> QED
    BY <1>1, <2>1 DEF Subs
<1>3. ASSUME Subscribed', NEW o
      PROVE  o \in Subs' <=> o \in Observers /\ o \in ToSet(observers'[ContextOf[o]])
  <2>1. ASSUME NEW c \in Contexts, o \in ToSet(observers'[c])
        PROVE  o \in Observers /\ ContextOf[o] = c
    BY <1>3, <2>1 DEF Subscribed, Lists
  <2> QED
    BY <1>1, <2>1 DEF Subs
<1> QED
  BY <1>2, <1>3

\* Who is entitled to hear of an event is told of it.
LEMMA FeedTold ==
    ASSUME EventsInv, NEW c \in Contexts, NEW b \in Bindings, NEW o \in Observers
    PROVE  o \in Feed!Entitled(c, KeyOf[b]) <=> Told(o, c, b)
<1>1. o \in Subs <=> o \in ToSet(observers[ContextOf[o]])
  BY SubsAre, EventsInvParts
<1>2. o \in Feed!Entitled(c, KeyOf[b]) <=>
         /\ o \in Subs
         /\ ContextOf[o] >= c
         /\ \A e \in c + 1 .. ContextOf[o] : SameKey(e, b) = {}
  BY FeedWords DEF Feed!Entitled, Subs
<1> QED
  BY <1>1, <1>2 DEF Told

LEMMA FeedAnnounced ==
    ASSUME EventsInv, NEW c \in Contexts, NEW b \in Bindings, NEW news,
           \A o \in Observers : Inbox(o)' =
              Inbox(o) \o (IF Told(o, c, b) THEN Accepted(o, news) ELSE <<>>)
    PROVE  Feed!Announce(c, KeyOf[b], news)
<1>1. ASSUME NEW o \in Observers
      PROVE  Inbox(o)' = IF o \in Feed!Entitled(c, KeyOf[b])
                         THEN Inboxes[o] \o Accepted(o, news) ELSE Inboxes[o]
  <2>1. Inbox(o) \in Seq(Event)
    BY CallsTypes, EventsInvParts
  <2> DEFINE in == Inbox(o)
  <2>2. in \o <<>> = in
    <3> HIDE DEF in
    <3>1. in \in Seq(Event)
      BY <2>1 DEF in
    <3> QED
      BY <3>1
  <2>3. Inboxes[o] = in
    BY DEF Inboxes
  <2> HIDE DEF in
  <2>4. Inbox(o)' = in \o (IF Told(o, c, b) THEN Accepted(o, news) ELSE <<>>)
    BY DEF in
  <2> QED
    BY <2>2, <2>3, <2>4, FeedTold
<1>2. Inboxes' = [o \in Observers |-> Inbox(o)']
  BY DEF Inboxes
<1>3. Inboxes' = [o \in Observers |-> IF o \in Feed!Entitled(c, KeyOf[b])
                                      THEN Inboxes[o] \o Accepted(o, news) ELSE Inboxes[o]]
  BY <1>1, <1>2
<1> QED
  BY <1>3, FeedWords, Zenon DEF Feed!Announce, Accepted, Inboxes

LEMMA FeedAdds ==
    ASSUME EventsInv, NEW c \in Contexts, NEW b \in Bindings, Add(c, b)
    PROVE  Feed!FeedAdd(c, b)
<1> DEFINE news == SetToSeq([type : {"unbind"}, binding : SameKey(c, b)])
                     \o <<[type |-> "bind", binding |-> b]>>
<1>1. \A o \in Observers : Inbox(o)' =
         Inbox(o) \o (IF Told(o, c, b) THEN Accepted(o, AddEvents(c, b)) ELSE <<>>)
  BY AddKeeps
<1>2. AddEvents(c, b) = news
  BY AddEventsAre, EventsInvParts DEF Bind
<1>3. Feed!Announce(c, KeyOf[b], news)
  <2> HIDE DEF news
  <2>1. \A o \in Observers : Inbox(o)' =
           Inbox(o) \o (IF Told(o, c, b) THEN Accepted(o, news) ELSE <<>>)
    BY <1>1, <1>2, Zenon
  <2> QED
    BY <2>1, FeedAnnounced
<1>4. /\ b \notin registry[c] /\ SameKey(c, b) \cap Locked = {}
      /\ registry' = [registry EXCEPT ![c] = (@ \ SameKey(c, b)) \cup {b}]
      /\ UNCHANGED Subs
  BY DEF Add, Subs
<1> QED
  BY <1>3, <1>4, FeedWords, Zenon DEF Feed!FeedAdd, Subs

LEMMA FeedUnbinds ==
    ASSUME EventsInv, NEW c \in Contexts, NEW b \in Bindings, Unbind(c, b)
    PROVE  Feed!FeedUnbind(c, b)
<1> DEFINE news == <<[type |-> "unbind", binding |-> b]>>
<1>1. Feed!Announce(c, KeyOf[b], news)
  <2>1. <<Unbound(b)>> = news
    BY DEF Unbound
  <2>2. \A o \in Observers : Inbox(o)' =
           Inbox(o) \o (IF Told(o, c, b) THEN Accepted(o, news) ELSE <<>>)
    BY <2>1, UnbindKeeps
  <2> HIDE DEF news
  <2> QED
    BY <2>2, FeedAnnounced
<1>2. /\ b \in registry[c] \ Locked /\ registry' = [registry EXCEPT ![c] = @ \ {b}]
      /\ UNCHANGED Subs
  BY DEF Unbind, Subs
<1> QED
  BY <1>1, <1>2, Zenon DEF Feed!FeedUnbind, Subs

LEMMA FeedSubscribes ==
    ASSUME EventsInv, NEW o \in Observers, Subscribe(o)
    PROVE  Feed!FeedSubscribe(o)
<1>1. /\ EventsInv' /\ \A p \in Observers : Inbox(p)' = Inbox(p)
      /\ \A c \in Contexts : ToSet(observers'[c]) =
            IF c = ContextOf[o] THEN ToSet(observers[c]) \cup {o} ELSE ToSet(observers[c])
  BY SubscribeKeeps
<1>2. Subs' = Subs \cup {o}
  <2>1. ContextOf[o] \in Contexts
    BY EventConstants
  <2> QED
    BY <1>1, <2>1 DEF Subs
<1>3. UNCHANGED registry /\ UNCHANGED Inboxes
  BY <1>1 DEF Subscribe, Inboxes
<1> QED
  BY <1>2, <1>3 DEF Feed!FeedSubscribe, Subs, Inboxes

LEMMA FeedUnsubscribes ==
    ASSUME EventsInv, NEW o \in Observers, Unsubscribe(o)
    PROVE  Feed!FeedUnsubscribe(o)
<1>1. /\ EventsInv' /\ \A p \in Observers : Inbox(p)' = Inbox(p)
      /\ \A c \in Contexts : ToSet(observers'[c]) =
            IF c = ContextOf[o] THEN ToSet(observers[c]) \ {o} ELSE ToSet(observers[c])
  BY UnsubscribeKeeps
<1>2. Subs' = Subs \ {o}
  <2>1. \A p : p \in Subs <=> p \in Observers /\ p \in ToSet(observers[ContextOf[p]])
    BY SubsAre, EventsInvParts
  <2>2. \A p : p \in Subs' <=> p \in Observers /\ p \in ToSet(observers'[ContextOf[p]])
    BY <1>1, SubsAre, EventsInvPartsNext
  <2>3. \A p \in Observers : ContextOf[p] \in Contexts
    BY EventConstants
  <2> QED
    BY <1>1, <2>1, <2>2, <2>3
<1>3. UNCHANGED registry /\ UNCHANGED Inboxes
  BY <1>1 DEF Unsubscribe, Inboxes
<1> QED
  BY <1>2, <1>3 DEF Feed!FeedUnsubscribe, Subs, Inboxes

LEMMA FeedHears ==
    ASSUME EventsInv, NEW c \in Contexts, Deliver(c)
    PROVE  \E o \in Observers : Feed!Hear(o)
<1>1. PICK o \in Observers :
         /\ Inbox(o) # <<>>
         /\ \A p \in Observers : Inbox(p)' = IF p = o THEN Tail(Inbox(p)) ELSE Inbox(p)
  BY DeliverKeeps
<1>2. Inboxes[o] # <<>> /\ Inboxes' = [Inboxes EXCEPT ![o] = Tail(@)]
  BY <1>1 DEF Inboxes
<1>3. UNCHANGED <<registry, Subs>>
  BY DEF Deliver, contextVars, Subs
<1> QED
  BY <1>2, <1>3 DEF Feed!Hear, Subs, Inboxes

LEMMA FeedThrows ==
    ASSUME EventsInv, NEW c \in Contexts, Throw(c)
    PROVE  \E o \in Observers : \E Others \in SUBSET (Observers \ {o}) :
              Feed!HearAndThrow(o, Others)
<1>1. PICK o \in Observers, Others \in SUBSET Observers :
         /\ o \in Throwers /\ o \notin Others
         /\ \A p \in {o} \cup Others :
               ContextOf[p] = c /\ Inbox(p) # <<>> /\ Head(Inbox(p)) = Head(Inbox(o))
         /\ \A p \in Observers :
               Inbox(p)' = IF p \in {o} \cup Others THEN Tail(Inbox(p)) ELSE Inbox(p)
  <2>1. PICK o \in Observers, Others \in SUBSET Observers :
           o = Called(c) /\ Others = ToSet(Tail(busy[c][1].to))
    BY ThrowKeeps
  <2>2. o \in Throwers
    BY <2>1 DEF Throw
  <2>3. o \notin Others
    BY <2>1, ThrowKeeps
  <2>4. /\ \A p \in {o} \cup Others :
              ContextOf[p] = c /\ Inbox(p) # <<>> /\ Head(Inbox(p)) = busy[c][1].event
        /\ \A p \in Observers :
              Inbox(p)' = IF p \in {o} \cup Others THEN Tail(Inbox(p)) ELSE Inbox(p)
    BY <2>1, ThrowKeeps
  <2>5. \A p \in {o} \cup Others :
           ContextOf[p] = c /\ Inbox(p) # <<>> /\ Head(Inbox(p)) = Head(Inbox(o))
    BY <2>4
  <2> QED
    BY <2>2, <2>3, <2>4, <2>5, Zenon
<1>2. \A p \in Observers : Inboxes[p] = Inbox(p)
  BY DEF Inboxes
<1>3. Inboxes' = [p \in Observers |->
                    IF p \in Others \cup {o} THEN Tail(Inboxes[p]) ELSE Inboxes[p]]
  <2>1. Inboxes' = [p \in Observers |-> Inbox(p)']
    BY DEF Inboxes
  <2> QED
    BY <1>1, <1>2, <2>1
<1>4. UNCHANGED <<registry, Subs>>
  BY DEF Throw, contextVars, Subs
<1>5. /\ Inboxes[o] # <<>>
      /\ \A p \in Others : ContextOf[p] = ContextOf[o] /\ Inboxes[p] # <<>>
                              /\ Head(Inboxes[p]) = Head(Inboxes[o])
  BY <1>1, <1>2
<1>6. Feed!HearAndThrow(o, Others)
  BY <1>1, <1>3, <1>4, <1>5 DEF Feed!HearAndThrow, Subs, Inboxes
<1>7. Others \in SUBSET (Observers \ {o})
  BY <1>1
<1> QED
  BY <1>6, <1>7, Zenon

LEMMA FeedCloses ==
    ASSUME EventsInv, NEW c \in Contexts, Close(c)
    PROVE  Feed!FeedClose(c)
<1>1. /\ EventsInv'
      /\ \A d \in Contexts : observers'[d] = IF d = c THEN <<>> ELSE observers[d]
      /\ \A o \in Observers :
            /\ ContextOf[o] # c => Inbox(o)' = Inbox(o)
            /\ ContextOf[o] = c => \E l \in 0 .. Len(Inbox(o)) :
                                      Inbox(o)' = SubSeq(Inbox(o), 1, l)
  BY CloseKeeps
<1>2. Subs' = {o \in Subs : ContextOf[o] # c}
  <2>1. \A p : p \in Subs <=> p \in Observers /\ p \in ToSet(observers[ContextOf[p]])
    BY SubsAre, EventsInvParts
  <2>2. \A p : p \in Subs' <=> p \in Observers /\ p \in ToSet(observers'[ContextOf[p]])
    BY <1>1, SubsAre, EventsInvPartsNext
  <2>3. \A p \in Observers : ContextOf[p] \in Contexts
    BY EventConstants
  <2>4. ToSet(<<>>) = {}
    BY DEF ToSet
  <2> QED
    BY <1>1, <2>1, <2>2, <2>3, <2>4
<1>3. ASSUME NEW o \in Observers
      PROVE  /\ Inboxes'[o] \in Prefixes(Inboxes[o])
             /\ IF ContextOf[o] = c THEN IsPrefix(Inboxes'[o], Inboxes[o])
                ELSE Inboxes'[o] = Inboxes[o]
  <2> DEFINE in == Inbox(o)
             left == Inboxes'[o]
  <2>1. in \in Seq(Event)
    BY CallsTypes, EventsInvParts
  <2>2. left = Inbox(o)' /\ Inboxes[o] = in
    BY DEF Inboxes
  <2>3. /\ ContextOf[o] # c => left = in
        /\ ContextOf[o] = c => \E l \in 0 .. Len(in) : left = SubSeq(in, 1, l)
    BY <1>1, <2>2
  <2> HIDE DEF in, left
  <2>4. Len(in) \in 0 .. Len(in) /\ SubSeq(in, 1, Len(in)) = in
    BY <2>1
  <2>5. left \in Prefixes(in)
    BY <2>3, <2>4 DEF Prefixes
  <2>6. ASSUME ContextOf[o] = c PROVE IsPrefix(left, in)
    <3>1. PICK l \in 0 .. Len(in) : left = SubSeq(in, 1, l)
      BY <2>3, <2>6
    <3>2. Len(left) = l /\ SubSeq(left, 1, Len(left)) = SubSeq(in, 1, Len(left))
      BY <2>1, <3>1
    <3> QED
      BY <3>1, <3>2 DEF IsPrefix
  <2> QED
    BY <2>2, <2>3, <2>5, <2>6 DEF left
<1>4. /\ Inboxes' \in [Observers -> UNION {Prefixes(Inboxes[o]) : o \in Observers}]
      /\ \A o \in Observers : IF ContextOf[o] = c THEN IsPrefix(Inboxes'[o], Inboxes[o])
                              ELSE Inboxes'[o] = Inboxes[o]
  <2>1. Inboxes' = [o \in Observers |-> Inboxes'[o]]
    BY DEF Inboxes
  <2> HIDE DEF Inboxes
  <2> QED
    BY <1>3, <2>1
<1>5. UNCHANGED registry
  BY DEF Close
<1>6. /\ Inboxes' \in [Observers -> UNION {Feed!Prefixes(Inboxes[o]) : o \in Observers}]
      /\ \A o \in Observers : IF ContextOf[o] = c THEN Feed!IsPrefix(Inboxes'[o], Inboxes[o])
                              ELSE Inboxes'[o] = Inboxes[o]
  <2> HIDE DEF Inboxes
  <2>1. \A o \in Observers : Feed!Prefixes(Inboxes[o]) = Prefixes(Inboxes[o])
    BY FeedWords, Zenon
  <2>2. {Feed!Prefixes(Inboxes[o]) : o \in Observers} = {Prefixes(Inboxes[o]) : o \in Observers}
    BY <2>1
  <2> QED
    BY <1>4, <2>2, FeedWords, Zenon
<1> QED
  BY <1>2, <1>5, <1>6, Zenon DEF Feed!FeedClose, Subs, Inboxes

\* The steps that observers do not notice: a task goes on, a view is read.
LEMMA FeedStutters ==
    ASSUME EventsInv,
           (\E c \in Contexts : Take(c) \/ Notified(c)) \/ UNCHANGED eventVars
    PROVE  UNCHANGED <<registry, Subs, Inboxes>>
<1>1. \A o \in Observers : Inbox(o)' = Inbox(o)
  BY TakeKeeps, NotifiedKeeps, EventsStutter
<1>2. UNCHANGED <<registry, observers>>
  BY DEF Take, Notified, eventVars, contextVars
<1> QED
  BY <1>1, <1>2 DEF Subs, Inboxes

\* Every observer hears of the events it is entitled to, once and in their order: what the
\* contexts, their queues and their tasks do is what ContextFeed promises.
THEOREM FeedImplemented == Spec => ImplementsFeed
<1>1. Init => EventsInv /\ CachesShape
  BY Initially
<1>2. (EventsInv /\ CachesShape) /\ [Next]_vars => (EventsInv /\ CachesShape)'
  BY EventsKept, CachesKept
<1>3. ASSUME Init PROVE Feed!FeedInit
  <2>1. \A o \in Observers : Inbox(o) = <<>>
    BY <1>3, Initially
  <2>2. Inboxes = [o \in Observers |-> <<>>]
    BY <2>1 DEF Inboxes
  <2>3. Subs \subseteq Observers
    BY <1>3, Initially, SubsAre, EventsInvParts
  <2>4. registry = [c \in 1 .. Depth |-> {}]
    BY <1>3 DEF Init, EventsInit, Contexts
  <2> QED
    BY <2>2, <2>3, <2>4 DEF Feed!FeedInit, Subs, Inboxes
<1>4. ASSUME EventsInv, CachesShape, [Next]_vars
      PROVE  [Feed!FeedNext]_<<registry, Subs, Inboxes>>
  <2> USE DEF Contexts
  <2>1. ASSUME NEW c \in Contexts, NEW b \in Bindings, Add(c, b) \/ Unbind(c, b)
        PROVE  Feed!FeedNext
    BY <1>4, <2>1, FeedAdds, FeedUnbinds DEF Feed!FeedNext
  <2>2. ASSUME NEW o \in Observers, Subscribe(o) \/ Unsubscribe(o) PROVE Feed!FeedNext
    BY <1>4, <2>2, FeedSubscribes, FeedUnsubscribes DEF Feed!FeedNext
  <2>3. ASSUME NEW c \in Contexts, Close(c) PROVE Feed!FeedNext
    BY <1>4, <2>3, FeedCloses DEF Feed!FeedNext
  <2>4. ASSUME NEW c \in Contexts, Throw(c) PROVE Feed!FeedNext
    BY <1>4, <2>4, FeedThrows DEF Feed!FeedNext
  <2>5. ASSUME NEW c \in Contexts, Deliver(c) PROVE Feed!FeedNext
    BY <1>4, <2>5, FeedHears DEF Feed!FeedNext
  <2>6. CASE (\E c \in Contexts : Take(c) \/ Notified(c)) \/ UNCHANGED eventVars
    BY <1>4, <2>6, FeedStutters
  <2> QED
    BY <1>4, <2>1, <2>2, <2>3, <2>4, <2>5, <2>6
    DEF Next, EventsStep, Notify, Values, ValuesFail, Resolved, Rejected, ReadBindings, vars
<1>5. [Feed!FeedNext]_<<registry, Subs, Inboxes>> => [Feed!FeedNext]_(Feed!feedVars)
  BY DEF Feed!feedVars, Subs, Inboxes
<1> QED
  BY <1>1, <1>2, <1>3, <1>4, <1>5, PTL DEF Spec, ImplementsFeed, Feed!FeedSpec
=============================================================================

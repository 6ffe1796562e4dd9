------------------------------ MODULE ContextFeed ------------------------------
(***************************************************************************)
(* What docs/site/Context.md promises to context event observers: one that *)
(* subscribes to a context hears of the bindings that come and go there    *)
(* and in its ancestors, unless a nearer binding shadows the key, and it   *)
(* hears of them in the order of the events. There are no queues, tasks or *)
(* event handlers here, only the calls each observer is still entitled to. *)
(***************************************************************************)
EXTENDS Naturals, SequencesExt, Selection

CONSTANTS Depth, Bindings, KeyOf, Locked, Observers, ContextOf, Matches, Throwers

VARIABLES
    registry,    \* registry[c]: the bindings of context c
    subscribed,  \* the observers that are subscribed
    inbox        \* inbox[o]: the events observer o has still to hear of

feedVars == <<registry, subscribed, inbox>>

FeedInit ==
    /\ registry = [c \in 1 .. Depth |-> {}]
    /\ subscribed \subseteq Observers
    /\ inbox = [o \in Observers |-> <<>>]

Of(c, k) == {x \in registry[c] : KeyOf[x] = k}

\* The observers that see context c and have no nearer binding for key k.
Entitled(c, k) ==
    {o \in subscribed :
        /\ ContextOf[o] >= c
        /\ \A e \in c + 1 .. ContextOf[o] : Of(e, k) = {}}

Announce(c, k, events) ==
    inbox' = [o \in Observers |->
                IF o \in Entitled(c, k)
                THEN inbox[o] \o Within(events, [type : {"bind", "unbind"},
                                                binding : Matches[o]])
                ELSE inbox[o]]

FeedAdd(c, b) ==
    LET old == Of(c, KeyOf[b])
    IN  /\ b \notin registry[c]
        /\ old \cap Locked = {}
        /\ registry' = [registry EXCEPT ![c] = (@ \ old) \cup {b}]
        /\ Announce(c, KeyOf[b],
              SetToSeq([type : {"unbind"}, binding : old])
                \o <<[type |-> "bind", binding |-> b]>>)
        /\ UNCHANGED subscribed

FeedUnbind(c, b) ==
    /\ b \in registry[c] \ Locked
    /\ registry' = [registry EXCEPT ![c] = @ \ {b}]
    /\ Announce(c, KeyOf[b], <<[type |-> "unbind", binding |-> b]>>)
    /\ UNCHANGED subscribed

FeedSubscribe(o) ==
    /\ subscribed' = subscribed \cup {o}
    /\ UNCHANGED <<registry, inbox>>

FeedUnsubscribe(o) ==
    /\ subscribed' = subscribed \ {o}
    /\ UNCHANGED <<registry, inbox>>

Hear(o) ==
    /\ inbox[o] # <<>>
    /\ inbox' = [inbox EXCEPT ![o] = Tail(@)]
    /\ UNCHANGED <<registry, subscribed>>

\* An observer throws: it takes the event from others of its context.
HearAndThrow(o, Others) ==
    /\ o \in Throwers
    /\ inbox[o] # <<>>
    /\ \A p \in Others :
          ContextOf[p] = ContextOf[o] /\ inbox[p] # <<>>
              /\ Head(inbox[p]) = Head(inbox[o])
    /\ inbox' = [p \in Observers |->
                   IF p \in Others \cup {o} THEN Tail(inbox[p]) ELSE inbox[p]]
    /\ UNCHANGED <<registry, subscribed>>

\* A context is closed: its observers hear of no more than they are owed.
FeedClose(c) ==
    /\ subscribed' = {o \in subscribed : ContextOf[o] # c}
    /\ UNCHANGED registry
    /\ \A o \in Observers :
          IF ContextOf[o] = c THEN IsPrefix(inbox'[o], inbox[o])
          ELSE inbox'[o] = inbox[o]
    /\ inbox' \in [Observers -> UNION {Prefixes(inbox[o]) : o \in Observers}]

FeedNext ==
    \/ \E c \in 1 .. Depth, b \in Bindings : FeedAdd(c, b) \/ FeedUnbind(c, b)
    \/ \E o \in Observers :
          \/ FeedSubscribe(o) \/ FeedUnsubscribe(o) \/ Hear(o)
          \/ \E Others \in SUBSET (Observers \ {o}) : HearAndThrow(o, Others)
    \/ \E c \in 1 .. Depth : FeedClose(c)

FeedSpec == FeedInit /\ [][FeedNext]_feedVars
=============================================================================

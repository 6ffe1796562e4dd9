------------------------------ MODULE RestServer ------------------------------
(***************************************************************************)
(* RestServer (packages/rest/src/rest.server.ts) with its HttpServer: it   *)
(* is started and stopped, its HttpHandler is rebuilt when controllers,    *)
(* routes or the API spec change in the context, and requests find their   *)
(* route in the handler of that moment and invoke it some time later.      *)
(*                                                                         *)
(* A route is known by its key, the verb and path.  The notifications are  *)
(* those of ContextEvents, cut down to their number.                       *)
(***************************************************************************)
EXTENDS HttpServer, SequencesExt

CONSTANTS
    Callers,         \* who calls start() and stop()
    Keys,            \* the verbs and paths
    Controllers,     \* the controllers that may be bound
    Offers,          \* Offers[c]: the keys of the spec of controller c
    Broken,          \* the controllers not bound with toClass()
    SpecKeys,        \* what the API spec may have an operation for
    SpecController,  \* its x-controller-name
    Templated,       \* the keys whose path has variables
    TrieRouting,     \* is the router a TrieRouter, as by default, or a RegExpRouter?
    Wanted,          \* Wanted[r]: the key that request r asks for
    Hanging,         \* the requests whose method may never settle
    MaxChanges,      \* bound: changes of the context
    MaxPending       \* bound: notifications that count, rebuilding is idempotent

None == "none"
User == "user"
Owners == Controllers \cup {None, User}

ASSUME RestConstants ==
    /\ Offers \in [Controllers -> SUBSET Keys] /\ Broken \subseteq Controllers
    /\ SpecKeys \subseteq Keys /\ SpecController \in Controllers
    /\ Templated \subseteq Keys /\ TrieRouting \in BOOLEAN
    /\ Wanted \in [Requests -> Keys] /\ Hanging \subseteq Requests
    /\ MaxChanges \in Nat /\ MaxPending \in Nat \ {0} /\ IsFiniteSet(Keys)
    /\ None \notin Controllers \cup Keys /\ User \notin Controllers

VARIABLES
    controllers,  \* the controllers bound, in the order of the registry
    bound,        \* bound[k]: whose route is bound to the key of k
    spec,         \* the key the API spec has an operation for, or None
    changes,      \* how often these were changed
    built,        \* is there an HttpHandler, and a subscription?
    routes,       \* routes[k]: the owner of the route in its table
    pending,      \* notifications on their way to the subscription
    call,         \* call[c]: where the call of c is, and its server
    current,      \* _httpServer, or 0
    port,         \* what RestBindings.PORT is bound to
    misused,      \* did calls overlap, or start what had been started?
    request,      \* request[r]: where request r is
    owner         \* owner[r]: the route it has found

contextVars == <<controllers, bound, spec, changes>>
handlerVars == <<built, routes, pending>>
serverVars == <<call, current, port, misused>>
requestVars == <<request, owner>>
vars == <<httpVars, contextVars, handlerVars, serverVars, requestVars>>

TypeOK ==
    /\ HttpTypeOK
    /\ controllers \in Seq(Controllers)
    /\ bound \in [Keys -> Owners] /\ routes \in [Keys -> Owners]
    /\ spec \in SpecKeys \cup {None} /\ built \in BOOLEAN /\ misused \in BOOLEAN
    /\ changes \in 0 .. MaxChanges /\ pending \in 0 .. MaxPending
    /\ call \in [Callers -> [at : {"idle", "starting", "opening", "closing"},
                             server : Servers \cup {0}]]
    /\ current \in Servers \cup {0} /\ port \in Ports \cup {0}
    /\ request \in [Requests -> {"none", "arrived", "found", "running", "answered"}]
    /\ owner \in [Requests -> Owners]

Idle == [at |-> "idle", server |-> 0]

Init ==
    /\ HttpInit
    /\ controllers \in {<<>>} \cup {<<c>> : c \in Controllers \ Broken}
    /\ bound = [k \in Keys |-> None]
    /\ spec = None /\ changes = 0
    /\ built = FALSE /\ pending = 0
    /\ routes = [k \in Keys |-> None]
    /\ call = [c \in Callers |-> Idle]
    /\ current = 0 /\ port = 0 /\ misused = FALSE
    /\ request = [r \in Requests |-> "none"]
    /\ owner = [r \in Requests |-> None]

-----------------------------------------------------------------------------
IsBound(c) == \E p \in DOMAIN controllers : controllers[p] = c

\* The registered ones: rebuilding throws at the first that is broken.
Registered == {p \in DOMAIN controllers : \A q \in 1 .. p : controllers[q] \notin Broken}

\* The owner of k among the controllers at these positions, the last one that
\* offers it; otherwise it is the other one.
LastFor(k, positions, other) ==
    LET offering == {p \in positions : k \in Offers[controllers[p]]}
    IN  IF offering = {} THEN other
        ELSE controllers[CHOOSE p \in offering : \A q \in offering : q <= p]

\* Fault: all routes are removed before the controllers' are bound.
ReboundAfterAll(k) == LastFor(k, Registered, None)

\* The route bindings after a rebuild: the controllers' own are removed, those
\* of the controllers that are bound replace what has the same key.
Rebound(k) ==
    LastFor(k, Registered, IF bound[k] \in Controllers THEN None ELSE bound[k])

AllRegistered == Registered = DOMAIN controllers

\* The operation of the API spec comes last, when its key has a route already.
\* BaseRouter.add() replaces that route if the path has no variables; if it has
\* some, the trie refuses a second value and RegExpRouter finds the first.
Duplicate == spec \in Templated /\ Rebound(spec) # None

SpecWorks ==
    spec # None => /\ IsBound(SpecController) /\ SpecController \notin Broken
                   /\ ~(TrieRouting /\ Duplicate)

\* The table after a rebuild: nothing is registered if a controller is broken.
Rebuilt(k) ==
    IF ~AllRegistered THEN None
    ELSE IF spec = k /\ SpecWorks /\ ~Duplicate THEN SpecController
    ELSE Rebound(k)

Upto(n) == IF n <= MaxPending THEN n ELSE MaxPending

\* Rebuilding is notified of the user's routes that it replaces; the filter
\* leaves out the routes of controllers.
Notifications == Cardinality({k \in Keys : bound[k] = User /\ Rebound(k) # User})

\* _createHttpHandler()
Rebuild(left) ==
    /\ built' = TRUE
    /\ bound' = [k \in Keys |-> Rebound(k)]
    /\ routes' = [k \in Keys |-> Rebuilt(k)]
    /\ pending' = Upto(left + Notifications)
    /\ UNCHANGED <<controllers, spec, changes>>

Throws == ~AllRegistered \/ ~SpecWorks

Notify ==
    /\ pending > 0
    /\ Rebuild(pending - 1)
    /\ UNCHANGED <<httpVars, serverVars, requestVars>>

\* Fault: the observer does not watch the API spec.
ChangedUnlessSpec(n) ==
    /\ changes < MaxChanges /\ changes' = changes + 1
    /\ pending' = IF built /\ spec' = spec THEN Upto(pending + n) ELSE pending
    /\ UNCHANGED <<httpVars, built, routes, serverVars, requestVars>>

\* n bindings that the subscription watches have come or gone.
Changed(n) ==
    /\ changes < MaxChanges /\ changes' = changes + 1
    /\ pending' = IF built THEN Upto(pending + n) ELSE pending
    /\ UNCHANGED <<httpVars, built, routes, serverVars, requestVars>>

BindController(c) ==
    /\ ~IsBound(c)
    /\ controllers' = Append(controllers, c)
    /\ UNCHANGED <<bound, spec>>
    /\ Changed(1)

UnbindController(c) ==
    /\ \E p \in DOMAIN controllers :
          controllers[p] = c /\ controllers' = RemoveAt(controllers, p)
    /\ UNCHANGED <<bound, spec>>
    /\ Changed(1)

\* route(): what has been bound to the key is unbound.
Route(k) ==
    /\ bound' = [bound EXCEPT ![k] = User]
    /\ UNCHANGED <<controllers, spec>>
    /\ Changed(IF bound[k] = User THEN 2 ELSE 1)

UnbindRoute(k) ==
    /\ bound[k] = User
    /\ bound' = [bound EXCEPT ![k] = None]
    /\ UNCHANGED <<controllers, spec>>
    /\ Changed(1)

\* api()
Api ==
    /\ spec' \in (SpecKeys \cup {None}) \ {spec}
    /\ UNCHANGED <<controllers, bound>>
    /\ Changed(2)

-----------------------------------------------------------------------------
InProcess == \E c \in Callers : call[c].at # "idle"

\* Bound: after a call out of turn no other begins.
MayCall(c) == call[c].at = "idle" /\ ~misused

\* start() sets up the handler, if there is none, and begins to await its
\* settings; it is over if the handler cannot be built.
Start(c) ==
    /\ MayCall(c)
    /\ IF built THEN UNCHANGED <<contextVars, handlerVars>> ELSE Rebuild(0)
    /\ call' = IF ~built /\ Throws THEN call
               ELSE [call EXCEPT ![c] = [at |-> "starting", server |-> 0]]
    /\ misused' = (misused \/ InProcess \/ (current # 0 /\ phase[current] = "listening"))
    /\ UNCHANGED <<httpVars, requestVars, current, port>>

\* It makes a server for the port that is bound now.
Listen(c) ==
    /\ call[c].at = "starting"
    /\ \E s \in Servers :
          /\ \A t \in Servers : phase[t] = "none" => s <= t
          /\ Open(s, port)
          /\ current' = s
          /\ call' = [call EXCEPT ![c] = [at |-> "opening", server |-> s]]
    /\ UNCHANGED <<contextVars, handlerVars, requestVars, port, misused>>

ListensOn(c, p) ==
    /\ call[c].at = "opening" /\ Opened(call[c].server)
    /\ call' = [call EXCEPT ![c] = Idle]
    /\ port' = p
    /\ UNCHANGED <<contextVars, handlerVars, requestVars, current, misused>>

\* The server listens, and PORT is bound to the port of _httpServer; start()
\* throws if that has been cleared meanwhile.
Listens(c) == ListensOn(c, IF current = 0 THEN port ELSE addr'[current])

ListenFails(c) ==
    /\ call[c].at = "opening" /\ OpenFails(call[c].server)
    /\ call' = [call EXCEPT ![c] = Idle]
    /\ UNCHANGED <<contextVars, handlerVars, requestVars, current, port, misused>>

StopAs(c, cleared) ==
    /\ MayCall(c) /\ current # 0
    /\ misused' = (misused \/ InProcess)
    /\ IF Listening(current)
       THEN /\ Close(current)
            /\ call' = [call EXCEPT ![c] = [at |-> "closing", server |-> current]]
            /\ current' = IF cleared THEN 0 ELSE current
       ELSE /\ current' = 0
            /\ UNCHANGED <<httpVars, call>>
    /\ UNCHANGED <<contextVars, handlerVars, requestVars, port>>

\* Fault: _httpServer is cleared before its stop() is awaited.
StopClearing(c) == StopAs(c, TRUE)

\* stop() returns at once if the server does not listen, or not yet.
Stop(c) == StopAs(c, FALSE)

StoppedWhen(c, ready) ==
    /\ call[c].at = "closing" /\ phase[call[c].server] = "closed" /\ ready
    /\ call' = [call EXCEPT ![c] = Idle]
    /\ current' = 0
    /\ UNCHANGED <<httpVars, contextVars, handlerVars, requestVars, port, misused>>

\* Fault: it looks for the server that it closed in _httpServer.
StoppedIfCurrent(c) == StoppedWhen(c, current = call[c].server)

Stopped(c) == StoppedWhen(c, TRUE)

SocketEvent(s) ==
    /\ Closed(s) \/ GraceEnds(s)
    /\ UNCHANGED <<contextVars, handlerVars, serverVars, requestVars>>

-----------------------------------------------------------------------------
Arrive(r) ==
    /\ request[r] = "none"
    /\ \E s \in Servers : Accept(r, s)
    /\ request' = [request EXCEPT ![r] = "arrived"]
    /\ UNCHANGED <<contextVars, handlerVars, serverVars, owner>>

Goes(r, at) ==
    /\ request' = [request EXCEPT ![r] = at]
    /\ UNCHANGED <<httpVars, contextVars, handlerVars, serverVars>>

\* The middleware gets the handler of this moment; "not found" is an answer.
FindRoute(r) ==
    /\ request[r] = "arrived"
    /\ owner' = [owner EXCEPT ![r] = routes[Wanted[r]]]
    /\ Goes(r, IF routes[Wanted[r]] = None THEN "answered" ELSE "found")

\* Fault: a controller that is not bound any more is waited for.
InvokeIfBound(r) ==
    /\ request[r] = "found"
    /\ owner[r] \in Controllers => IsBound(owner[r])
    /\ Goes(r, "running")
    /\ UNCHANGED owner

\* The controller is resolved by its key; an error is an answer as well.
Invoke(r) ==
    /\ request[r] = "found"
    /\ Goes(r, IF owner[r] \in Controllers /\ ~IsBound(owner[r]) THEN "answered" ELSE "running")
    /\ UNCHANGED owner

Respond(r) ==
    /\ request[r] = "running"
    /\ Goes(r, "answered")
    /\ UNCHANGED owner

\* The end of a connection ends the response, and closes the context of the
\* request, but not its sequence.
HangUp(r) ==
    /\ Disconnect(r)
    /\ UNCHANGED <<contextVars, handlerVars, serverVars, requestVars>>

Next ==
    \/ Notify \/ Api
    \/ \E c \in Controllers : BindController(c) \/ UnbindController(c)
    \/ \E k \in Keys : Route(k) \/ UnbindRoute(k)
    \/ \E c \in Callers :
          Start(c) \/ Listen(c) \/ Listens(c) \/ ListenFails(c) \/ Stop(c) \/ Stopped(c)
    \/ \E s \in Servers : SocketEvent(s)
    \/ \E r \in Requests : Arrive(r) \/ FindRoute(r) \/ Invoke(r) \/ Respond(r) \/ HangUp(r)

Spec == Init /\ [][Next]_vars

\* Notifications are delivered, calls go on, requests are worked on unless
\* their method hangs, and connections that are not needed come to an end.
FairSpec ==
    /\ Spec
    /\ WF_vars(Notify)
    /\ \A c \in Callers : WF_vars(Listen(c) \/ Listens(c) \/ ListenFails(c) \/ Stopped(c))
    /\ \A s \in Servers : WF_vars(SocketEvent(s))
    /\ \A r \in Requests : /\ WF_vars(FindRoute(r) \/ Invoke(r))
                           /\ WF_vars(r \notin Hanging /\ Respond(r))
                           /\ WF_vars(request[r] = "answered" /\ HangUp(r))

-----------------------------------------------------------------------------
\* Whose route a request for k should get: the API spec goes before the
\* controllers, the last of them before the others, and these before a route of
\* the user's own.
Claims(c, k) == k \in Offers[c] /\ IsBound(c)
Expected(k) ==
    IF spec = k THEN SpecController
    ELSE LastFor(k, DOMAIN controllers, IF bound[k] = User THEN User ELSE None)

\* Nothing is bound that rebuilding refuses or passes over. An operation of the
\* API spec on a path with variables that has a route of its own already is that:
\* RestServer.api() is said to "override any routes defined via decorators", and
\* there it does not.
Sound == SpecWorks /\ ~Duplicate /\ \A c \in Broken : ~IsBound(c)

\* When the notifications of a context without faulty bindings have been
\* delivered the server routes requests by what is bound now, whatever was bound,
\* unbound and rebound in between and however often rebuilding failed ("Rebuild
\* the HttpHandler instance whenever a controller/route was added/deleted").
HandlerUpToDate ==
    built /\ pending = 0 /\ Sound => \A k \in Keys : routes[k] = Expected(k)

\* Even after a rebuild that failed, a route whose owner has gone is not served
\* any more.
NoStrayRoutes ==
    built /\ pending = 0 => \A k \in Keys :
        CASE routes[k] \in Controllers ->
                Claims(routes[k], k) \/ (spec = k /\ IsBound(routes[k]))
          [] routes[k] = User -> bound[k] = User
          [] OTHER -> TRUE

\* The table of the server follows the context: it is what is bound now, and after
\* a rebuild that failed at least serves nobody who has gone.
RoutesCurrent == HandlerUpToDate /\ NoStrayRoutes

\* A route of the user's own is only lost to a controller that claims its key.
UserRoutesKept ==
    [][\A k \in Keys : bound[k] = User /\ bound'[k] # User =>
          UnbindRoute(k) \/ \E c \in Controllers : Claims(c, k)]_vars

\* Rebuilding does not set itself off again ("to avoid circular events").
RebuildsEnd == <>[](pending = 0)

\* As long as the calls do not overlap, every socket that is open belongs to
\* the server that stop() would close.
OnlyCurrentListens ==
    ~misused => \A s \in Servers : Listening(s) => s = current

\* A server that takes requests has had its configuration verified: it has a
\* handler ("so that we can verify the configuration ... at startup time").
ListensWithHandler == (\E s \in Servers : phase[s] # "none") => built

\* When stop() has waited for its server, no connection of it is left.
StopDrains ==
    [][\A c \in Callers : call[c].at = "closing" /\ call'[c].at = "idle" =>
          \A r \in Requests : conn[r] # call[c].server]_vars

\* A server that is started again is told the port that it was given the first
\* time, although any port will do, so that its URL stays the same.
PortKept ==
    LET listened == {s \in Servers : phase[s] \in {"listening", "closing", "closed"}}
    IN  ~misused => \A s, t \in Servers :
            t \in listened /\ (s \in listened \/ phase[s] = "opening") => addr[s] = addr[t]

\* Which sockets are open, with what behind them and at which port, as start() and
\* stop() are called one at a time.
ListensRight == TypeOK /\ OnlyCurrentListens /\ ListensWithHandler /\ PortKept

\* Every request gets an answer, of an old route or a new one, unless its
\* method hangs.
RequestsAnswered ==
    \A r \in Requests : (request[r] = "arrived") ~>
        (request[r] = "answered" \/ (request[r] = "running" /\ r \in Hanging))

\* The server goes on serving: a change of the context rebuilds the handler and is
\* done with, while requests of before, in between and after are answered.
ServingGoesOn == RebuildsEnd /\ RequestsAnswered

\* stop() returns, also while requests hang if there is a period of grace.
StopReturns ==
    (Graceful \/ Hanging = {}) =>
        \A c \in Callers : (call[c].at = "closing") ~> (call[c].at = "idle")
=============================================================================

# A TLA+ verification of LoopBack 4

LoopBack 4 is a framework of npm packages for Node.js applications. Its core is
an inversion-of-control container (`packages/context`), an application object
with a life cycle built on it (`packages/core`), and servers, repositories and
extensions that live in the container. Everything runs on the single thread of
the event loop: between two `await`s nothing else happens, but at every `await`,
every queued notification and every signal other calls may run in between, and
that is what most of the modules here are about. The others are about functions
whose results are easy to state and hard to test: routers, orders, votes,
constraints, inclusion, and indexes, metadata and schemas that are shared.

Line numbers are those of the files below `src/`; `PROJECT.json` ("map") gives
for each definition the lines it models.

## The system: parts, state, operations, interaction

| Part | State it keeps | Operations | Talks to | What is hard, what must hold |
|---|---|---|---|---|
| Application life cycle (`core/src/application.ts`, `boot/src/mixins/boot.mixin.ts`) | `state`, `_initialized`, `_isShuttingDown`, signal listeners on the process | `boot`, `init`, `start`, `stop`, the signal listener | emits state events to itself; calls the registry and the bootstrapper | racing calls wait for each other through events; signals, failures and restarts come in between. One operation at a time, no lost event, one initialization, no leaked listener, calls settle |
| Life cycle observer registry (`core/src/lifecycle-registry.ts`) | options, a view of the observer bindings | `init`, `start`, `stop`, `setOrderedGroups` | called by the application, calls the observers, reads a view | group order, reversed for stop; parallel and serial groups; observers that fail or come and go |
| Context: events and subscriptions (`context/src/context.ts`, `context-subscription.ts`) | registry per context, observers, a notification queue and a task per manager | `add`, `unbind`, `subscribe`, `unsubscribe`, `close` | the child listens to the parent's events and emits them again | delivery is asynchronous, the set of observers and the registries go on changing; each event once, in order, to those entitled to it |
| Context view (`context/src/context-view.ts`) | `_cachedBindings`, `_cachedValues` | `bindings`, `values`, `resolve`, `refresh`, `open`, `close` | a subscriber; resolves bindings | two caches that must agree with each other and, in the end, with the context |
| Bindings and resolution (`binding.ts`, `resolver.ts`, `resolution-session.ts`, `inject.ts`) | a cache per binding and context, a stack per session | `getValue`, `get`, `refresh`, constructor and property injection, getters | recursion through everything injected; promises | slow singletons asked for concurrently, scopes, circular dependencies, rejections |
| Tag index and configuration (`context-tag-indexer.ts`, `binding-filter.ts`, `binding-config.ts`) | per context a set of bindings for each tag | `findByTag`; reacts to `bind`, `unbind`, `changed` | events of its context and of the bindings in it | bindings tagged before or after they are bound, replaced, or shared by contexts |
| Interceptor chain and invocations (`interceptor-chain.ts`, `interceptor.ts`, `invocation.ts`) | an index per invocation, a context per invocation | `invokeInterceptors`, `next()`, `close()` | views of interceptors, the target method | `next()` late, twice or never; nothing runs twice, invocations are isolated, the context is closed last |
| Components, services, extension points (`core/src/component.ts`, `service.ts`, `extension-point.ts`) | none of their own | mounting | add bindings; views | - |
| Bootstrapper and booters (`boot/src/`) | per booter: options, discovered files, classes | `configure`, `discover`, `load` | called by `boot()`, adds bindings | phases in order over all booters; failure half way |
| REST server (`rest/src/rest.server.ts`, `http-handler.ts`) | HTTP handler with routes and API components, `_httpServer` | `start`, `stop`, routes and controllers added | observes the context and rebuilds the handler; HTTP server | requests between a change and the rebuild; a rebuild that fails |
| HTTP server (`http-server/src/`) | `_listening`, a socket | `start`, `stop` | Node | stop while starting; connections that stay |
| Routing, sequence (`rest/src/router/`, `sequence.ts`) | trie or list of routes | `add`, `find` | handler | the route found matches, and does not depend on the order of registration |
| REST parsing, validation, writing | none | conversions | - | - |
| Express and middleware (`express/src/`) | chains of middleware, groups with a partial order | `middleware`, `invokeMiddleware` | interceptor chains, request contexts | group order, cycles |
| Repositories, relations, filters (`repository/src/`, `filter/src/`) | in the database | CRUD, relations, inclusion | juggler connectors | writes in several statements without a transaction; constraints that must not be escaped; targets put back where they belong |
| Schemas, OpenAPI (`repository-json-schema/`, `openapi-v3/`) | a schema kept with each model | `getJsonSchema`, `getJsonSchemaRef`, the spec | metadata | circles of models, objects that are shared and changed |
| Metadata (`metadata/src/`) | an object per class and decorator | decorators, inspector | Reflect | inherited objects that must not be changed |
| Authentication, authorization (`authentication/src/`, `authorization/src/`) | none | interceptor with a vote | the request context | precedence of allow and deny |
| Pooling (`extensions/pooling`) | an external pool | `acquire`, `release`, `destroy`, `run`, `stop` | generic-pool, hooks of resources | a hook that fails must not lose a resource |
| Health, metrics and other extensions | around external libraries | life cycle observers | application | - |
| HTTP caching proxy, testlab, CLI, build tools, examples, docs | - | - | - | development and tests only |

`PROJECT.json` lists the same parts with their status, and under "hazards" the
places that are hard to test, also those no property covers.

How the modelled parts interact:

    Application --boot--> Bootstrapper            (one operation in AppLifecycle)
       |  \--init/start/stop--> Registry --invokes--> observers
       |                          | values(), bindings
       |                          v
       |                      ContextView --resolves--> Binding.getValue
       |                          ^ observe()                 ^
     Context chain --bind/unbind--+  (queued notifications)   |
       |      \--bind/unbind/changed--> TagIndex (synchronous)|
       |                                                      |
       +--notifies--> RestServer --opens--> HttpServer        |
                         | a request                          |
                         v                                    |
      Routers -> middleware and interceptor chains -> vote of authorizers
                         | method of a controller             |
                         v                                    |
      relations: constraints, inclusion, has-many-through ----+

## The modules

| Module | Models | Size of the step |
|---|---|---|
| `AppLifecycle`, `LifecycleContract` | the application's state machine, its callers, the signal listener; the life cycle as `docs/site/Life-cycle.md` states it | from one `await` to the next; a transition |
| `LifeCycleRegistry` | one application's registry, with the caches of its view | an `await`, a queued notification, an observer that settles |
| `ContextEvents`, `ContextFeed` | a chain of contexts with managers, queues, tasks and observers; what subscribers are promised | an event through the whole chain; one observer called |
| `ContextView` | `ContextEvents` with views and their caches | as above; the halves of `values()` around its `await` |
| `BindingResolution` | resolution in a chain of contexts | one binding entered or left in a synchronous pass; a promise that settles |
| `InterceptorChain` | invocations of a method and of chains a view discovers | a call of `next()`; an interceptor that answers, calls on or throws |
| `HttpServer`, `RestServer` | a server that is started, stopped and asked, its handler rebuilt on context events | an `await`, a notification, a socket event, half a request |
| `ThroughRelation` | the operations of a has-many-through relation over two tables | one statement |
| `Pooling` | a pool of resources with hooks, over generic-pool | an `await` |
| `TagIndex` | the index of tags over a chain of contexts | one synchronous operation |
| `Decorators` | the metadata of a class and its subclass | one decorator applied |
| `JsonSchemas` | schemas of models, kept, included and collected | one model, property or relation of the recursion |
| `AuthorizationVote` | the vote of the authorizers of a method | one authorizer asked |
| `Routers`, `InterceptorOrder`, `MiddlewareOrder`, `RelationConstraints`, `Inclusion` | functions of their inputs | - |
| `Selection` | `Array.prototype.filter` and the elements of a `Set`, for the modules that are proved about | - |
| `Subject` | what the functions are asked, of which their modules state what they find | - |
| `AppLifecycleProofs`, `LifeCycleRegistryProofs`, `ContextViewProofs`, `BindingResolutionProofs`, `InterceptorChainProofs`, `RestServerProofs` | theorems about the module of that name; `ContextViewProofs` also about `ContextEvents` and its refinement of `ContextFeed`, `InterceptorChainProofs` about `InterceptorOrder` and `MiddlewareOrder` | |
| `OperatorsProofs` | theorems about `Pooling`, `TagIndex`, `AuthorizationVote`, `Decorators`, `JsonSchemas`, `ThroughRelation`, `RelationConstraints` and `Inclusion` | |
| `DataFacts` | lemmas about numbers and sequences that the proofs need | |
| `MC*` | instances for TLC; `MCOperators` is one for all that a single request meets | |

### AppLifecycle

`state` is `_state`, `initialized` is `_initialized`, `at[a]` where the call of
actor `a` stands ("idle", the operation it performs, the settled state whose
event it awaits, or "resume" for a `start()` whose `init()` has returned),
`op[a]` which method it is, `result[a]` how its last call ended. The actors are
callers and the signal listener (`Handler`). `listeners` counts
the copies of `_signalListener` on the process, `shutdown` is whether one has
run, `timer` the armed grace period, `dead` the end of the process.
`gracePeriod`, whether `options.shutdown.gracePeriod` is a number, is chosen in the
initial state and stays. `initRuns` is history.

* `setState()` emits the event and so resolves all waiting calls in the same
  step: the continuations are microtasks, and the calls they belong to do
  nothing but return, except for `start()`, whose continuation is the separate
  step `ResumeStart`.
* When the listener's `stop()` has nothing to wait for, its `finally` runs in
  the same step (`Signal`): a few microtasks with no task in between. A listener
  of the `stopped` event that calls `start()` is the interleaving of a caller.
* One trapped signal is modelled, and the behaviour without a listener.
* `ContextErrors` allows the `error` events of the context to reach a waiting
  call, which `events.once()` rejects.
* An observer that rejects leaves the state in process, and nobody resets it:
  `Stuck`. Who waits for that operation then waits for ever, which is a finding
  (`lifecycle_stuck`); `CallsSettleUnlessStuck` says that nothing else has calls
  wait for ever. `LifecycleContract` has an operation end or fail (`EndOp`,
  `FailOp`), and its `stuck` is the machine's `Stuck`.
* `MaxListeners` bounds the copies of the listener, only for calls of `start()`
  that would begin.
* A signal while the application starts finds `stop()` refusing, and the listener
  ends the process in its `finally` although observers have been started (second
  disjunct of `Signal`). So does the second `kill()` of a grace period that ends
  with an application that was started again. No property says that either should
  not happen; the code means it so.

### LifeCycleRegistry

`bound` is what `find()` returns, `pending` the notifications on their way to
the view, `cachedB`/`cachedV` the view's caches, `obs`/`bnds` the two results
`notifyGroups()` reads around its `await`, `groups`, `queue` and `running` what
is left of the groups, of a group and at work. A group is its place in the
alphabet, so that "sorted by name" means something. Names of groups come from
`getObserverGroup()`; sorting from `sortBindingsByPhase()`, which is stable: the
bindings of each rank one after the other, each rank filtered from the list
(`Within` of `Selection`, a recursive function, where `SelectSeq` would be beyond
the prover). `ValuesFail` is the rejection of `values()` when an observer cannot be
instantiated, at once or later: the bindings are cached then, the values are not,
the notification fails before any observer is told, and its `outcome` is
"unresolved". No observer is `null`, so the filter of `ContextView.resolve()` keeps
them all.

### ContextEvents, ContextFeed, ContextView

Context 1 is the root, `c - 1` the parent of `c`. An event passes the chain
synchronously (`Reach`), is stopped by a context that has the key bound
(`handleParentEvent()`), and leaves in each manager with observers a
notification with a snapshot of them (`Emit`). `Take`, `Deliver`, `Throw` and
`Notified` are the task. `missed` remembers the observers that were skipped
because another one threw; the code tells nobody.

`ContextView.Find` is `Context.find()`: bindings of the child and those of the
parent without a match of the same key in the child. `Values` is `values()` up to
the `await` of its promises, `Resolved` and `Rejected` what follows, and
`ValuesFail` a rejection before it. `ReadBindings` is the getter `bindings` read by
anybody: it fills `_cachedBindings` alone, so that values on their way from before
a notification are paired with bindings they are not of. `BindingsRead` says
whether that may happen at any time or only while no values are on their way;
`Refresh` is a notification or a call of the public `refresh()`. A value is
identified with its binding and the order of a view is left out, so `Resolved` may
pair values with any bindings of a list of another content. No binding resolves to
`null` or `undefined`, so the filter `v => v != null` drops nothing; in the code a
value that it drops shifts those after it to other bindings.

Assumptions: a closed context is not used again and its children are closed
first (`close()` says as much); a task whose context is closed may deliver what
it had taken; the error a throwing observer causes has a listener. Left out:
`pendingNotifications` and `waitUntilPendingNotificationsDone()`, which exist for
tests.

### BindingResolution

A task is a call of `_getValue()` of a binding and stands for the instance it
makes. `thread` is the synchronous pass: the tasks entered and not yet left,
with their session in `path`; `deps` the tasks whose values or promises were
injected. `Return` caches the result (`_cacheValue()`) and hands it to the task
below. `Throw` unwinds the whole pass. Between passes promises settle (`Fulfil`,
`Reject`), `value()` methods call a getter (`CallGetter`, a session of its own),
`refresh()` drops entries, and callers come and go. Phase "value" is a
task that came back without a promise. `epoch` is history: how often an entry
was dropped.

Left out: optional injections, aliases and property paths, interception
proxies, views, setters and method injection; rebinding or changing the scope
of a binding while it is being resolved (rebinding is in `ContextEvents`).

### InterceptorChain, InterceptorOrder, MiddlewareOrder

An invocation has the shared index of `GenericInterceptorChain` and a record for
every call of `next()` it has led to, call 1 being the chain's own. What an
interceptor does is external: it answers, passes on, throws, calls `next()` once
more after a failure ("retry") or twice at a time ("fork"). The providers of
interceptors may be slow, and an interceptor may be unbound between the sorting
of the bindings and its turn. `Close` is the `finally` of
`invokeMethodWithInterceptors()`; a chain of a view has none.

`InterceptorOrder` computes the list of a method from the global interceptors,
those of the class and of the method (`loadInterceptors()`, `mergeInterceptors()`,
`sortBindingsByPhase()`). `MiddlewareOrder` is `sortListOfGroups()`: toposort is
external and may return any order that keeps the edges; `asMiddleware()` gives
each middleware a group.

### HttpServer, RestServer

`HttpServer` is one socket: opened, listening or failed, closing until its last
connection ends. `RestServer` makes one for each start. `controllers` and
`bound` (whose route is bound to which key) are what the context holds, `spec` what
the API spec has an operation for, `routes` the table of the current handler,
`pending` the notifications on their way, `current` the server in `_httpServer`.
A rebuild (`Notify`) takes the controllers in order and binds their routes; where
one is broken it throws, before anything has been registered: the new handler, which
serves already, has no routes at all (`Rebuilt`), while the route bindings are
those of the controllers before the broken one (`Rebound`). A request finds its
route in the table of that moment and invokes it later, when the controller may be
gone.

The operation of the API spec is registered last. `rest.server.ts:802-803` says that
the API spec "will override any routes defined via decorators". It does so for paths
without variables, which `BaseRouter` keeps in a map (`router-base.ts:30`). For a
path with variables (`Templated`) that has a route already, the trie throws
(`trie.ts:196-200`), so that the rebuild fails after the other routes, and
`RegExpRouter` goes on finding the first. `TrieRouting` chooses the router.
`HandlerUpToDate` says nothing of a context with such a `Duplicate`;
`NoStrayRoutes` holds for it as for every other.

Assumptions: the context has a listener for `error`, so that a rebuild that
throws does not end the process; the sequence finds the route and invokes it as
`MiddlewareSequence` does. After a `start()` or `stop()` that overlaps another
(`Application` sees to it that there is none) no further call begins, so the run
follows one call out of turn. Left out: `listenOnStart: false`, mounted Express
routers, the endpoints and the consolidation of the OpenAPI document,
`basePath()`.

### AuthorizationVote

`intercept()` as a loop with an `await` at each authorizer: `LoadAuthorizers`
resolves them all, `Ask` asks the next, `Decide` comes to a decision when nobody
has settled it. What an authorizer does is external: it votes, returns nothing,
throws, or cannot be resolved. That the user of the request cannot be resolved
(`SecurityBindings.USER`) is left out.

### Routers, RelationConstraints, Inclusion

Pure functions. A path is a sequence of segments, each a literal or the variable
of a template that takes all of a segment. A where object is a function from
properties to accepted values with `and` and `or` clauses, so that "this filter
selects this row" has a definition of its own that the composed filter is
compared with. Tables of `Inclusion` are sequences in the order the database
returns; keys are numbers, among them 0 and a missing one. MongoDB's
`normalizeKey`, polymorphic operations, nested inclusions, the fields of a scope
and external routers are left out.

Two places where the code does less than one may expect are exempted by name.
A literal in the trie ends the search (`trie.ts:115`): with `/users/me/{item}/parts`
and `/users/{id}/notes`, a request for `/users/me/notes` finds nothing
(`Shadowed` in `RoutersFind`); `RegExpRouter` finds it. And targets of several types
behind a through model are dealt out by `shift()` in the order in which they were
found. The comment "Why the order is correct"
(`has-many-through.inclusion-resolver.ts:161`) shows by an example that they reach
the right entity; it is so only if no target is shared by two entities or missing
and the database returns each type in the order of the links, which nobody asks it
to. `ThroughTypesGetLinked` states the result under this condition, and is silent
on the rest.

### ThroughRelation

`create`, `find`, `delete`, `patch`, `link`, `unlink` and `unlinkAll` as the
statements they issue, with an `await` between each two. The database is
external: it executes one statement at a time, keeps no constraint between
tables, and may reject any statement. Rows are a set. An unfiltered `delete()`
removes also the rows by which other sources lead to its targets, as the code does;
a filtered one removes rows of its own source only, so that rows of other sources
may lead to targets that are gone. `by` records whose `delete()` removed a target,
and `raced` the targets that were linked or patched in the middle of one.
`AloneKeepsContract` compares calls that nobody overlaps with what they should do in one step.

### Pooling

A resource is idle, lent or destroyed; borrowers acquire it with hooks, use it,
and release or destroy it, themselves or through `run()`. A hook fails, the pool
refuses what it has not lent, and `stop()` drains and clears the pool. A
`PooledValue` may be released a second time, when the resource may be somebody
else's; such a resource is exempted (`again`). Timeouts and eviction are
options of the library.

### TagIndex, Decorators, JsonSchemas

`TagIndex` has the listeners of the indexer on each binding and the sets it keeps
by tag; bindings are tagged at any time, bound, replaced under their key, moved
and shared by the two contexts. Left out: matchers that accept a missing tag, an
empty map (which matches nothing by the index), `close()`.

`Decorators` keeps the objects that specs and metadata are, so that two members
may refer to one. The base class is decorated before the subclass; an error ends
the definition. `packages/metadata/README.md:328` says that the spec is merged into
the inherited value. The code does that for the first member of a subclass that is
decorated (`MergeWithInherited`); for later ones (`MergeWithOwn`) a method's spec
replaces what it inherits, and an inherited property is refused as decorated twice.
Run `decorators_documented` checks the documented rule (`SpecsMergeIntoInherited`)
and finds it violated. `DecoratorsInherit` is what holds in spite of that: of these
later members it says only that a method has its own spec.

`JsonSchemas` has a frame for each call of `modelToJsonSchema()`; including a
schema takes its definitions from it. `getJsonSchema()` reads the metadata of the
model before the recursion, and if there was none defines it anew after it
(`build-schema.ts:123-143`): what a circle has kept with the model in the meantime
is dropped and made again when it is next asked for (`fresh` of a frame, `Keep`).
Two observations that the module records: a model that refers to itself after it
has referred to others loses the definitions of those (`lost`, which
`SchemasDefined` exempts), and a second `getJsonSchemaRef()` for a model may lack
definitions that `build-schema.ts:150-151` says are included. What is checked is
that the union an application collects in its OpenAPI spec is complete but for
what is lost.

## The runs

| Run | Instance and bounds | What it shows |
|---|---|---|
| `lifecycle_races` | three callers, a signal, failing observers, error events, with and without a grace period, 3 copies of the listener | `OneOperation`, `NoLostWakeup`, `InitDiscipline` (observers are initialized once, started and stopped after that, booted before), `ListenerDiscipline` (the listener is on the process exactly while it is needed, and lets `stop()` finish), `AwaitsTheOperation`, `ReturnsReached`, `CallsSettleUnlessStuck`, `ShutdownEndsUnlessRestarted`, and that the machine implements `LifecycleContract` with its fairness |
| `lifecycle_stuck` | two callers, failing observers | finding: a call that awaits an operation whose observers reject waits for ever (`CallsSettle` is violated) |
| `registry_groups` | four observers in three groups, one of them disabled and one unnamed, two orders, serial and parallel, observers reject, cannot be instantiated, and come and go between events | `RegistryInv`, `GroupsInOrder`, `FailsOnlyWithObserver`, `NotificationEnds` |
| `registry_server` | a server as `app.server()` binds it, with `orderedGroups: ['server']` | finding: servers are started before other observers (`GroupsInOrder` is violated) |
| `view_events` | two contexts, two bindings with one key, a view, its `refresh()` and getter, values that may fail, an observer that throws, two notifications under way; one reader, and `bindings` is not read while it waits | `ImplementsFeed` (refinement), `ViewInv` (live and consistent caches), `ViewCatchesUp` |
| `view_shadow` | the same, with a binding in the child that the filter rejects | finding: the view is stale (`ViewIsLive` is violated) |
| `view_race` | the same, with two readers, and `bindings` read at any time | finding: values cached with bindings that another reader has found (`ValuesOfBindings` is violated) |
| `resolution_gets` | an application and a request context, seven bindings in every kind of dependency (slow, failing, shadowed, mutual, by getter), two callers, three tasks before the last call, one refresh | `ResolutionInv` (`OneInstance`, `RefreshHolds`, `SessionIsPath`), `NoCaptiveDependency`, `GetSettles` |
| `chain_invocations` | a method and a chain of a view, with one local and two global interceptors: one retries, one is slow and fails, one forks and comes and goes | `RunsOnce`, `UndefinedFromSecondCall`, `ClosedAfterCalls`, `InvocationSettles` |
| `rest_serving` | two callers, two servers, one port, one request that may hang, three controllers (two with one route in common, one broken), an API spec for one of two paths, one of them with a variable (trie router), two changes, two notifications under way | `RoutesCurrent`, `ListensRight`, `UserRoutesKept`, `StopDrains`, `ServingGoesOn` (rebuilds end, requests are answered), `StopReturns` |
| `decorators_documented` | every factory, three decorators with a spec each, two members, three decorations | finding: later members of a subclass do not get their spec merged into what they inherit (`SpecsMergeIntoInherited` is violated) |
| `operators` | see below | `RoutersFind`, `ChainsInOrder`, `VoteDecides`, `ConstraintsHold`, `IncludesOwn`, `RelationInv`, `AloneKeepsContract`, `PoolInv`, `TagsFindBindings`, `DecoratorsInherit`, `SchemasDefined` |

Some properties of the runs are conjunctions of parts that their modules name
(`ResolutionInv`, `RoutesCurrent`, `ListensRight`, `ServingGoesOn`, `ViewInv`,
`RegistryInv`, those of `MCOperators`). The type invariant of a module is a part
of its first one.

`operators` is one run for the parts that have little to do with each other:
`subject` chooses in the initial state which of them a behaviour is about. Its
inputs: three routes of twelve (literals, differently named variables, verbs and
slashes) and every request of two segments; three global interceptors in three
groups and four orders; two middleware in three groups with edges either way;
up to three authorizers with every vote; conditions on two properties with one
clause of each kind; up to two entities and three rows, three of the through model; two
callers of the relation with two sources, two targets and two colours; three
borrowers of a pool of at most two of three resources; two contexts, three
bindings (two with one key), two tags and two values; four decorations of two
members with four specs, one shared by two decorators; three models, one with up
to two references and the others with up to one, two of them asked for (with
three asked it holds as well). Callers, targets and borrowers are symmetric; of
models 2 and 3 the first that model 1 refers to is 2; members are first decorated
in order. Where objects may be nested four deep (`Nesting`): those of callers and
constraints two, as imposing one on the other, as a clause, adds two. An assumption
that TLC evaluates says that these inputs are among those the theorems about the
functions are stated for (`InputsAreMeant`).

The bounds: three callers are enough for one to work, one to wait and one to
come late; a fourth would be a second of these. Two contexts are a parent and a
child; longer chains repeat the same re-emission. Two bindings with one key give
shadowing, rebinding and order; two pending notifications give an observer that
is called while another event waits. Three tasks let a second caller meet a
binding that is being made, made, refreshed or rejected. Two invocations show
that their indexes are apart, two interceptors after one another that a call of
`next()` may find the chain done. Two servers are one that closes and one that is
started meanwhile; two changes are one that breaks the handler and one that mends
it, or a route taken over and given back. Two callers of a relation are enough
for a statement of the one between any two of the other. Where theorems are
listed the bounds do not matter. `CHECK_DEADLOCK FALSE` is set where the system
may stop: the process ends, or nobody comes any more.

Other instances of the same modules behave like this: with
`options.parallel` unset (`Modes = {"unset"}`) groups are notified one by one, although the
comment of the option says it defaults to true; `setOrderedGroups()` between
events (`Reorder = "anytime"`) re-sorts the view's
bindings in place, so that cached values and bindings no longer agree; an
observer bound right before `start()` is not started when its notification is
still queued (`Changes = "anytime"`); a signal while the application starts ends
the process without `stop()`; starting again while the listener is at work
swallows the signal of `kill()`.

### Fairness

* `LoopFairness`: the event loop resumes a suspended call and fires an armed
  timer. Node promises that.
* `ObserverFairness`: booters and observers settle their promises. It is an
  assumption about user code, the same the documentation makes, and it counts a
  rejection as settling; with a grace period nothing is assumed of the listener's
  own `stop()` (`~gracePeriod` in the fairness of `Handler`), since the grace period
  is there for observers that hang.
* `LifeCycleRegistry.Fairness`: continuations, observers and the notification
  queue, each for itself.
* `ContextView.FairSpec`: the task of each context goes on; observers return.
  Readers are not assumed to read.
* `BindingResolution.FairSpec`: a synchronous pass ends (it is code that
  runs), some promise that can settle does, and callers go on. Only finitely
  many tasks exist, so "some promise" is enough; `value()` methods are assumed
  to settle.
* `InterceptorChain.FairSpec`: each invocation goes on; interceptors, their
  providers and the target settle.
* `RestServer.FairSpec`: notifications are delivered, a call that can go on
  does, a socket whose opening or closing is due reports it and connections that
  are not needed come to an end, and requests are worked on, unless their method
  hangs. Of a graceful stop the period of grace is one of these events.

Nothing is assumed of callers beginning a call, of signals, of changes of the
context or of refreshes.

## The proofs

The theorems hold for every value of the constants under the assumptions that the
modules state; TLC evaluates those in the runs above. Each module of proofs has
the same plan: the properties are not inductive alone, a conjunction of named
parts is (`IInv`), every action preserves every part it can disturb, and the
properties follow from it.

* `AppLifecycleProofs`, for every set of callers, with or without failures,
  signals, grace period and error events: `Invariance`, and from it `TypeCorrect`,
  `OneOperationAtATime`, `NoWakeupIsLost`, `InitIsDisciplined` and
  `ListenerIsDisciplined`. `NoLostWakeup` needs to know who is at work, the
  initialization what the state says of `initRuns` and `_initialized`
  (`InitPhase`), the listener that during a shutdown without grace period only
  its own `stop()` is at work (`ShutdownPhase`). `AwaitersWait` is the action
  property `AwaitsTheOperation`: with `error` events too, as a call that one reaches
  throws. `ImplementsContractSafety`: initial states and steps are those of
  `LifecycleContract`, or stutter; an operation is stuck from the step in which its
  observers reject, and stays so (`FailSticks`, `SameStuck`).
* `BindingResolutionProofs`, for every chain of contexts, every graph of
  dependencies and any number of callers: `CacheAndSessionsHold`
  (`ResolutionInv`) and `NothingIsCaptive` (`NoCaptiveDependency`). The argument:
  a task is looked for in the resolution context of its binding, so it is found
  in the cache or on the path of the session as long as it has not thrown and is
  not dated (`Findable`), and a second one is not made; a pass never leaves the
  ancestors of the context it is at (`ThreadNests`), so what is injected is from
  there; what is cached matches its entry (`CacheMatches`), and what is on the
  way has not been cached (`OnPath`). `JoinsPath`, `PhasesOnly` and `ReturnKeeps`
  are the steps in general form; the actions are instances of them.
* `LifeCycleRegistryProofs`: `TypeCorrect`, whenever observers come and go;
  `RegistryInvariant` (`RegistryInv`), `FailureIsAnObservers`
  (`FailsOnlyWithObserver`: an event whose observers could all be instantiated fails
  only where one that was told of it rejects; where one could not, none is told) and
  `GroupsTakeTurns` (`GroupsInOrder`). The
  invariant `RegistryIInv` follows an event through its phases: what the view
  holds is what the context holds (`Current`), what has been collected is a value
  for each binding, in the order of both (`Collecting`), a group's observers are
  waiting, at work or finished (`Going`), and when the groups are done, all have
  been told (`Ending`). `GroupsInOrder` rests on the groups still to come, the
  one at work and those before it following each other in the order of their ranks
  (`InOrder`), and so on what `sortBindingsByPhase()` and the grouping make of any
  list. Three hypotheses are there because the properties are false without them,
  and instances of the module show it: observers come and go only between
  events, when the view has heard of it, and `setOrderedGroups()` is not called
  after the first event (`Orderly`: otherwise an observer may not be told, or values
  are taken for other bindings); for
  `RegistryInvariant`, that `options.parallel` is set (`undefined` behaves as
  false, whatever the comment says); for `GroupsTakeTurns`, that bindings are
  grouped by the tag they are sorted by (`Tagged`: run `registry_server` is the
  counterexample).
* `ContextViewProofs`: `TypeCorrect`; `ViewInvariant` (`ViewInv`), for views that
  look at keys only, one reader at a time, and a getter `bindings` that nobody reads
  while values are on their way (`view_shadow` and `view_race` show that these are
  needed); and `FeedImplemented` (`ImplementsFeed`), that every step
  of contexts, managers, queues and tasks is one of `ContextFeed` or a stutter, for
  any chain, observers and bindings. `EventsInv` says what is queued for whom; an
  observer's inbox is the notification at work and then the queue of its
  context, filtered. A view is live as long as what it holds is what is found, or
  a notification on its way to it says otherwise (`LiveStep`): the two ways of the
  code to hide a parent's binding, in `handleParentEvent()` and in `find()`, agree
  where filters look at keys (`SeenWithin`).
* `InterceptorChainProofs`: `ChainRunsOnce`, `UndefinedNeedsSecondCall`,
  `ClosesLast` and `TypeCorrect`. The calls of an invocation have the places in
  the chain that the shared index has passed, each once; where a chain was called
  first is the least of them (`DataFacts`). And `ChainsAreInOrder` (`ChainsInOrder`),
  for any bindings, groups, orders and decorators: sorting with a stable order puts
  each element after as many as are before it, so that the result is the list in
  another order, and of two elements the one that is before the other comes first
  (`ArrangedIs`); merging keeps each key where the innermost level has it.
* `RestServerProofs`: `TableFollowsContext` (`RoutesCurrent`),
  `ServerListensRight` (`ListensRight`), `UsersKeepRoutes` (`UserRoutesKept`) and
  `StopHasDrained` (`StopDrains`). `RestIInv` relates calls, sockets and port as
  long as calls do not overlap (`Orderly`), and the table to the context, for either
  router: what it has of a key with an operation of the API spec depends on
  whether the path has variables and a route already (`Duplicate`). Which
  controller a route is of is a greatest place in a sequence (`DataFacts`).
* `OperatorsProofs`:
  - `PoolKeepsItsPromises` (`PoolInv`). Who holds a resource knows which, what
    goes back is clean, a drained pool lends nothing.
  - `IndexFindsAll` (`TagsFindBindings`), from the invariant that each index
    listens to the bindings of its context and holds with each tag exactly those
    that have it.
  - `MetadataInherited` (`DecoratorsInherit`), for each factory and any series of
    decorations: where no two share a spec, a member of the base class has its own
    spec object, and one of the subclass its own or a copy that is nobody else's;
    what nobody has used is as it was made (`Undisturbed`). A decoration changes only
    the objects of its spec and its member (`Settled`). The property is what the code
    does, weaker than the documentation (see `decorators_documented`).
  - `VoteIsDecided` (`VoteDecides`), for any options and any number of authorizers:
    as long as the vote is open, nobody who was heard has settled it, and the
    decision so far is that of the set of those heard (`StillOpen`).
  - `SchemasFound` (`SchemasDefined`), for any graph of models: what a schema
    refers to is in the OpenAPI spec, is lost, or is being made or a definition
    of what is being made (`ReferencesKept`). That holds although including a
    schema takes its definitions away, as whoever includes it is being made itself,
    and although a call that found no metadata drops what was kept meanwhile.
  - `RowsLeadSomewhere` (`RelationInv`): what a `delete()` under way has matched
    and dropped stays so, up to the races that are recorded.
  - `AloneContractKept` (the action property `AloneKeepsContract`): as long as no
    other call comes between, the tables are on their way from those before the
    call to those that its contract says (`OnItsWay`).
  - `ConstraintsAreKept` (`ConstraintsHold`), for any properties, values, depth and
    where objects: what clauses select does not depend on how deep they are taken to
    be nested, and adding a where object to another, whichever keys they have in
    common, selects what both select.
  - `InclusionGetsOwn` (`IncludesOwn`), for any entities, keys, types, tables and
    limits, all five resolvers, each under the condition its definition names:
    has-many with a limit needs entities with different keys, belongs-to and
    references-many tables with each key once, one type of targets behind a through
    model no total limit, and several types the condition about their order
    described above. The argument: selecting rows with some keys and then those with
    one is selecting those with the one, also where there was a query for each key
    (`FlattenWithin`); taking the next of a type by `shift()` is taking the one at the
    place among those of the type (`PlaceWithin`); what entities with different keys
    get, together, is part of what was found (`WithinEither`).
* `DataFacts` has the lemmas about data that these need. The library's induction
  theorems take an operator, which the provers cannot instantiate; here a property
  is given as the set of the numbers, or sequences, that have it, and induction
  is proved once for such sets, from the least element of a set of numbers
  (`Induction`, `SequenceInduction`). With it, recursive functions exist
  (`RecursionExists`), and filtering keeps order, elements and what is there once.

Of the constants the proofs assume what the modules state. `LifeCycleRegistry`
and `ContextEvents` say more of theirs than TLC needs: bounds are numbers, the
bindings that are there at first are different, bindings and observers finitely
many.

Only model-checked: liveness and the fairness part of the refinements (fairness
and ENABLED are beyond the prover); `HttpServer` apart from `RestServer`; and
`RoutersFind`, for the order in which a search goes through a tree of routes.

## Findings

Five runs show that the code does not do what its comments or documentation say:
calls that wait for ever for an operation whose observers reject
(`lifecycle_stuck`), servers that are started before the observers they should
come after (`registry_server`), a view that is not told of the binding it shows
(`view_shadow`), one that keeps values of other bindings (`view_race`), and specs of
decorators that are not merged into what a subclass inherits
(`decorators_documented`). `PROJECT.json` quotes the lines.

Observations that no run is about are with the modules above: an API spec that does
not override routes with variables (`RestServer`), the order of targets of several
types and the literals that hide templates (`Inclusion`, `Routers`), definitions of
schemas that are lost (`JsonSchemas`).

Hazards no property covers: an `undefined` value shifts the cached values of a
view (values are identified with bindings); a slow singleton that awaits the
getter of a binding that injects it back waits for itself (the getters of the
instance are not in a circle); a signal while the application is starting ends
the process without `stop()`; a literal hides templates in the trie; targets of
several types reach the wrong entity. Of the last three the step is in the model,
and the properties exempt it. Covered in part only: the second `kill()` after a
restart during a grace period, observers that come and go during an event, an
observer that is passed over (the theorem `FeedImplemented` covers it), a resource
released twice, an entity with key 0, a call of the relation that fails half way.
The notes of the hazards say which part.

## What is left

* The bootstrapper: its phases are two nested loops over booters, without state
  of their own between two awaits; what booters do is I/O. `boot()` is one
  operation in `AppLifecycle`.
* Optional injections, aliases and proxies in `BindingResolution`; nested
  inclusions; polymorphic targets in `ThroughRelation`.

## Not modelled, and why

Conversions of single values (parsing, coercion, validation and writing of
requests, the fields of schemas and of OpenAPI paths) have no state
and are better tested; the juggler, connectors, Express, toposort, generic-pool
and the authentication strategies are external, and the extensions around them
(sequelize, typeorm, socket.io, graphql, cron, metrics, health and others) only
adapt them; repositories of one model pass calls on. Components, services and
extension points only add bindings. The command line, its snapshots and the build
tools, examples, test helpers and documentation are not part of the running
system; they are most of the lines of the repository. `PROJECT.json` gives the
reason for each part.

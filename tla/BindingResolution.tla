--------------------------- MODULE BindingResolution ---------------------------
(***************************************************************************)
(* How a chain of contexts resolves bindings and what they inject:         *)
(* Binding.getValue() with its cache (packages/context/src/binding.ts),    *)
(* instantiateClass() (resolver.ts), the ResolutionSession that finds      *)
(* circular dependencies (resolution-session.ts), the scopes and lookups   *)
(* of Context (context.ts) and the getters of @inject.getter (inject.ts).  *)
(*                                                                         *)
(* A resolution runs synchronously through everything the constructors     *)
(* inject: until it comes back with a value, a promise or an error nothing *)
(* else happens, and the steps of that pass are those of the tasks on      *)
(* "thread". What is left then are promises, settled one at a time.        *)
(*                                                                         *)
(* A task is one call of a binding's _getValue(); its number stands for    *)
(* the instance it makes. Context 1 is the root, c - 1 the parent of c.    *)
(***************************************************************************)
EXTENDS Naturals, SequencesExt

CONSTANTS
    Depth,       \* the number of contexts in the chain
    Level,       \* Level[c]: the scope context c stands for, or "none"
    Bindings,    \* the bindings, each bound in one context
    KeyOf,       \* KeyOf[b]: its key
    OwnerOf,     \* OwnerOf[b]: the context it is bound in
    ScopeOf,     \* ScopeOf[b]: its scope
    Injects,     \* Injects[b]: the keys its constructor injects
    Awaits,      \* Awaits[b]: at most one key its value() gets with a getter
    Async,       \* the bindings whose value() returns a promise
    Flawed,      \* the bindings whose constructor or value() may throw
    Callers,     \* the calls of Context.get() that may be in process
    MaxTasks,    \* bound: with so many tasks no caller asks for more
    Refreshed,   \* the bindings refresh() is called for
    MaxRefresh,  \* bound on how often it drops an entry
    Nobody       \* the origin of no resolution

Contexts == 1 .. Depth
Keys == {KeyOf[b] : b \in Bindings}
Scopes == {"transient", "singleton", "context", "application", "server", "request"}

ASSUME ResolutionConstants ==
    /\ Depth \in Nat \ {0}
    /\ Level \in [Contexts -> {"none", "application", "server", "request"}]
    /\ DOMAIN KeyOf = Bindings
    /\ OwnerOf \in [Bindings -> Contexts]
    /\ ScopeOf \in [Bindings -> Scopes]
    /\ Injects \in [Bindings -> Seq(Keys)]
    /\ Awaits \in [Bindings -> Seq(Keys)]
    /\ \A b \in Bindings : Len(Awaits[b]) <= 1 /\ (Awaits[b] # <<>> => b \in Async)
    /\ Async \subseteq Bindings /\ Flawed \subseteq Bindings
    /\ Refreshed \subseteq Bindings
    /\ MaxTasks \in Nat /\ MaxRefresh \in Nat
    /\ Nobody \notin Callers /\ Nobody \notin Nat /\ Callers \cap Nat = {}

VARIABLES
    tasks,    \* the tasks, in the order they began
    cache,    \* cache[b][c]: the task cached for b in resolution context c, or 0
    thread,   \* the tasks of the synchronous pass, the innermost last
    origin,   \* who began it: a caller, or a task that called a getter
    call,     \* call[k]: the task caller k waits for, 0 if none
    failed,   \* failed[k]: did the last call of k throw before there was one?
    epoch     \* history: epoch[b][c]: how often that cache entry was dropped

vars == <<tasks, cache, thread, origin, call, failed, epoch>>

\* "value" is a task that came back without a promise.
Final == {"value", "fulfilled", "rejected", "thrown"}
Task == [binding : Bindings, at : Contexts, path : Seq(Bindings),
         deps : Seq(Nat), late : Nat, epoch : Nat,
         phase : {"injecting", "waiting", "getting"} \cup Final]

TypeOK ==
    /\ tasks \in Seq(Task)
    /\ cache \in [Bindings -> [Contexts -> 0 .. Len(tasks)]]
    /\ thread \in Seq(1 .. Len(tasks)) /\ IsInjective(thread)
    /\ origin \in {Nobody} \cup Callers \cup 1 .. Len(tasks)
    /\ (origin = Nobody) = (thread = <<>>)
    /\ call \in [Callers -> 0 .. Len(tasks)]
    /\ failed \in [Callers -> BOOLEAN]
    /\ epoch \in [Bindings -> [Contexts -> 0 .. MaxRefresh]]

Init ==
    /\ tasks = <<>>
    /\ cache = [b \in Bindings |-> [c \in Contexts |-> 0]]
    /\ thread = <<>> /\ origin = Nobody
    /\ call = [k \in Callers |-> 0]
    /\ failed = [k \in Callers |-> FALSE]
    /\ epoch = [b \in Bindings |-> [c \in Contexts |-> 0]]

-----------------------------------------------------------------------------
(* Contexts and scopes                                                     *)

\* getBinding(): the nearest binding with key k, as a set of at most one
Lookup(k, c) ==
    LET seen == {b \in Bindings : KeyOf[b] = k /\ OwnerOf[b] <= c}
    IN  {b \in seen : \A x \in seen : OwnerOf[x] <= OwnerOf[b]}

\* getOwnerContext(key): it goes by the key, also when b is shadowed in c.
Owner(b, c) ==
    LET seen == Lookup(KeyOf[b], c)
    IN  IF seen = {} THEN 0 ELSE OwnerOf[CHOOSE x \in seen : TRUE]

\* getScopedContext(): the nearest context of that scope, 0 if there is none
Scoped(s, c) ==
    LET at == {d \in 1 .. c : Level[d] = s}
    IN  IF at = {} THEN 0 ELSE CHOOSE d \in at : \A e \in at : e <= d

\* Fault: a singleton is resolved where it is asked for, as a request is.
ResolutionContextOfCaller(b, c) ==
    IF Scoped("request", c) = 0 THEN c ELSE Scoped("request", c)

\* Context.getResolutionContext(), 0 if there is none
ResolutionContext(b, c) ==
    CASE ScopeOf[b] = "singleton" -> Owner(b, c)
      [] ScopeOf[b] \in {"transient", "context"} -> c
      [] ScopeOf[b] = "request" ->
            IF Scoped("request", c) = 0 THEN c ELSE Scoped("request", c)
      [] OTHER -> Scoped(ScopeOf[b], c)

\* Binding.getResolutionContext(): the owner must be visible from there
Resolvable(b, c) == Owner(b, c) <= ResolutionContext(b, c)

-----------------------------------------------------------------------------
(* The synchronous pass                                                    *)

Top == tasks[Last(thread)]

Cacheable(b) == ScopeOf[b] # "transient"

\* The origin of the pass gets a promise or a value, that of task t ...
Answer(ts, t) ==
    /\ IF origin \in Callers
       THEN tasks' = ts /\ call' = [call EXCEPT ![origin] = t]
       ELSE tasks' = [ts EXCEPT ![origin].late = t] /\ UNCHANGED call
    /\ thread' = <<>> /\ origin' = Nobody
    /\ UNCHANGED failed

\* ... or an error, which ends all tasks of the pass.
Throw ==
    LET on == ToSet(thread)
        ts == [i \in DOMAIN tasks |->
                 IF i \in on THEN [tasks[i] EXCEPT !.phase = "thrown"]
                 ELSE tasks[i]]
    IN  /\ IF origin \in Callers
           THEN tasks' = ts /\ failed' = [failed EXCEPT ![origin] = TRUE]
           ELSE /\ tasks' = [ts EXCEPT ![origin].phase = "rejected"]
                /\ UNCHANGED failed
        /\ thread' = <<>> /\ origin' = Nobody
        /\ UNCHANGED <<cache, call, epoch>>

\* A new task for b, asked for in context c by a session with this path
New(b, c, path) ==
    [binding |-> b, at |-> ResolutionContext(b, c), path |-> Append(path, b),
     deps |-> <<>>, late |-> 0, phase |-> "injecting",
     epoch |-> epoch[b][ResolutionContext(b, c)]]

\* The keys an injecting task has still to ask for.
Wanted == SubSeq(Injects[Top.binding], Len(Top.deps) + 1,
                 Len(Injects[Top.binding]))

Found == Lookup(Head(Wanted), Top.at)

Injecting == thread # <<>> /\ Wanted # <<>>

\* pushBinding(): the session of the innermost task holds b already
Circular(b) == Contains(Top.path, b)

\* getValueOrPromise() finds no binding, getResolutionContext() throws, or
\* pushBinding() finds the binding on the path of the session.
InjectFails ==
    /\ Injecting
    /\ \A b \in Found : ~Resolvable(b, Top.at) \/ Circular(b)
    /\ Throw

\* getValue() finds a value or a promise in the cache.
InjectCached ==
    /\ Injecting
    /\ \E b \in Found :
          /\ Resolvable(b, Top.at) /\ ~Circular(b)
          /\ cache[b][ResolutionContext(b, Top.at)] # 0
          /\ tasks' = [tasks EXCEPT ![Last(thread)].deps =
                         Append(@, cache[b][ResolutionContext(b, Top.at)])]
    /\ UNCHANGED <<cache, thread, origin, call, failed, epoch>>

\* It runs _getValue(), within the session of the task that injects it.
InjectNew ==
    /\ Injecting
    /\ \E b \in Found :
          /\ Resolvable(b, Top.at) /\ ~Circular(b)
          /\ cache[b][ResolutionContext(b, Top.at)] = 0
          /\ tasks' = Append(tasks, New(b, Top.at, Top.path))
    /\ thread' = Append(thread, Len(tasks) + 1)
    /\ UNCHANGED <<cache, origin, call, failed, epoch>>

\* The innermost task has all it injects. It comes back with a promise if
\* it injects one or its value() returns one, and with a value otherwise.
AtOnce == \A i \in DOMAIN Top.deps : tasks[Top.deps[i]].phase = "value"

Outcome ==
    IF Top.binding \in Async \/ ~AtOnce THEN "waiting" ELSE "value"

\* _cacheValue(): the promise itself is cached
CacheResult(b, c, t, how) ==
    cache' = IF Cacheable(b) THEN [cache EXCEPT ![b][c] = t] ELSE cache

Return ==
    LET t == Last(thread)
        below == Front(thread)
        ts == [tasks EXCEPT ![t].phase = Outcome]
    IN  /\ thread # <<>> /\ Wanted = <<>>
        /\ CacheResult(Top.binding, Top.at, t, Outcome)
        /\ IF below = <<>> THEN Answer(ts, t)
           ELSE /\ tasks' = [ts EXCEPT ![Last(below)].deps = Append(@, t)]
                /\ thread' = below
                /\ UNCHANGED <<origin, call, failed>>
        /\ UNCHANGED epoch

\* The constructor, or value() before it has a promise to return, throws.
ReturnThrows ==
    /\ thread # <<>> /\ Wanted = <<>>
    /\ AtOnce
    /\ Top.binding \in Flawed
    /\ Throw

-----------------------------------------------------------------------------
(* Between two passes                                                      *)

Free == thread = <<>>

\* A pass asks for key k in context c, with a session of its own.
Start(who, k, c) ==
    \/ /\ \A b \in Lookup(k, c) : ~Resolvable(b, c)
       /\ IF who \in Callers
          THEN failed' = [failed EXCEPT ![who] = TRUE] /\ UNCHANGED tasks
          ELSE tasks' = [tasks EXCEPT ![who].phase = "rejected"]
               /\ UNCHANGED failed
       /\ UNCHANGED <<thread, origin, call>>
    \/ \E b \in Lookup(k, c) :
          /\ Resolvable(b, c)
          /\ LET hit == cache[b][ResolutionContext(b, c)]
             IN  \/ /\ hit # 0
                    /\ IF who \in Callers
                       THEN call' = [call EXCEPT ![who] = hit] /\ UNCHANGED tasks
                       ELSE /\ tasks' = [tasks EXCEPT ![who].late = hit,
                                                      ![who].phase = "getting"]
                            /\ UNCHANGED call
                    /\ UNCHANGED <<thread, origin, failed>>
                 \/ /\ hit = 0
                    /\ tasks' = Append(
                          IF who \in Callers THEN tasks
                          ELSE [tasks EXCEPT ![who].phase = "getting"],
                          New(b, c, <<>>))
                    /\ thread' = <<Len(tasks) + 1>> /\ origin' = who
                    /\ UNCHANGED <<call, failed>>

\* Context.get()
Get(k, key, c) ==
    /\ Free
    /\ call[k] = 0 /\ ~failed[k]
    /\ Len(tasks) < MaxTasks
    /\ Start(k, key, c)
    /\ UNCHANGED <<cache, epoch>>

\* Everything task t injects has arrived.
Ready(t) ==
    /\ tasks[t].phase = "waiting"
    /\ \A i \in DOMAIN tasks[t].deps :
          tasks[tasks[t].deps[i]].phase \in {"value", "fulfilled"}

\* Its value() goes on to call a getter, which begins a new session.
CallGetter(t) ==
    /\ Free /\ Ready(t)
    /\ Awaits[tasks[t].binding] # <<>>
    /\ Start(t, Head(Awaits[tasks[t].binding]), tasks[t].at)
    /\ UNCHANGED <<cache, epoch>>

\* Its value() has got what it awaits and returns.
Complete(t) ==
    \/ Ready(t) /\ Awaits[tasks[t].binding] = <<>>
    \/ /\ tasks[t].phase = "getting"
       /\ tasks[tasks[t].late].phase \in {"value", "fulfilled"}

\* Fault: the value replaces the promise in the cache.
FulfilCaches(t) ==
    /\ Free /\ Complete(t)
    /\ tasks' = [tasks EXCEPT ![t].phase = "fulfilled"]
    /\ cache' = IF Cacheable(tasks[t].binding)
                THEN [cache EXCEPT ![tasks[t].binding][tasks[t].at] = t]
                ELSE cache
    /\ UNCHANGED <<thread, origin, call, failed, epoch>>

Fulfil(t) ==
    /\ Free /\ Complete(t)
    /\ tasks' = [tasks EXCEPT ![t].phase = "fulfilled"]
    /\ UNCHANGED <<cache, thread, origin, call, failed, epoch>>

\* Fault: the rejection of what is injected is not passed on.
SpoiledByGetter(t) ==
    /\ tasks[t].phase = "getting"
    /\ tasks[tasks[t].late].phase = "rejected"

\* Something it injects or gets is rejected.
Spoiled(t) ==
    \/ /\ tasks[t].phase = "waiting"
       /\ \E i \in DOMAIN tasks[t].deps :
             tasks[tasks[t].deps[i]].phase = "rejected"
    \/ /\ tasks[t].phase = "getting"
       /\ tasks[tasks[t].late].phase = "rejected"

\* It is rejected, also when its own constructor or value() throws. The
\* rejected promise stays in the cache.
Reject(t) ==
    /\ Free
    /\ Spoiled(t) \/ ((Ready(t) \/ Complete(t)) /\ tasks[t].binding \in Flawed)
    /\ tasks' = [tasks EXCEPT ![t].phase = "rejected"]
    /\ UNCHANGED <<cache, thread, origin, call, failed, epoch>>

\* Binding.refresh(), from context c
Refresh(b, c) ==
    LET rc == ResolutionContext(b, c)
    IN  /\ Free
        /\ Cacheable(b) /\ rc # 0
        /\ epoch[b][rc] < MaxRefresh
        /\ cache[b][rc] # 0
        /\ cache' = [cache EXCEPT ![b][rc] = 0]
        /\ epoch' = [epoch EXCEPT ![b][rc] = @ + 1]
        /\ UNCHANGED <<tasks, thread, origin, call, failed>>

\* The caller goes on with the value or the error.
Leave(k) ==
    /\ Free
    /\ \/ failed[k]
       \/ call[k] # 0 /\ tasks[call[k]].phase \in Final
    /\ call' = [call EXCEPT ![k] = 0]
    /\ failed' = [failed EXCEPT ![k] = FALSE]
    /\ UNCHANGED <<tasks, cache, thread, origin, epoch>>

Pass == InjectFails \/ InjectCached \/ InjectNew \/ Return \/ ReturnThrows

Settle(t) == CallGetter(t) \/ Fulfil(t) \/ Reject(t)

Next ==
    \/ Pass
    \/ \E t \in DOMAIN tasks : Settle(t)
    \/ \E k \in Callers :
          \/ \E key \in Keys, c \in Contexts : Get(k, key, c)
          \/ Leave(k)
    \/ \E b \in Refreshed, c \in Contexts : Refresh(b, c)

Spec == Init /\ [][Next]_vars

\* A pass runs to its end, the promises of constructors and value() settle,
\* and who awaits one goes on.
FairSpec ==
    /\ Spec
    /\ WF_vars(Pass)
    /\ WF_vars(\E t \in DOMAIN tasks : Settle(t))
    /\ \A k \in Callers : WF_vars(Leave(k))

-----------------------------------------------------------------------------
(* Properties                                                              *)

\* As long as its cache entry is not refreshed, a binding that is not
\* transient has one instance in a resolution context, also when it is
\* resolved by several callers at a time and takes long to be made.
OneInstance ==
    \A t, u \in DOMAIN tasks :
        LET a == tasks[t]
            b == tasks[u]
        IN  /\ t # u /\ a.binding = b.binding /\ a.at = b.at
            /\ Cacheable(a.binding) /\ a.epoch = b.epoch
            => "thrown" \in {a.phase, b.phase}

\* A refresh is not undone by a resolution that began before it.
RefreshHolds ==
    \A b \in Bindings, c \in Contexts :
        cache[b][c] # 0 => tasks[cache[b][c]].epoch = epoch[b][c]

\* What a class injects lives at least as long as the class: it is resolved
\* in the resolution context of the class or an ancestor, for a singleton
\* in the owner or an ancestor, so that a singleton does not have
\* dependencies injected from child contexts (resolveContext()).
NoCaptiveDependency ==
    \A t \in DOMAIN tasks : \A i \in DOMAIN tasks[t].deps :
        LET a == tasks[t]
            d == tasks[a.deps[i]]
            home == IF ScopeOf[a.binding] = "singleton"
                    THEN OwnerOf[a.binding] ELSE a.at
        IN  d.at <= home /\ OwnerOf[d.binding] <= home

\* The tasks of a pass are those of one session, which finds every circular
\* dependency: the bindings on the way down are different ones, none of them
\* cached before it is complete, and their path is the one that is reported.
SessionIsPath ==
    \A i \in DOMAIN thread :
        LET t == tasks[thread[i]]
        IN  /\ t.path = [j \in 1 .. i |-> tasks[thread[j]].binding]
            /\ IsInjective(t.path)
            /\ cache[t.binding][t.at] = 0

\* What the cache and the sessions keep to while resolutions overlap: one instance
\* for a scope, none from before a refresh(), and none that is incomplete on the
\* path of a session.
ResolutionInv == TypeOK /\ OneInstance /\ RefreshHolds /\ SessionIsPath

\* Context.get() settles: a circular dependency among what constructors
\* inject is reported, never waited for, and a rejection is passed on to
\* everyone who waits for it.
GetSettles ==
    \A k \in Callers :
        origin = k \/ call[k] # 0 ~> origin # k /\ call[k] = 0
=============================================================================

---------------------- MODULE BindingResolutionProofs ----------------------
(***************************************************************************)
(* ResolutionInv and NoCaptiveDependency of BindingResolution hold for any  *)
(* chain of contexts, any bindings whatever they inject and get, and any    *)
(* number of callers.                                                       *)
(***************************************************************************)
EXTENDS BindingResolution, DataFacts, SequenceTheorems

\* A task is at a context from which the binding's own is visible, and that of a
\* singleton where it is bound.
AtHome ==
    \A t \in DOMAIN tasks :
        /\ OwnerOf[tasks[t].binding] <= tasks[t].at
        /\ ScopeOf[tasks[t].binding] = "singleton" => tasks[t].at = OwnerOf[tasks[t].binding]

\* What a task injects was a task at the time, at the same context or an ancestor.
DepsWithin ==
    \A t \in DOMAIN tasks : \A i \in DOMAIN tasks[t].deps :
        /\ tasks[t].deps[i] \in DOMAIN tasks
        /\ tasks[tasks[t].deps[i]].at <= tasks[t].at

\* On the way down a pass never leaves the ancestors of the context it is at.
ThreadNests ==
    \A i, j \in DOMAIN thread : i <= j => tasks[thread[j]].at <= tasks[thread[i]].at

\* The tasks of the pass are at their constructors, on the path they tell of, and none
\* of them has been cached.
OnPath ==
    \A i \in DOMAIN thread :
        LET t == tasks[thread[i]]
        IN  /\ t.phase = "injecting"
            /\ Len(t.path) = i
            /\ \A j \in 1 .. i : t.path[j] = tasks[thread[j]].binding
            /\ IsInjective(t.path)
            /\ cache[t.binding][t.at] = 0
            /\ t.epoch = epoch[t.binding][t.at]

\* A task that waits for a pass is itself no part of it.
OriginGets == origin \in DOMAIN tasks => tasks[origin].phase = "getting"

\* An entry is for the binding and context of its task, and not older than a refresh().
CacheMatches ==
    \A b \in Bindings, c \in Contexts : cache[b][c] # 0 =>
        LET t == tasks[cache[b][c]]
        IN  t.binding = b /\ t.at = c /\ t.epoch = epoch[b][c]

\* Until it is refreshed a task is found in the cache, or on the path of the session.
Findable ==
    \A t \in DOMAIN tasks :
        LET a == tasks[t]
        IN  /\ a.epoch <= epoch[a.binding][a.at]
            /\ Cacheable(a.binding) /\ a.phase # "thrown" /\ a.epoch = epoch[a.binding][a.at]
               => cache[a.binding][a.at] = t \/ \E i \in DOMAIN thread : thread[i] = t

\* The conjunction that every step preserves.
ResolutionIInv ==
    /\ TypeOK
    /\ OneInstance
    /\ AtHome
    /\ DepsWithin
    /\ ThreadNests
    /\ OnPath
    /\ OriginGets
    /\ CacheMatches
    /\ Findable

-----------------------------------------------------------------------------
(* Contexts and scopes *)

\* The nearest context of a scope is one of the chain, if there is one.
LEMMA ScopedContext ==
    ASSUME NEW s, NEW c \in Contexts
    PROVE  Scoped(s, c) \in 0 .. c
<1> DEFINE at == {d \in 1 .. c : Level[d] = s}
<1>1. CASE at = {}
  <2>1. Scoped(s, c) = 0
    BY <1>1 DEF Scoped
  <2> QED
    BY <2>1, ResolutionConstants DEF Contexts
<1>2. CASE at # {}
  <2>1. at \in SUBSET (1 .. c) /\ c \in Nat
    BY ResolutionConstants DEF Contexts
  <2>2. \E d \in at : \A e \in at : e <= d
    <3> HIDE DEF at
    <3> QED
      BY <1>2, <2>1, GreatestElement
  <2>3. (CHOOSE d \in at : \A e \in at : e <= d) \in at
    BY <2>2
  <2>4. Scoped(s, c) = CHOOSE d \in at : \A e \in at : e <= d
    BY <1>2 DEF Scoped
  <2> QED
    BY <2>1, <2>3, <2>4
<1> QED
  BY <1>1, <1>2

\* The owner of a key is the context where the binding that is found is bound.
LEMMA LookupOwner ==
    ASSUME NEW k, NEW c \in Contexts, NEW b \in Lookup(k, c)
    PROVE  /\ b \in Bindings /\ OwnerOf[b] \in Contexts
           /\ OwnerOf[b] <= c /\ Owner(b, c) = OwnerOf[b]
<1>1. b \in Bindings /\ KeyOf[b] = k /\ OwnerOf[b] <= c /\ OwnerOf[b] \in Contexts
  BY ResolutionConstants DEF Lookup
<1>2. Lookup(KeyOf[b], c) = Lookup(k, c)
  BY <1>1
<1> DEFINE x == CHOOSE y \in Lookup(k, c) : TRUE
<1>3. x \in Lookup(k, c)
  OBVIOUS
<1>4. x \in Bindings /\ OwnerOf[x] <= OwnerOf[b] /\ OwnerOf[b] <= OwnerOf[x]
  <2> HIDE DEF x
  <2> QED
    BY <1>3 DEF Lookup
<1>5. OwnerOf[x] = OwnerOf[b]
  <2>1. OwnerOf[x] \in Contexts /\ OwnerOf[b] \in Contexts
    BY <1>4, <1>1, ResolutionConstants
  <2> HIDE DEF x
  <2> QED
    BY <1>4, <2>1, ResolutionConstants DEF Contexts
<1>6. Owner(b, c) = OwnerOf[x]
  BY <1>2, <1>3 DEF Owner
<1> QED
  BY <1>1, <1>5, <1>6

\* A binding that is asked for anywhere is resolved in a context of the chain, or none.
LEMMA ContextInChain ==
    ASSUME NEW b \in Bindings, NEW c \in Contexts
    PROVE  ResolutionContext(b, c) \in 0 .. Depth
<1>1. c \in 0 .. Depth /\ Depth \in Nat
  BY ResolutionConstants DEF Contexts
<1>2. Owner(b, c) \in 0 .. Depth
  <2> DEFINE x == CHOOSE y \in Lookup(KeyOf[b], c) : TRUE
  <2>1. CASE Lookup(KeyOf[b], c) = {}
    BY <2>1, <1>1 DEF Owner
  <2>2. CASE Lookup(KeyOf[b], c) # {}
    <3>1. x \in Lookup(KeyOf[b], c)
      BY <2>2
    <3>2. Owner(b, c) = OwnerOf[x]
      BY <2>2 DEF Owner
    <3> HIDE DEF x
    <3>3. OwnerOf[x] \in Contexts
      BY <3>1, ResolutionConstants DEF Lookup
    <3> QED
      BY <3>2, <3>3, <1>1 DEF Contexts
  <2> QED
    BY <2>1, <2>2
<1>3. Scoped("request", c) \in 0 .. Depth /\ Scoped(ScopeOf[b], c) \in 0 .. Depth
  <2>1. Scoped("request", c) \in 0 .. c /\ Scoped(ScopeOf[b], c) \in 0 .. c
    BY ScopedContext
  <2> QED
    BY <2>1, <1>1
<1> QED
  BY <1>1, <1>2, <1>3 DEF ResolutionContext

\* The resolution context of a binding that is found is the context that asks or an
\* ancestor, from which the binding's own is visible; for a singleton, its own.
LEMMA ResolvedContext ==
    ASSUME NEW k, NEW c \in Contexts, NEW b \in Lookup(k, c), Resolvable(b, c)
    PROVE  /\ b \in Bindings /\ ResolutionContext(b, c) \in Contexts
           /\ OwnerOf[b] <= ResolutionContext(b, c) /\ ResolutionContext(b, c) <= c
           /\ ScopeOf[b] = "singleton" => ResolutionContext(b, c) = OwnerOf[b]
<1>1. /\ b \in Bindings /\ OwnerOf[b] \in Contexts
      /\ OwnerOf[b] <= c /\ Owner(b, c) = OwnerOf[b]
  BY LookupOwner
<1>2. OwnerOf[b] <= ResolutionContext(b, c)
  BY <1>1 DEF Resolvable
<1>3. c \in 1 .. Depth /\ Depth \in Nat /\ OwnerOf[b] \in 1 .. Depth
  BY <1>1, ResolutionConstants DEF Contexts
<1>4. ResolutionContext(b, c) \in 0 .. Depth
  BY <1>1, ContextInChain
<1>5. ResolutionContext(b, c) \in Contexts
  BY <1>2, <1>3, <1>4 DEF Contexts
<1>6. ResolutionContext(b, c) <= c
  <2>1. Scoped("request", c) \in 0 .. c /\ Scoped(ScopeOf[b], c) \in 0 .. c
    BY ScopedContext
  <2> QED
    BY <2>1, <1>1, <1>3 DEF ResolutionContext
<1>7. ScopeOf[b] = "singleton" => ResolutionContext(b, c) = OwnerOf[b]
  BY <1>1 DEF ResolutionContext
<1> QED
  BY <1>1, <1>2, <1>5, <1>6, <1>7
-----------------------------------------------------------------------------
(* Steps *)

\* The tasks ts are those there are, some of them in another phase.
SameTasks(ts) ==
    /\ Len(ts) = Len(tasks)
    /\ \A t \in 1 .. Len(tasks) :
          /\ ts[t].binding = tasks[t].binding /\ ts[t].at = tasks[t].at
          /\ ts[t].path = tasks[t].path /\ ts[t].epoch = tasks[t].epoch
          /\ ts[t].deps = tasks[t].deps
          /\ tasks[t].phase = "thrown" => ts[t].phase = "thrown"

\* The types, as the steps below need them.
Shapes ==
    /\ Len(tasks) \in Nat /\ DOMAIN tasks = 1 .. Len(tasks)
    /\ Len(thread) \in Nat /\ DOMAIN thread = 1 .. Len(thread)
    /\ \A t \in 1 .. Len(tasks) :
          /\ tasks[t].binding \in Bindings /\ tasks[t].at \in Contexts
          /\ tasks[t].path \in Seq(Bindings) /\ tasks[t].deps \in Seq(Nat)
          /\ tasks[t].epoch \in Nat
    /\ \A i \in 1 .. Len(thread) : thread[i] \in 1 .. Len(tasks)
    /\ \A b \in Bindings, c \in Contexts :
          cache[b][c] \in 0 .. Len(tasks) /\ epoch[b][c] \in Nat

\* They follow from TypeOK.
LEMMA Typed == TypeOK => Shapes
<1> SUFFICES ASSUME TypeOK PROVE Shapes
  OBVIOUS
<1>1. MaxRefresh \in Nat
  BY ResolutionConstants
<1>2. \A t \in 1 .. Len(tasks) : tasks[t] \in Task
  BY DEF TypeOK
<1>3. \A b \in Bindings, c \in Contexts :
         cache[b][c] \in 0 .. Len(tasks) /\ epoch[b][c] \in 0 .. MaxRefresh
  BY DEF TypeOK
<1>4. Len(tasks) \in Nat /\ DOMAIN tasks = 1 .. Len(tasks)
      /\ Len(thread) \in Nat /\ DOMAIN thread = 1 .. Len(thread)
  BY DEF TypeOK
<1>5. \A i \in 1 .. Len(thread) : thread[i] \in 1 .. Len(tasks)
  BY DEF TypeOK
<1>6. \A t \in 1 .. Len(tasks) :
         /\ tasks[t].binding \in Bindings /\ tasks[t].at \in Contexts
         /\ tasks[t].path \in Seq(Bindings) /\ tasks[t].deps \in Seq(Nat)
         /\ tasks[t].epoch \in Nat
  BY <1>2 DEF Task
<1>7. \A b \in Bindings, c \in Contexts :
         cache[b][c] \in 0 .. Len(tasks) /\ epoch[b][c] \in Nat
  BY <1>1, <1>3
<1> QED
  BY <1>4, <1>5, <1>6, <1>7 DEF Shapes

\* What depends on the bindings, contexts and dates of tasks is not disturbed by a step
\* that keeps them and lets no task that has thrown go on.
SameDates ==
    /\ Len(tasks') = Len(tasks) /\ tasks' \in Seq(Task)
    /\ \A t \in 1 .. Len(tasks) :
          /\ tasks'[t].binding = tasks[t].binding /\ tasks'[t].at = tasks[t].at
          /\ tasks'[t].path = tasks[t].path /\ tasks'[t].epoch = tasks[t].epoch
          /\ tasks[t].phase = "thrown" => tasks'[t].phase = "thrown"

\* Such a step leaves each scope its one instance, and the tasks at home.
LEMMA DatesKept ==
    ASSUME ResolutionIInv, SameDates
    PROVE  OneInstance' /\ AtHome' /\ DOMAIN tasks' = 1 .. Len(tasks)
<1>s. Shapes
  BY Typed DEF ResolutionIInv
<1>2. DOMAIN tasks' = 1 .. Len(tasks) /\ DOMAIN tasks = 1 .. Len(tasks)
  BY <1>s DEF SameDates, Shapes
<1>3. OneInstance'
  <2>1. SUFFICES ASSUME NEW t \in 1 .. Len(tasks), NEW u \in 1 .. Len(tasks), t # u,
                        tasks[t].binding = tasks[u].binding, tasks[t].at = tasks[u].at,
                        Cacheable(tasks[t].binding), tasks[t].epoch = tasks[u].epoch
                 PROVE  "thrown" \in {tasks'[t].phase, tasks'[u].phase}
    BY <1>2 DEF OneInstance, SameDates, Cacheable
  <2>2. "thrown" \in {tasks[t].phase, tasks[u].phase}
    BY <2>1, <1>2 DEF ResolutionIInv, OneInstance
  <2> QED
    BY <2>2 DEF SameDates
<1>4. AtHome'
  BY <1>2 DEF ResolutionIInv, AtHome, SameDates
<1> QED
  BY <1>2, <1>3, <1>4

\* Nothing more than phases changes, where no pass goes on and who was on one has thrown.
LEMMA PhasesOnly ==
    ASSUME ResolutionIInv, SameTasks(tasks'), tasks' \in Seq(Task),
           thread' = <<>>, origin' = Nobody, UNCHANGED <<cache, epoch>>,
           \A i \in 1 .. Len(thread) : tasks'[thread[i]].phase = "thrown",
           call' \in [Callers -> 0 .. Len(tasks)], failed' \in [Callers -> BOOLEAN]
    PROVE  ResolutionIInv'
<1>1. TypeOK'
  <2>1. thread' \in Seq(1 .. Len(tasks')) /\ IsInjective(thread')
    BY DEF IsInjective
  <2> QED
    BY <2>1 DEF ResolutionIInv, TypeOK, SameTasks
<1>s. Shapes
  BY Typed DEF ResolutionIInv
<1>2. DOMAIN tasks' = 1 .. Len(tasks) /\ DOMAIN thread' = {} /\ DOMAIN tasks = 1 .. Len(tasks)
  BY <1>s DEF SameTasks, Shapes
<1>3. OneInstance' /\ AtHome'
  <2>1. SameDates
    BY DEF SameTasks, SameDates
  <2> QED
    BY <2>1, DatesKept
<1>5. DepsWithin'
  <2>1. SUFFICES ASSUME NEW t \in 1 .. Len(tasks), NEW i \in DOMAIN tasks[t].deps
                 PROVE  /\ tasks'[t].deps[i] \in 1 .. Len(tasks)
                        /\ tasks'[tasks'[t].deps[i]].at <= tasks'[t].at
    BY <1>2 DEF DepsWithin, SameTasks
  <2>2. tasks[t].deps[i] \in 1 .. Len(tasks) /\ tasks[tasks[t].deps[i]].at <= tasks[t].at
    BY <1>2 DEF ResolutionIInv, DepsWithin
  <2> QED
    BY <2>2 DEF SameTasks
<1>6. ThreadNests' /\ OnPath'
  BY <1>2 DEF ThreadNests, OnPath
<1>7. OriginGets'
  BY <1>2, ResolutionConstants DEF OriginGets
<1>8. CacheMatches'
  <2>1. SUFFICES ASSUME NEW b \in Bindings, NEW c \in Contexts, cache[b][c] # 0
                 PROVE  LET t == tasks'[cache[b][c]]
                        IN  t.binding = b /\ t.at = c /\ t.epoch = epoch[b][c]
    BY DEF CacheMatches
  <2>2. cache[b][c] \in 1 .. Len(tasks)
    BY <2>1, <1>s DEF Shapes
  <2>3. LET t == tasks[cache[b][c]]
        IN  t.binding = b /\ t.at = c /\ t.epoch = epoch[b][c]
    BY <2>1 DEF ResolutionIInv, CacheMatches
  <2> QED
    BY <2>2, <2>3 DEF SameTasks
<1>9. Findable'
  <2>1. ASSUME NEW t \in 1 .. Len(tasks)
        PROVE  LET a == tasks'[t]
               IN  /\ a.epoch <= epoch'[a.binding][a.at]
                   /\ Cacheable(a.binding) /\ a.phase # "thrown"
                      /\ a.epoch = epoch'[a.binding][a.at]
                      => cache'[a.binding][a.at] = t
    <3>1. LET a == tasks[t]
          IN  /\ a.epoch <= epoch[a.binding][a.at]
              /\ Cacheable(a.binding) /\ a.phase # "thrown"
                 /\ a.epoch = epoch[a.binding][a.at]
                 => cache[a.binding][a.at] = t \/ \E i \in 1 .. Len(thread) : thread[i] = t
      BY <1>s DEF ResolutionIInv, Findable, Shapes
    <3> QED
      BY <3>1 DEF SameTasks
  <2> QED
    BY <2>1, <1>2 DEF Findable, Cacheable
<1> QED
  BY <1>1, <1>3, <1>5, <1>6, <1>7, <1>8, <1>9 DEF ResolutionIInv

\* The path of the session that asks for b in context c, or an empty one
PathFits(ts, path, b, c) ==
    /\ IsInjective(path) /\ Len(path) = Len(thread)
    /\ \A j \in 1 .. Len(thread) :
          /\ path[j] = tasks[thread[j]].binding /\ path[j] # b
          /\ ts[thread[j]].phase = "injecting" /\ c <= tasks[thread[j]].at

\* A new task is put on the pass.
Joins(ts, new) ==
    /\ tasks' = Append(ts, new) /\ thread' = Append(thread, Len(tasks) + 1)
    /\ \/ origin' \in Callers
       \/ origin' \in 1 .. Len(tasks) /\ ts[origin'].phase = "getting"
    /\ UNCHANGED <<cache, epoch>>
    /\ call' \in [Callers -> 0 .. Len(tasks)] /\ failed' \in [Callers -> BOOLEAN]

\* A new task joins the path of the session, after a lookup that has not found it.
LEMMA JoinsPath ==
    ASSUME ResolutionIInv, NEW k, NEW c \in Contexts, NEW b \in Lookup(k, c),
           Resolvable(b, c), cache[b][ResolutionContext(b, c)] = 0,
           NEW ts \in Seq(Task), SameTasks(ts),
           NEW path \in Seq(Bindings), PathFits(ts, path, b, c),
           Joins(ts, New(b, c, path))
    PROVE  ResolutionIInv'
<1> DEFINE n == Len(tasks) + 1
           m == Len(thread) + 1
           rc == ResolutionContext(b, c)
           N == New(b, c, path)
<1>1. /\ b \in Bindings /\ rc \in Contexts /\ OwnerOf[b] <= rc /\ rc <= c
      /\ ScopeOf[b] = "singleton" => rc = OwnerOf[b]
  BY ResolvedContext
<1> HIDE DEF rc
<1>t. TypeOK /\ Shapes
  BY Typed DEF ResolutionIInv
<1>2. N = [binding |-> b, at |-> rc, path |-> Append(path, b), deps |-> <<>>,
           late |-> 0, phase |-> "injecting", epoch |-> epoch[b][rc]]
  BY DEF New, rc
<1>3. epoch[b][rc] \in Nat /\ cache[b][rc] = 0
  BY <1>1, <1>t DEF rc, Shapes
<1>4. N \in Task
  BY <1>1, <1>2, <1>3 DEF Task
<1>5. /\ N.binding = b /\ N.at = rc /\ N.path = Append(path, b) /\ N.deps = <<>>
      /\ N.phase = "injecting" /\ N.epoch = epoch[b][rc]
  BY <1>2
<1> HIDE DEF N
<1>e. tasks' \in Seq(Task) /\ Len(ts) = Len(tasks)
  BY <1>4 DEF SameTasks, Joins, N
<1>6. /\ Len(tasks') = n /\ DOMAIN tasks' = 1 .. n /\ tasks'[n] = N
      /\ \A t \in 1 .. Len(tasks) : tasks'[t] = ts[t]
  BY <1>4, <1>e DEF Joins, N
<1>f. thread \in Seq(1 .. Len(tasks)) /\ Len(tasks) \in Nat
  BY <1>t DEF TypeOK, Shapes
<1>g. thread' \in Seq(1 .. n)
  <2>1. thread \in Seq(1 .. n) /\ n \in 1 .. n
    BY <1>f
  <2> HIDE DEF n
  <2>2. Append(thread, n) \in Seq(1 .. n)
    BY <2>1
  <2> QED
    BY <2>2 DEF Joins, n
<1>7. /\ Len(thread') = m /\ DOMAIN thread' = 1 .. m
      /\ thread'[m] = n /\ \A i \in 1 .. Len(thread) : thread'[i] = thread[i]
  BY <1>f DEF Joins
<1>u. cache' = cache /\ epoch' = epoch
  BY DEF Joins
<1>p. /\ \A j \in 1 .. Len(thread) :
            /\ path[j] = tasks[thread[j]].binding /\ path[j] # b
            /\ ts[thread[j]].phase = "injecting" /\ c <= tasks[thread[j]].at
      /\ IsInjective(path) /\ Len(path) = Len(thread)
  BY DEF PathFits
<1>q. \A t \in 1 .. Len(tasks) :
          /\ tasks'[t].binding = tasks[t].binding /\ tasks'[t].at = tasks[t].at
          /\ tasks'[t].path = tasks[t].path /\ tasks'[t].epoch = tasks[t].epoch
          /\ tasks'[t].deps = tasks[t].deps
          /\ tasks[t].phase = "thrown" => tasks'[t].phase = "thrown"
  BY <1>6 DEF SameTasks
<1>8. /\ Len(tasks) \in Nat /\ Len(thread) \in Nat /\ n \in Nat /\ m \in Nat
      /\ \A t \in 1 .. n : t = n \/ t \in 1 .. Len(tasks)
      /\ \A i \in 1 .. m : i = m \/ i \in 1 .. Len(thread)
      /\ n \notin 1 .. Len(tasks) /\ n \in 1 .. n /\ m \in 1 .. m /\ m \notin 1 .. Len(thread)
      /\ 1 .. Len(tasks) \subseteq 1 .. n /\ 1 .. Len(thread) \subseteq 1 .. m
      /\ 0 .. Len(tasks) \subseteq 0 .. n
  BY <1>t DEF Shapes
<1>9a. \A i \in 1 .. Len(thread) : thread[i] \in 1 .. Len(tasks)
  BY <1>t DEF Shapes
<1> HIDE DEF n, m
<1>9. TypeOK'
  <2>1. IsInjective(thread')
    <3>1. IsInjective(thread)
      BY <1>t DEF TypeOK
    <3>2. ASSUME NEW i \in 1 .. m, NEW j \in 1 .. m, thread'[i] = thread'[j]
          PROVE  i = j
      <4>1. CASE i \in 1 .. Len(thread) /\ j \in 1 .. Len(thread)
        BY <4>1, <3>1, <3>2, <1>7, <1>t DEF IsInjective, Shapes
      <4>2. CASE i = m /\ j \in 1 .. Len(thread)
        BY <4>2, <3>2, <1>7, <1>8, <1>9a
      <4>3. CASE j = m /\ i \in 1 .. Len(thread)
        BY <4>3, <3>2, <1>7, <1>8, <1>9a
      <4> QED
        BY <4>1, <4>2, <4>3, <1>8
    <3> QED
      BY <3>2, <1>7 DEF IsInjective
  <2>2. cache' \in [Bindings -> [Contexts -> 0 .. n]]
    BY <1>t, <1>8, <1>u DEF TypeOK
  <2>3. call' \in [Callers -> 0 .. n] /\ failed' \in [Callers -> BOOLEAN]
    BY <1>8 DEF Joins
  <2>4. origin' \in Callers \cup 1 .. n
    BY <1>8 DEF Joins
  <2>5. origin' # Nobody
    BY <2>4, <1>8, ResolutionConstants
  <2>6. thread' # <<>>
    BY <1>7, <1>8
  <2>7. epoch' \in [Bindings -> [Contexts -> 0 .. MaxRefresh]]
    BY <1>t, <1>u DEF TypeOK
  <2> QED
    BY <1>e, <1>g, <1>6, <1>7, <2>1, <2>2, <2>3, <2>4, <2>5, <2>6, <2>7 DEF TypeOK
<1>10. ASSUME NEW t \in 1 .. Len(tasks), tasks[t].binding = b, tasks[t].at = rc,
              Cacheable(b), tasks[t].epoch = epoch[b][rc]
       PROVE  tasks[t].phase = "thrown"
  <2>1. SUFFICES ASSUME tasks[t].phase # "thrown" PROVE FALSE
    OBVIOUS
  <2>2. cache[b][rc] = t \/ \E i \in DOMAIN thread : thread[i] = t
    BY <2>1, <1>10, <1>t DEF ResolutionIInv, Findable, Shapes
  <2>3. ~ \E i \in DOMAIN thread : thread[i] = t
    BY <1>10, <1>p, <1>t DEF Shapes
  <2> QED
    BY <2>2, <2>3, <1>3, <1>8
<1>11. OneInstance'
  <2>1. SUFFICES ASSUME NEW t \in 1 .. n, NEW u \in 1 .. n, t # u,
                        tasks'[t].binding = tasks'[u].binding, tasks'[t].at = tasks'[u].at,
                        Cacheable(tasks'[t].binding), tasks'[t].epoch = tasks'[u].epoch
                 PROVE  tasks'[t].phase = "thrown" \/ tasks'[u].phase = "thrown"
    BY <1>6 DEF OneInstance, Cacheable
  <2>2. CASE t \in 1 .. Len(tasks) /\ u \in 1 .. Len(tasks)
    <3>1. "thrown" \in {tasks[t].phase, tasks[u].phase}
      BY <2>1, <2>2, <1>q, <1>t DEF ResolutionIInv, OneInstance, Shapes
    <3> QED
      BY <3>1, <2>2, <1>q
  <2>3. CASE t = n /\ u \in 1 .. Len(tasks)
    <3>1. tasks'[t] = N
      BY <2>3, <1>6
    <3>2. /\ tasks[u].binding = b /\ tasks[u].at = rc
          /\ Cacheable(b) /\ tasks[u].epoch = epoch[b][rc]
      BY <2>1, <2>3, <3>1, <1>5, <1>q
    <3>3. tasks[u].phase = "thrown"
      BY <2>3, <3>2, <1>10
    <3> QED
      BY <2>3, <3>3, <1>q
  <2>4. CASE u = n /\ t \in 1 .. Len(tasks)
    BY <2>1, <2>4, <1>5, <1>6, <1>q, <1>10
  <2> QED
    BY <2>1, <2>2, <2>3, <2>4, <1>8
<1>12. AtHome'
  <2>1. ASSUME NEW t \in 1 .. Len(tasks)
        PROVE  /\ OwnerOf[tasks'[t].binding] <= tasks'[t].at
               /\ ScopeOf[tasks'[t].binding] = "singleton"
                  => tasks'[t].at = OwnerOf[tasks'[t].binding]
    BY <1>q, <1>t DEF ResolutionIInv, AtHome, Shapes
  <2>2. /\ OwnerOf[tasks'[n].binding] <= tasks'[n].at
        /\ ScopeOf[tasks'[n].binding] = "singleton"
           => tasks'[n].at = OwnerOf[tasks'[n].binding]
    BY <1>1, <1>5, <1>6
  <2> QED
    BY <2>1, <2>2, <1>6, <1>8 DEF AtHome
<1>13. DepsWithin'
  <2>1. ASSUME NEW t \in 1 .. Len(tasks), NEW i \in DOMAIN tasks'[t].deps
        PROVE  /\ tasks'[t].deps[i] \in 1 .. n
               /\ tasks'[tasks'[t].deps[i]].at <= tasks'[t].at
    <3>1. tasks[t].deps = tasks'[t].deps /\ tasks'[t].at = tasks[t].at
      BY <1>q
    <3>2. tasks[t].deps[i] \in 1 .. Len(tasks) /\ tasks[tasks[t].deps[i]].at <= tasks[t].at
      BY <3>1, <1>t DEF ResolutionIInv, DepsWithin, Shapes
    <3> QED
      BY <3>1, <3>2, <1>q, <1>8
  <2>2. DOMAIN tasks'[n].deps = {}
    BY <1>5, <1>6
  <2> QED
    BY <2>1, <2>2, <1>6, <1>8 DEF DepsWithin
<1>14. ThreadNests'
  <2>1. \A i \in 1 .. Len(thread) : tasks'[thread'[i]].at = tasks[thread[i]].at
    BY <1>q, <1>7, <1>9a
  <2>2. ASSUME NEW i \in 1 .. Len(thread)
        PROVE  tasks'[thread'[m]].at <= tasks'[thread'[i]].at
    <3>1. tasks[thread[i]].at \in Nat /\ rc \in Nat /\ c \in Nat
      <4>1. tasks[thread[i]].at \in Contexts
        BY <1>t, <1>9a DEF Shapes
      <4> QED
        BY <4>1, <1>1, ResolutionConstants DEF Contexts
    <3>2. c <= tasks[thread[i]].at
      BY <1>p
    <3>3. tasks'[thread'[m]].at = rc
      BY <1>5, <1>6, <1>7
    <3>4. rc <= tasks[thread[i]].at
      BY <3>1, <3>2, <1>1
    <3> QED
      BY <2>1, <3>3, <3>4
  <2>3. tasks'[thread'[m]].at <= tasks'[thread'[m]].at
    <3>1. tasks'[thread'[m]].at = rc /\ rc \in Nat
      BY <1>1, <1>5, <1>6, <1>7, ResolutionConstants DEF Contexts
    <3> QED
      BY <3>1
  <2>4. ASSUME NEW i \in 1 .. Len(thread), NEW j \in 1 .. Len(thread), i <= j
        PROVE  tasks'[thread'[j]].at <= tasks'[thread'[i]].at
    <3>1. tasks[thread[j]].at <= tasks[thread[i]].at
      BY <2>4, <1>t DEF ResolutionIInv, ThreadNests, Shapes
    <3> QED
      BY <2>1, <3>1
  <2>5. SUFFICES ASSUME NEW i \in 1 .. m, NEW j \in 1 .. m, i <= j
                 PROVE  tasks'[thread'[j]].at <= tasks'[thread'[i]].at
    BY <1>7 DEF ThreadNests
  <2>6. CASE j = m
    BY <2>2, <2>3, <2>6, <1>8
  <2>7. CASE j \in 1 .. Len(thread)
    <3>1. i \in 1 .. Len(thread)
      BY <2>5, <2>7, <1>8 DEF m
    <3> QED
      BY <2>4, <2>5, <2>7, <3>1
  <2> QED
    BY <2>6, <2>7, <1>8
<1>15. OnPath'
  <2>1. ASSUME NEW i \in 1 .. Len(thread)
        PROVE  LET t == tasks'[thread'[i]]
               IN  /\ t.phase = "injecting"
                   /\ Len(t.path) = i
                   /\ \A j \in 1 .. i : t.path[j] = tasks'[thread'[j]].binding
                   /\ IsInjective(t.path)
                   /\ cache'[t.binding][t.at] = 0
                   /\ t.epoch = epoch'[t.binding][t.at]
    <3> DEFINE o == tasks[thread[i]]
    <3>1. /\ Len(o.path) = i /\ \A j \in 1 .. i : o.path[j] = tasks[thread[j]].binding
          /\ IsInjective(o.path) /\ cache[o.binding][o.at] = 0
          /\ o.epoch = epoch[o.binding][o.at]
      BY <1>t DEF ResolutionIInv, OnPath, Shapes
    <3>2. \A j \in 1 .. i : tasks'[thread'[j]].binding = tasks[thread[j]].binding
      <4>1. 1 .. i \subseteq 1 .. Len(thread)
        BY <1>8
      <4> QED
        BY <4>1, <1>7, <1>9a, <1>q
    <3>3. thread'[i] = thread[i] /\ thread[i] \in 1 .. Len(tasks)
      BY <1>7, <1>9a
    <3>4. /\ tasks'[thread'[i]].path = o.path /\ tasks'[thread'[i]].binding = o.binding
          /\ tasks'[thread'[i]].at = o.at /\ tasks'[thread'[i]].epoch = o.epoch
      BY <3>3, <1>q
    <3>5. tasks'[thread'[i]].phase = "injecting"
      BY <3>3, <1>6, <1>p
    <3> QED
      BY <3>1, <3>2, <3>4, <3>5, <1>u
  <2> DEFINE longer == Append(path, b)
  <2>2. /\ Len(longer) = m /\ longer[m] = b /\ DOMAIN longer = 1 .. m
        /\ \A j \in 1 .. Len(thread) : longer[j] = path[j]
    BY <1>1, <1>p DEF m
  <2>d. DOMAIN path = 1 .. Len(thread)
    BY <1>p
  <2>5. N.path = longer
    BY <1>5
  <2> HIDE DEF longer
  <2>3. \A j \in 1 .. m : longer[j] = tasks'[thread'[j]].binding
    <3>1. \A j \in 1 .. Len(thread) : longer[j] = tasks'[thread'[j]].binding
      BY <2>2, <1>p, <1>q, <1>7, <1>9a
    <3>2. longer[m] = tasks'[thread'[m]].binding
      BY <2>2, <1>5, <1>6, <1>7
    <3> QED
      BY <3>1, <3>2, <1>8
  <2>4. IsInjective(longer)
    <3>1. ASSUME NEW i \in 1 .. m, NEW j \in 1 .. m, longer[i] = longer[j]
          PROVE  i = j
      <4>1. CASE i \in 1 .. Len(thread) /\ j \in 1 .. Len(thread)
        BY <4>1, <3>1, <2>2, <2>d, <1>p DEF IsInjective
      <4>2. CASE i = m /\ j \in 1 .. Len(thread)
        BY <4>2, <3>1, <2>2, <1>p
      <4>3. CASE j = m /\ i \in 1 .. Len(thread)
        BY <4>3, <3>1, <2>2, <1>p
      <4> QED
        BY <4>1, <4>2, <4>3, <1>8
    <3> QED
      BY <3>1, <2>2 DEF IsInjective
  <2>6. LET t == tasks'[thread'[m]]
        IN  /\ t.phase = "injecting"
            /\ Len(t.path) = m
            /\ \A j \in 1 .. m : t.path[j] = tasks'[thread'[j]].binding
            /\ IsInjective(t.path)
            /\ cache'[t.binding][t.at] = 0
            /\ t.epoch = epoch'[t.binding][t.at]
    <3>1. tasks'[thread'[m]] = N
      BY <1>6, <1>7
    <3> QED
      BY <3>1, <2>2, <2>3, <2>4, <2>5, <1>3, <1>5, <1>u
  <2> QED
    BY SMTT(30), <2>1, <2>6, <1>7, <1>8 DEF OnPath
<1>16. OriginGets'
  <2>1. origin' \in 1 .. n => origin' \in 1 .. Len(tasks) /\ ts[origin'].phase = "getting"
    BY <1>8, ResolutionConstants DEF Joins
  <2> QED
    BY <2>1, <1>6 DEF OriginGets
<1>17. CacheMatches'
  <2>1. ASSUME NEW x \in Bindings, NEW d \in Contexts, cache[x][d] # 0
        PROVE  LET t == tasks'[cache[x][d]]
               IN  t.binding = x /\ t.at = d /\ t.epoch = epoch[x][d]
    <3>1. cache[x][d] \in 1 .. Len(tasks)
      BY <2>1, <1>t DEF Shapes
    <3>2. LET t == tasks[cache[x][d]]
          IN  t.binding = x /\ t.at = d /\ t.epoch = epoch[x][d]
      BY <2>1 DEF ResolutionIInv, CacheMatches
    <3> QED
      BY <3>1, <3>2, <1>q
  <2> QED
    BY <2>1, <1>u DEF CacheMatches
<1>18. Findable'
  <2>1. ASSUME NEW t \in 1 .. Len(tasks)
        PROVE  LET a == tasks'[t]
               IN  /\ a.epoch <= epoch'[a.binding][a.at]
                   /\ Cacheable(a.binding) /\ a.phase # "thrown"
                      /\ a.epoch = epoch'[a.binding][a.at]
                      => cache'[a.binding][a.at] = t \/ \E i \in DOMAIN thread' : thread'[i] = t
    <3>1. (\E i \in 1 .. Len(thread) : thread[i] = t) => \E i \in 1 .. m : thread'[i] = t
      BY <1>7, <1>8
    <3>2. LET a == tasks[t]
          IN  /\ a.epoch <= epoch[a.binding][a.at]
              /\ Cacheable(a.binding) /\ a.phase # "thrown"
                 /\ a.epoch = epoch[a.binding][a.at]
                 => cache[a.binding][a.at] = t \/ \E i \in 1 .. Len(thread) : thread[i] = t
      BY <1>t DEF ResolutionIInv, Findable, Shapes
    <3> QED
      BY <3>1, <3>2, <1>q, <1>u, <1>7
  <2>2. N.epoch <= epoch'[N.binding][N.at] /\ \E i \in DOMAIN thread' : thread'[i] = n
    <3>1. N.epoch <= epoch'[N.binding][N.at]
      BY <1>3, <1>5, <1>u
    <3>2. m \in DOMAIN thread' /\ thread'[m] = n
      BY <1>7, <1>8
    <3> QED
      BY <3>1, <3>2
  <2> QED
    BY <2>1, <2>2, <1>6, <1>8 DEF Findable, Cacheable
<1> QED
  BY <1>9, <1>11, <1>12, <1>13, <1>14, <1>15, <1>16, <1>17, <1>18 DEF ResolutionIInv

\* A task whose phase is set is one, and the others are as they were.
LEMMA PhaseSet ==
    ASSUME TypeOK, NEW t \in 1 .. Len(tasks), tasks[t].phase # "thrown",
           NEW p \in {"injecting", "waiting", "getting"} \cup Final
    PROVE  /\ [tasks EXCEPT ![t].phase = p] \in Seq(Task)
           /\ SameTasks([tasks EXCEPT ![t].phase = p])
           /\ [tasks EXCEPT ![t].phase = p][t].phase = p
           /\ \A l \in Nat : /\ [tasks EXCEPT ![t].late = l, ![t].phase = p] \in Seq(Task)
                            /\ SameTasks([tasks EXCEPT ![t].late = l, ![t].phase = p])
<1>1. tasks \in Seq(Task) /\ tasks[t] \in Task
  BY DEF TypeOK
<1>2. ASSUME NEW r \in Task,
             /\ r.binding = tasks[t].binding /\ r.at = tasks[t].at /\ r.path = tasks[t].path
             /\ r.epoch = tasks[t].epoch /\ r.deps = tasks[t].deps
      PROVE  /\ [tasks EXCEPT ![t] = r] \in Seq(Task) /\ SameTasks([tasks EXCEPT ![t] = r])
             /\ [tasks EXCEPT ![t] = r][t] = r
  <2> DEFINE ts == [tasks EXCEPT ![t] = r]
  <2>1. ts \in Seq(Task) /\ Len(ts) = Len(tasks)
    BY <1>1
  <2>2. \A u \in 1 .. Len(tasks) : ts[u] = IF u = t THEN r ELSE tasks[u]
    BY <1>1
  <2> QED
    BY <1>2, <2>1, <2>2 DEF SameTasks
<1>3. /\ [tasks EXCEPT ![t].phase = p] \in Seq(Task)
      /\ SameTasks([tasks EXCEPT ![t].phase = p])
      /\ [tasks EXCEPT ![t].phase = p][t].phase = p
  <2> DEFINE r == [tasks[t] EXCEPT !.phase = p]
  <2>1. /\ r \in Task /\ r.phase = p
        /\ r.binding = tasks[t].binding /\ r.at = tasks[t].at /\ r.path = tasks[t].path
        /\ r.epoch = tasks[t].epoch /\ r.deps = tasks[t].deps
    BY <1>1 DEF Task
  <2>2. [tasks EXCEPT ![t].phase = p] = [tasks EXCEPT ![t] = r]
    OBVIOUS
  <2> HIDE DEF r
  <2> QED
    BY <2>1, <2>2, <1>2
<1>4. ASSUME NEW l \in Nat
      PROVE  /\ [tasks EXCEPT ![t].late = l, ![t].phase = p] \in Seq(Task)
             /\ SameTasks([tasks EXCEPT ![t].late = l, ![t].phase = p])
  <2> DEFINE r == [tasks[t] EXCEPT !.late = l, !.phase = p]
  <2>1. /\ r \in Task
        /\ r.binding = tasks[t].binding /\ r.at = tasks[t].at /\ r.path = tasks[t].path
        /\ r.epoch = tasks[t].epoch /\ r.deps = tasks[t].deps
    BY <1>1 DEF Task
  <2>2. [tasks EXCEPT ![t].late = l, ![t].phase = p] = [tasks EXCEPT ![t] = r]
    BY <1>1
  <2> HIDE DEF r
  <2> QED
    BY <2>1, <2>2, <1>2
<1> QED
  BY <1>3, <1>4

-----------------------------------------------------------------------------
(* The synchronous pass *)

\* What is known of the innermost task while there is a pass
LEMMA TopOfPass ==
    ASSUME ResolutionIInv, thread # <<>>
    PROVE  /\ Len(thread) \in Nat \ {0} /\ Last(thread) = thread[Len(thread)]
           /\ Last(thread) \in 1 .. Len(tasks) /\ Top = tasks[Last(thread)]
           /\ Top.at \in Contexts /\ Top.binding \in Bindings /\ Top.path \in Seq(Bindings)
           /\ origin \in Callers \/ (origin \in 1 .. Len(tasks) /\ tasks[origin].phase = "getting")
           /\ origin # Nobody
           /\ \A i \in 1 .. Len(thread) : tasks[thread[i]].phase = "injecting"
           /\ IsInjective(thread)
<1>s. TypeOK /\ Shapes
  BY Typed DEF ResolutionIInv
<1>1. Len(thread) \in Nat \ {0}
  <2>1. thread \in Seq(1 .. Len(tasks))
    BY <1>s DEF TypeOK
  <2> QED
    BY <2>1
<1>2. Last(thread) = thread[Len(thread)] /\ Last(thread) \in 1 .. Len(tasks)
  BY <1>1, <1>s DEF Last, Shapes
<1>3. Top.at \in Contexts /\ Top.binding \in Bindings /\ Top.path \in Seq(Bindings)
  BY <1>2, <1>s DEF Top, Shapes
<1>4. /\ origin \in Callers \/ (origin \in 1 .. Len(tasks) /\ tasks[origin].phase = "getting")
      /\ origin # Nobody
  BY <1>s DEF ResolutionIInv, OriginGets, TypeOK, Shapes
<1>5. \A i \in 1 .. Len(thread) : tasks[thread[i]].phase = "injecting"
  BY <1>s DEF ResolutionIInv, OnPath, Shapes
<1> QED
  BY <1>s, <1>1, <1>2, <1>3, <1>4, <1>5 DEF Top, TypeOK

\* An error ends the pass: its tasks have thrown, and who began it has failed.
LEMMA ThrowKeeps ==
    ASSUME ResolutionIInv, thread # <<>>, Throw
    PROVE  ResolutionIInv'
<1>s. TypeOK /\ Shapes
  BY Typed DEF ResolutionIInv
<1>t. /\ origin \in Callers \/ (origin \in 1 .. Len(tasks) /\ tasks[origin].phase = "getting")
      /\ \A i \in 1 .. Len(thread) : tasks[thread[i]].phase = "injecting"
  BY TopOfPass
<1> DEFINE on == ToSet(thread)
           ts == [i \in DOMAIN tasks |->
                   IF i \in on THEN [tasks[i] EXCEPT !.phase = "thrown"] ELSE tasks[i]]
<1>1. on = {thread[i] : i \in 1 .. Len(thread)}
  BY <1>s DEF ToSet, Shapes
<1>2. ASSUME NEW i \in 1 .. Len(tasks)
      PROVE  /\ ts[i] \in Task
             /\ ts[i].binding = tasks[i].binding /\ ts[i].at = tasks[i].at
             /\ ts[i].path = tasks[i].path /\ ts[i].epoch = tasks[i].epoch
             /\ ts[i].deps = tasks[i].deps
             /\ tasks[i].phase = "thrown" => ts[i].phase = "thrown"
             /\ i \in on => ts[i].phase = "thrown"
             /\ i \notin on => ts[i] = tasks[i]
  <2>1. tasks[i] \in Task
    BY <1>s DEF TypeOK
  <2>2. ts[i] = IF i \in on THEN [tasks[i] EXCEPT !.phase = "thrown"] ELSE tasks[i]
    BY <1>s DEF Shapes
  <2> HIDE DEF ts, on
  <2>3. CASE i \in on
    <3>1. ts[i] = [tasks[i] EXCEPT !.phase = "thrown"]
      BY <2>2, <2>3
    <3> QED
      BY <3>1, <2>1, <2>3 DEF Task, Final
  <2>4. CASE i \notin on
    BY <2>1, <2>2, <2>4
  <2> QED
    BY <2>3, <2>4
<1>3. ts \in Seq(Task) /\ Len(ts) = Len(tasks) /\ DOMAIN ts = 1 .. Len(tasks)
  <2>1. DOMAIN ts = 1 .. Len(tasks) /\ Len(tasks) \in Nat
    BY <1>s DEF Shapes
  <2>2. ts \in [1 .. Len(tasks) -> Task]
    <3>1. ts = [i \in 1 .. Len(tasks) |-> ts[i]]
      BY <1>s DEF Shapes
    <3> HIDE DEF ts
    <3> QED
      BY <3>1, <1>2
  <2> HIDE DEF ts
  <2>3. ts \in Seq(Task)
    BY <2>1, <2>2
  <2> QED
    BY <2>1, <2>2, <2>3
<1>4. /\ IF origin \in Callers
         THEN tasks' = ts /\ failed' = [failed EXCEPT ![origin] = TRUE]
         ELSE tasks' = [ts EXCEPT ![origin].phase = "rejected"] /\ UNCHANGED failed
      /\ thread' = <<>> /\ origin' = Nobody
      /\ UNCHANGED <<cache, call, epoch>>
  BY DEF Throw
<1> HIDE DEF ts, on
<1>5. SameTasks(tasks') /\ tasks' \in Seq(Task)
      /\ \A i \in 1 .. Len(thread) : tasks'[thread[i]].phase = "thrown"
  <2>1. \A i \in 1 .. Len(thread) : thread[i] \in on /\ thread[i] \in 1 .. Len(tasks)
    BY <1>1, <1>s DEF Shapes
  <2>2. CASE origin \in Callers
    BY <2>1, <2>2, <1>2, <1>3, <1>4 DEF SameTasks
  <2>3. CASE origin \notin Callers
    <3>1. origin \in 1 .. Len(tasks) /\ tasks[origin].phase = "getting"
      BY <2>3, <1>t
    <3>2. origin \notin on
      BY <3>1, <1>1, <1>t
    <3>3. ts[origin] = tasks[origin] /\ ts[origin] \in Task
      BY <3>1, <3>2, <1>2
    <3> DEFINE r == [tasks[origin] EXCEPT !.phase = "rejected"]
    <3>4. /\ r \in Task /\ r.binding = tasks[origin].binding /\ r.at = tasks[origin].at
          /\ r.path = tasks[origin].path /\ r.epoch = tasks[origin].epoch
          /\ r.deps = tasks[origin].deps
      BY <3>3 DEF Task, Final
    <3>5. tasks' = [ts EXCEPT ![origin] = r]
      BY <2>3, <3>3, <1>4
    <3> HIDE DEF r
    <3>6. tasks' \in Seq(Task) /\ Len(tasks') = Len(tasks)
      BY <3>1, <3>4, <3>5, <1>3
    <3>7. \A i \in 1 .. Len(tasks) : tasks'[i] = IF i = origin THEN r ELSE ts[i]
      BY <3>5, <1>3
    <3>8. SameTasks(tasks')
      BY <3>1, <3>4, <3>6, <3>7, <1>2 DEF SameTasks
    <3>9. \A i \in 1 .. Len(thread) : tasks'[thread[i]].phase = "thrown"
      BY SMTT(30), <2>1, <3>2, <3>7, <1>2
    <3> QED
      BY <3>6, <3>8, <3>9
  <2> QED
    BY <2>2, <2>3
<1>6. call' \in [Callers -> 0 .. Len(tasks)] /\ failed' \in [Callers -> BOOLEAN]
  BY <1>s, <1>4 DEF TypeOK
<1> QED
  BY <1>4, <1>5, <1>6, PhasesOnly

\* A task that is found in no cache is begun within the session that injects it.
LEMMA InjectNewKeeps ==
    ASSUME ResolutionIInv, InjectNew
    PROVE  ResolutionIInv'
<1>s. TypeOK /\ Shapes
  BY Typed DEF ResolutionIInv
<1>1. thread # <<>>
  BY DEF InjectNew, Injecting
<1>2. PICK b \in Found :
          /\ Resolvable(b, Top.at) /\ ~Circular(b)
          /\ cache[b][ResolutionContext(b, Top.at)] = 0
          /\ tasks' = Append(tasks, New(b, Top.at, Top.path))
  BY DEF InjectNew
<1>3. /\ Len(thread) \in Nat \ {0} /\ Last(thread) = thread[Len(thread)]
      /\ Last(thread) \in 1 .. Len(tasks) /\ Top = tasks[Last(thread)]
      /\ Top.at \in Contexts /\ Top.path \in Seq(Bindings)
      /\ origin \in Callers \/ (origin \in 1 .. Len(tasks) /\ tasks[origin].phase = "getting")
      /\ \A i \in 1 .. Len(thread) : tasks[thread[i]].phase = "injecting"
  BY <1>1, TopOfPass
<1>4. b \in Lookup(Head(Wanted), Top.at)
  BY DEF Found
<1>5. tasks \in Seq(Task) /\ SameTasks(tasks)
  BY <1>s DEF TypeOK, SameTasks
<1>6. /\ Len(Top.path) = Len(thread) /\ IsInjective(Top.path)
      /\ \A j \in 1 .. Len(thread) : Top.path[j] = tasks[thread[j]].binding
  BY <1>3, <1>s DEF ResolutionIInv, OnPath, Shapes
<1>7. \A j \in 1 .. Len(thread) : Top.path[j] # b
  BY <1>2, <1>6 DEF Circular, Contains
<1>8. \A j \in 1 .. Len(thread) : Top.at <= tasks[thread[j]].at
  BY <1>3, <1>s DEF ResolutionIInv, ThreadNests, Shapes
<1>9. PathFits(tasks, Top.path, b, Top.at)
  BY <1>3, <1>6, <1>7, <1>8 DEF PathFits
<1>10. Joins(tasks, New(b, Top.at, Top.path))
  <2>1. thread' = Append(thread, Len(tasks) + 1) /\ UNCHANGED <<cache, origin, call, failed, epoch>>
    BY DEF InjectNew
  <2>2. call \in [Callers -> 0 .. Len(tasks)] /\ failed \in [Callers -> BOOLEAN]
    BY <1>s DEF TypeOK
  <2> QED
    BY <2>1, <2>2, <1>2, <1>3 DEF Joins
<1> QED
  BY <1>2, <1>3, <1>4, <1>5, <1>9, <1>10, JoinsPath

\* The tasks once task t has got x among what it injects.
Adding(ts, t, x) == [ts EXCEPT ![t].deps = Append(@, x)]

\* A task that has got what it injects is one, and only its list is longer.
LEMMA DepAdded ==
    ASSUME NEW ts \in Seq(Task), NEW t \in 1 .. Len(ts), NEW x \in Nat
    PROVE  /\ Adding(ts, t, x) \in Seq(Task) /\ Len(Adding(ts, t, x)) = Len(ts)
           /\ Adding(ts, t, x)[t].deps = Append(ts[t].deps, x)
           /\ \A u \in 1 .. Len(ts) : u # t => Adding(ts, t, x)[u] = ts[u]
           /\ \A u \in 1 .. Len(ts) :
                 LET y == Adding(ts, t, x)[u]
                 IN  /\ y.binding = ts[u].binding /\ y.at = ts[u].at
                     /\ y.path = ts[u].path /\ y.epoch = ts[u].epoch
                     /\ y.phase = ts[u].phase
<1> DEFINE more == Append(ts[t].deps, x)
           r == [ts[t] EXCEPT !.deps = more]
           us == [ts EXCEPT ![t] = r]
<1>1. ts[t] \in Task /\ more \in Seq(Nat)
  <2>1. ts[t] \in Task
    OBVIOUS
  <2>2. ts[t].deps \in Seq(Nat)
    BY <2>1 DEF Task
  <2> QED
    BY <2>1, <2>2
<1>2. Adding(ts, t, x) = us
  BY DEF Adding
<1> HIDE DEF more
<1>3. /\ r \in Task /\ r.deps = more
      /\ r.binding = ts[t].binding /\ r.at = ts[t].at /\ r.path = ts[t].path
      /\ r.epoch = ts[t].epoch /\ r.phase = ts[t].phase
  BY <1>1 DEF Task
<1> HIDE DEF r
<1>4. us \in Seq(Task) /\ Len(us) = Len(ts)
  BY <1>3
<1>5. \A u \in 1 .. Len(ts) : us[u] = IF u = t THEN r ELSE ts[u]
  OBVIOUS
<1> HIDE DEF us
<1> QED
  BY <1>2, <1>3, <1>4, <1>5 DEF more

\* A task that has called a getter remembers what it is waiting for.
LEMMA LateSet ==
    ASSUME NEW ts \in Seq(Task), NEW t \in 1 .. Len(ts), NEW l \in Nat
    PROVE  LET us == [ts EXCEPT ![t].late = l]
           IN  /\ us \in Seq(Task) /\ Len(us) = Len(ts)
               /\ \A u \in 1 .. Len(ts) :
                     /\ us[u].binding = ts[u].binding /\ us[u].at = ts[u].at
                     /\ us[u].path = ts[u].path /\ us[u].epoch = ts[u].epoch
                     /\ us[u].phase = ts[u].phase /\ us[u].deps = ts[u].deps
<1> DEFINE r == [ts[t] EXCEPT !.late = l]
           us == [ts EXCEPT ![t] = r]
<1>1. ts[t] \in Task
  OBVIOUS
<1>2. /\ r \in Task /\ r.deps = ts[t].deps
      /\ r.binding = ts[t].binding /\ r.at = ts[t].at /\ r.path = ts[t].path
      /\ r.epoch = ts[t].epoch /\ r.phase = ts[t].phase
  BY <1>1 DEF Task
<1>3. [ts EXCEPT ![t].late = l] = us
  OBVIOUS
<1> HIDE DEF r
<1>4. us \in Seq(Task) /\ Len(us) = Len(ts)
  BY <1>2
<1>5. \A u \in 1 .. Len(ts) : us[u] = IF u = t THEN r ELSE ts[u]
  OBVIOUS
<1> HIDE DEF us
<1> QED
  BY <1>2, <1>3, <1>4, <1>5

\* What is injected stays within, as the task above it was.
LEMMA DepsStayWithin ==
    ASSUME ResolutionIInv, SameDates, NEW t \in 1 .. Len(tasks), NEW x \in 1 .. Len(tasks),
           tasks[x].at <= tasks[t].at,
           tasks'[t].deps \in {tasks[t].deps, Append(tasks[t].deps, x)},
           \A u \in 1 .. Len(tasks) : u # t => tasks'[u].deps = tasks[u].deps
    PROVE  DepsWithin'
<1>s. Shapes
  BY Typed DEF ResolutionIInv
<1>1. DOMAIN tasks' = 1 .. Len(tasks)
  BY DatesKept
<1>2. SUFFICES ASSUME NEW u \in 1 .. Len(tasks), NEW i \in DOMAIN tasks'[u].deps
               PROVE  /\ tasks'[u].deps[i] \in 1 .. Len(tasks)
                      /\ tasks'[tasks'[u].deps[i]].at <= tasks'[u].at
  BY <1>1 DEF DepsWithin
<1>3. ASSUME NEW j \in DOMAIN tasks[u].deps
      PROVE  /\ tasks[u].deps[j] \in 1 .. Len(tasks)
             /\ tasks[tasks[u].deps[j]].at <= tasks[u].at
  BY <1>s DEF ResolutionIInv, DepsWithin, Shapes
<1>4. ASSUME tasks'[u].deps[i] \in 1 .. Len(tasks),
             tasks[tasks'[u].deps[i]].at <= tasks[u].at
      PROVE  tasks'[tasks'[u].deps[i]].at <= tasks'[u].at
  BY <1>4 DEF SameDates
<1>5. CASE tasks'[u].deps = tasks[u].deps
  BY <1>3, <1>4, <1>5
<1>6. CASE u = t /\ tasks'[u].deps = Append(tasks[u].deps, x)
  <2>1. tasks[u].deps \in Seq(Nat)
    BY <1>s DEF Shapes
  <2>2. CASE i \in DOMAIN tasks[u].deps
    <3>1. tasks'[u].deps[i] = tasks[u].deps[i]
      BY <2>1, <2>2, <1>6
    <3> QED
      BY <3>1, <2>2, <1>3, <1>4
  <2>3. CASE i \notin DOMAIN tasks[u].deps
    <3>1. tasks'[u].deps[i] = x
      BY <2>1, <2>3, <1>6
    <3> QED
      BY <3>1, <1>4, <1>6
  <2> QED
    BY <2>2, <2>3
<1> QED
  BY <1>5, <1>6

\* A value or promise from the cache goes to the task that injects it.
LEMMA InjectCachedKeeps ==
    ASSUME ResolutionIInv, InjectCached
    PROVE  ResolutionIInv'
<1>s. TypeOK /\ Shapes
  BY Typed DEF ResolutionIInv
<1>1. thread # <<>>
  BY DEF InjectCached, Injecting
<1> DEFINE t == Last(thread)
<1>2. PICK b \in Found :
          /\ Resolvable(b, Top.at)
          /\ cache[b][ResolutionContext(b, Top.at)] # 0
          /\ tasks' = [tasks EXCEPT ![t].deps =
                         Append(@, cache[b][ResolutionContext(b, Top.at)])]
  BY DEF InjectCached
<1> DEFINE rc == ResolutionContext(b, Top.at)
           x == cache[b][rc]
<1>3. t \in 1 .. Len(tasks) /\ Top = tasks[t] /\ Top.at \in Contexts
  BY <1>1, TopOfPass
<1>4. b \in Bindings /\ rc \in Contexts /\ rc <= Top.at
  BY <1>2, <1>3, ResolvedContext DEF Found
<1>5. x \in 1 .. Len(tasks) /\ tasks[x].at = rc
  <2>1. x \in 0 .. Len(tasks) /\ x # 0
    BY <1>2, <1>4, <1>s DEF Shapes
  <2> QED
    BY <2>1, <1>4 DEF ResolutionIInv, CacheMatches
<1>u. UNCHANGED <<cache, thread, origin, call, failed, epoch>>
  BY DEF InjectCached
<1> HIDE DEF t, x, rc
<1>6. /\ tasks' \in Seq(Task) /\ Len(tasks') = Len(tasks)
      /\ tasks'[t].deps = Append(tasks[t].deps, x)
      /\ \A u \in 1 .. Len(tasks) : u # t => tasks'[u] = tasks[u]
      /\ \A u \in 1 .. Len(tasks) :
            /\ tasks'[u].binding = tasks[u].binding /\ tasks'[u].at = tasks[u].at
            /\ tasks'[u].path = tasks[u].path /\ tasks'[u].epoch = tasks[u].epoch
            /\ tasks'[u].phase = tasks[u].phase
  <2>1. tasks \in Seq(Task) /\ x \in Nat
    BY <1>5, <1>s DEF TypeOK
  <2>2. tasks' = Adding(tasks, t, x)
    BY <1>2 DEF Adding, x, rc
  <2> QED
    BY <2>1, <2>2, <1>3, DepAdded
<1>7. SameDates
  BY <1>6 DEF SameDates
<1>8. OneInstance' /\ AtHome' /\ DOMAIN tasks' = 1 .. Len(tasks)
  BY <1>7, DatesKept
<1>9. DepsWithin'
  BY <1>3, <1>4, <1>5, <1>6, <1>7, DepsStayWithin
<1>10. TypeOK'
  BY <1>6, <1>s, <1>u DEF TypeOK
<1>11. ThreadNests'
  BY <1>6, <1>s, <1>u DEF ResolutionIInv, ThreadNests, Shapes
<1>12. OnPath'
  <2>1. ASSUME NEW i \in 1 .. Len(thread)
        PROVE  LET o == tasks'[thread[i]]
               IN  /\ o.phase = "injecting" /\ Len(o.path) = i
                   /\ \A j \in 1 .. i : o.path[j] = tasks'[thread[j]].binding
                   /\ IsInjective(o.path)
                   /\ cache[o.binding][o.at] = 0 /\ o.epoch = epoch[o.binding][o.at]
    <3>1. LET o == tasks[thread[i]]
          IN  /\ o.phase = "injecting" /\ Len(o.path) = i
              /\ \A j \in 1 .. i : o.path[j] = tasks[thread[j]].binding
              /\ IsInjective(o.path)
              /\ cache[o.binding][o.at] = 0 /\ o.epoch = epoch[o.binding][o.at]
      BY <1>s DEF ResolutionIInv, OnPath, Shapes
    <3>2. \A j \in 1 .. i : thread[j] \in 1 .. Len(tasks)
      BY <1>s DEF Shapes
    <3>3. i \in 1 .. i
      BY <1>s DEF Shapes
    <3> QED
      BY <3>1, <3>2, <3>3, <1>6
  <2> QED
    BY <2>1, <1>s, <1>u DEF OnPath, Shapes
<1>13. OriginGets'
  BY <1>6, <1>8, <1>s, <1>u DEF ResolutionIInv, OriginGets, Shapes
<1>14. CacheMatches'
  <2>1. ASSUME NEW y \in Bindings, NEW d \in Contexts, cache[y][d] # 0
        PROVE  LET o == tasks'[cache[y][d]]
               IN  o.binding = y /\ o.at = d /\ o.epoch = epoch[y][d]
    <3>1. cache[y][d] \in 1 .. Len(tasks)
      BY <2>1, <1>s DEF Shapes
    <3>2. LET o == tasks[cache[y][d]]
          IN  o.binding = y /\ o.at = d /\ o.epoch = epoch[y][d]
      BY <2>1 DEF ResolutionIInv, CacheMatches
    <3> QED
      BY <3>1, <3>2, <1>6
  <2> QED
    BY <2>1, <1>u DEF CacheMatches
<1>15. Findable'
  BY <1>6, <1>8, <1>s, <1>u DEF ResolutionIInv, Findable, Shapes, Cacheable
<1> QED
  BY <1>8, <1>9, <1>10, <1>11, <1>12, <1>13, <1>14, <1>15 DEF ResolutionIInv

\* The innermost task comes back: it is cached, and its value or promise goes to the task
\* that injects it or to who began the pass.
LEMMA ReturnKeeps ==
    ASSUME ResolutionIInv, Return
    PROVE  ResolutionIInv'
<1>s. TypeOK /\ Shapes
  BY Typed DEF ResolutionIInv
<1> DEFINE t == Last(thread)
           below == Front(thread)
           m == Len(thread)
           b == Top.binding
           c == Top.at
           ts == [tasks EXCEPT ![t].phase = Outcome]
<1>1. /\ thread # <<>>
      /\ cache' = IF Cacheable(b) THEN [cache EXCEPT ![b][c] = t] ELSE cache
      /\ IF below = <<>> THEN Answer(ts, t)
         ELSE /\ tasks' = [ts EXCEPT ![Last(below)].deps = Append(@, t)]
              /\ thread' = below
              /\ UNCHANGED <<origin, call, failed>>
      /\ UNCHANGED epoch
  BY DEF Return, CacheResult
<1>2. /\ m \in Nat \ {0} /\ t = thread[m] /\ t \in 1 .. Len(tasks) /\ Top = tasks[t]
      /\ c \in Contexts /\ b \in Bindings
      /\ origin \in Callers \/ (origin \in 1 .. Len(tasks) /\ tasks[origin].phase = "getting")
      /\ origin # Nobody
      /\ \A i \in 1 .. m : tasks[thread[i]].phase = "injecting"
      /\ IsInjective(thread)
  BY <1>1, TopOfPass
<1>3. /\ Len(below) = m - 1 /\ DOMAIN below = 1 .. m - 1 /\ below \in Seq(1 .. Len(tasks))
      /\ \A i \in 1 .. m - 1 : below[i] = thread[i] /\ i \in 1 .. m
      /\ (below = <<>>) = (m = 1)
  <2>1. thread \in Seq(1 .. Len(tasks)) /\ m - 1 \in Nat
    BY <1>2, <1>s DEF TypeOK
  <2>2. \A i \in 1 .. m - 1 : i \in 1 .. m
    BY <1>2
  <2>3. below = SubSeq(thread, 1, m - 1)
    BY DEF Front
  <2>4. /\ below \in Seq(1 .. Len(tasks)) /\ Len(below) = m - 1
        /\ \A i \in 1 .. m - 1 : below[i] = thread[i]
    <3>1. \A i \in 1 .. m - 1 : thread[i] \in 1 .. Len(tasks)
      BY <2>2, <1>s DEF Shapes
    <3>2. /\ SubSeq(thread, 1, m - 1) \in Seq(1 .. Len(tasks))
          /\ Len(SubSeq(thread, 1, m - 1)) = IF 1 <= m - 1 THEN m - 1 - 1 + 1 ELSE 0
          /\ \A i \in 1 .. m - 1 - 1 + 1 : SubSeq(thread, 1, m - 1)[i] = thread[1 + i - 1]
      <4>1. 1 \in Int /\ m - 1 \in Int
        BY <2>1
      <4> HIDE DEF m
      <4> QED
        BY <3>1, <4>1, SubSeqProperties
    <3> HIDE DEF m, below
    <3>3. m - 1 - 1 + 1 = m - 1 /\ \A i \in 1 .. m - 1 : 1 + i - 1 = i
      BY <2>1
    <3>4. Len(below) = m - 1
      BY <2>1, <2>3, <3>2
    <3> QED
      BY <2>3, <3>2, <3>3, <3>4
  <2> HIDE DEF below
  <2>5. (below = <<>>) = (m = 1) /\ DOMAIN below = 1 .. m - 1
    BY <2>1, <2>4
  <2> QED
    BY <2>2, <2>4, <2>5
<1>4. Outcome \in {"waiting", "value"}
  BY DEF Outcome
<1>5. /\ ts \in Seq(Task) /\ SameTasks(ts) /\ ts[t].phase = Outcome
      /\ \A u \in 1 .. Len(tasks) : u # t => ts[u] = tasks[u]
  <2>1. tasks[t].phase # "thrown"
    BY <1>2
  <2>2. ts \in Seq(Task) /\ SameTasks(ts) /\ ts[t].phase = Outcome
    <3>1. Outcome \in {"injecting", "waiting", "getting"} \cup Final
      BY <1>4 DEF Final
    <3> DEFINE p == Outcome
    <3> HIDE DEF t, p
    <3>2. /\ TypeOK /\ t \in 1 .. Len(tasks) /\ tasks[t].phase # "thrown"
          /\ p \in {"injecting", "waiting", "getting"} \cup Final
      BY <2>1, <3>1, <1>2, <1>s DEF p
    <3>3. /\ [tasks EXCEPT ![t].phase = p] \in Seq(Task)
          /\ SameTasks([tasks EXCEPT ![t].phase = p])
          /\ [tasks EXCEPT ![t].phase = p][t].phase = p
      BY <3>2, PhaseSet
    <3> QED
      BY <3>3 DEF p
  <2> QED
    BY <2>2, <1>2, <1>s DEF Shapes
<1>6. \A i \in 1 .. m - 1 : thread[i] # t
  <2>1. ASSUME NEW i \in 1 .. m - 1, thread[i] = thread[m] PROVE i = m
    <3>1. i \in DOMAIN thread /\ m \in DOMAIN thread
      BY <1>2, <1>s DEF Shapes
    <3> QED
      BY <2>1, <3>1, <1>2 DEF IsInjective
  <2> QED
    BY <2>1, <1>2
<1> HIDE DEF t, below, m, b, c, ts
<1>7. /\ tasks' \in Seq(Task) /\ Len(tasks') = Len(tasks)
      /\ \A u \in 1 .. Len(tasks) :
            /\ tasks'[u].binding = tasks[u].binding /\ tasks'[u].at = tasks[u].at
            /\ tasks'[u].path = tasks[u].path /\ tasks'[u].epoch = tasks[u].epoch
            /\ tasks'[u].phase = ts[u].phase
            /\ tasks'[u].deps = IF below # <<>> /\ u = thread[m - 1]
                                THEN Append(tasks[u].deps, t) ELSE tasks[u].deps
  <2>1. Len(ts) = Len(tasks) /\ t \in Nat
    BY <1>2, <1>5, <1>s DEF SameTasks, Shapes
  <2>2. CASE below = <<>> /\ origin \in Callers
    <3>1. tasks' = ts
      BY <2>2, <1>1 DEF Answer
    <3> QED
      BY <3>1, <2>2, <1>5 DEF SameTasks
  <2>3. CASE below = <<>> /\ origin \notin Callers
    <3>1. tasks' = [ts EXCEPT ![origin].late = t] /\ origin \in 1 .. Len(ts)
      BY <2>1, <2>3, <1>1, <1>2 DEF Answer
    <3>2. /\ tasks' \in Seq(Task) /\ Len(tasks') = Len(ts)
          /\ \A u \in 1 .. Len(ts) :
                /\ tasks'[u].binding = ts[u].binding /\ tasks'[u].at = ts[u].at
                /\ tasks'[u].path = ts[u].path /\ tasks'[u].epoch = ts[u].epoch
                /\ tasks'[u].phase = ts[u].phase /\ tasks'[u].deps = ts[u].deps
      BY <3>1, <2>1, <1>5, LateSet
    <3> QED
      BY <3>2, <2>1, <2>3, <1>5 DEF SameTasks
  <2>4. CASE below # <<>>
    <3>1. m - 1 \in 1 .. m - 1 /\ Last(below) = thread[m - 1] /\ thread[m - 1] \in 1 .. Len(tasks)
      <4>1. m - 1 \in 1 .. m - 1
        BY <2>4, <1>2, <1>3
      <4>2. Last(below) = thread[m - 1]
        BY <4>1, <1>3 DEF Last
      <4> QED
        BY <4>1, <4>2, <1>3, <1>s DEF Shapes, m
    <3> DEFINE up == thread[m - 1]
    <3>2. tasks' = Adding(ts, up, t) /\ up \in 1 .. Len(ts)
      BY <3>1, <2>1, <2>4, <1>1 DEF Adding
    <3> HIDE DEF up
    <3>3. /\ tasks' \in Seq(Task) /\ Len(tasks') = Len(ts)
          /\ tasks'[up].deps = Append(ts[up].deps, t)
          /\ \A u \in 1 .. Len(ts) : u # up => tasks'[u] = ts[u]
          /\ \A u \in 1 .. Len(ts) :
                /\ tasks'[u].binding = ts[u].binding /\ tasks'[u].at = ts[u].at
                /\ tasks'[u].path = ts[u].path /\ tasks'[u].epoch = ts[u].epoch
                /\ tasks'[u].phase = ts[u].phase
      <4>1. ts \in Seq(Task) /\ t \in Nat
        BY <2>1, <1>5
      <4> QED
        BY <3>2, <4>1, DepAdded
    <3>4. \A u \in 1 .. Len(tasks) : tasks'[u].deps =
             IF u = up THEN Append(tasks[u].deps, t) ELSE tasks[u].deps
      BY <3>3, <2>1, <1>5 DEF SameTasks
    <3> QED
      BY <3>3, <3>4, <2>1, <2>4, <1>5 DEF SameTasks, up
  <2> QED
    BY <2>2, <2>3, <2>4
<1>8. /\ thread' = below
      /\ IF below = <<>> THEN origin' = Nobody ELSE origin' = origin
      /\ call' \in [Callers -> 0 .. Len(tasks)] /\ failed' \in [Callers -> BOOLEAN]
      /\ epoch' = epoch
  <2>1. t \in 0 .. Len(tasks)
    BY <1>2, <1>s DEF Shapes
  <2> QED
    BY <2>1, <1>1, <1>s DEF Answer, TypeOK
<1>9. /\ \A x \in Bindings, d \in Contexts :
            cache'[x][d] = IF Cacheable(b) /\ x = b /\ d = c THEN t ELSE cache[x][d]
      /\ cache' \in [Bindings -> [Contexts -> 0 .. Len(tasks)]]
  <2>1. t \in 0 .. Len(tasks)
    BY <1>2, <1>s DEF Shapes
  <2>2. cache \in [Bindings -> [Contexts -> 0 .. Len(tasks)]]
    BY <1>s DEF TypeOK
  <2> QED
    BY <2>1, <2>2, <1>1, <1>2
<1>10. /\ b = tasks[t].binding /\ c = tasks[t].at /\ cache[b][c] = 0
       /\ tasks[t].epoch = epoch[b][c]
  <2>1. m \in 1 .. m /\ DOMAIN thread = 1 .. m
    BY <1>2, <1>s DEF Shapes, m
  <2>2. b = tasks[t].binding /\ c = tasks[t].at
    BY <1>2 DEF b, c
  <2> QED
    BY <2>1, <2>2, <1>2 DEF ResolutionIInv, OnPath
<1>11. SameDates
  <2>1. \A u \in 1 .. Len(tasks) : tasks[u].phase = "thrown" => ts[u].phase = "thrown"
    BY <1>5 DEF SameTasks
  <2> QED
    BY <2>1, <1>7 DEF SameDates
<1>12. OneInstance' /\ AtHome' /\ DOMAIN tasks' = 1 .. Len(tasks)
  BY <1>11, DatesKept
<1>13. DepsWithin'
  <2>1. CASE below = <<>>
    <3>1. tasks[t].at <= tasks[t].at
      BY <1>2, <1>10, ResolutionConstants DEF Contexts
    <3> QED
      BY <3>1, <2>1, <1>2, <1>7, <1>11, DepsStayWithin
  <2>2. CASE below # <<>>
    <3>1. m - 1 \in 1 .. m /\ m \in 1 .. m /\ m - 1 <= m
      BY <2>2, <1>2, <1>3
    <3>2. thread[m - 1] \in 1 .. Len(tasks)
      BY <3>1, <1>s DEF Shapes, m
    <3>3. tasks[t].at <= tasks[thread[m - 1]].at
      BY <3>1, <1>2, <1>s DEF ResolutionIInv, ThreadNests, Shapes, m
    <3> DEFINE up == thread[m - 1]
    <3>4. t \in 1 .. Len(tasks) /\ ResolutionIInv
      BY <1>2
    <3>5. \A u \in 1 .. Len(tasks) :
             tasks'[u].deps = IF u = up THEN Append(tasks[u].deps, t) ELSE tasks[u].deps
      BY <2>2, <1>7
    <3> HIDE DEF up
    <3>6. up \in 1 .. Len(tasks) /\ tasks[t].at <= tasks[up].at
      BY <3>2, <3>3 DEF up
    <3> QED
      BY <3>4, <3>5, <3>6, <1>11, DepsStayWithin
  <2> QED
    BY <2>1, <2>2
<1>14. TypeOK'
  <2>1. thread' \in Seq(1 .. Len(tasks)) /\ IsInjective(thread')
    <3>1. ASSUME NEW i \in 1 .. m - 1, NEW j \in 1 .. m - 1, below[i] = below[j]
          PROVE  i = j
      BY <3>1, <1>2, <1>3, <1>s DEF IsInjective, Shapes, m
    <3> QED
      BY <3>1, <1>3, <1>8 DEF IsInjective
  <2>2. origin' \in {Nobody} \cup Callers \cup 1 .. Len(tasks)
    BY <1>2, <1>8
  <2>3. (origin' = Nobody) = (thread' = <<>>)
    BY <1>2, <1>8
  <2>4. epoch' \in [Bindings -> [Contexts -> 0 .. MaxRefresh]]
    BY <1>8, <1>s DEF TypeOK
  <2> QED
    BY <2>1, <2>2, <2>3, <2>4, <1>7, <1>8, <1>9 DEF TypeOK
<1>15. ThreadNests'
  <2>1. ASSUME NEW i \in 1 .. m - 1, NEW j \in 1 .. m - 1, i <= j
        PROVE  tasks'[below[j]].at <= tasks'[below[i]].at
    <3>1. thread[i] \in 1 .. Len(tasks) /\ thread[j] \in 1 .. Len(tasks)
      BY <1>3, <1>s DEF Shapes, m
    <3>2. tasks[thread[j]].at <= tasks[thread[i]].at
      BY <2>1, <1>3, <1>s DEF ResolutionIInv, ThreadNests, Shapes, m
    <3> QED
      BY <3>1, <3>2, <1>3, <1>7
  <2> QED
    BY <2>1, <1>3, <1>8 DEF ThreadNests
<1>16. OnPath'
  <2>1. ASSUME NEW i \in 1 .. m - 1
        PROVE  LET o == tasks'[below[i]]
               IN  /\ o.phase = "injecting" /\ Len(o.path) = i
                   /\ \A j \in 1 .. i : o.path[j] = tasks'[below[j]].binding
                   /\ IsInjective(o.path)
                   /\ cache'[o.binding][o.at] = 0 /\ o.epoch = epoch[o.binding][o.at]
    <3> DEFINE o == tasks[thread[i]]
    <3>1. i \in DOMAIN thread /\ m \in DOMAIN thread /\ m \in 1 .. m
      BY <1>2, <1>3, <1>s DEF Shapes, m
    <3>2. /\ o.phase = "injecting" /\ Len(o.path) = i
          /\ \A j \in 1 .. i : o.path[j] = tasks[thread[j]].binding
          /\ IsInjective(o.path)
          /\ cache[o.binding][o.at] = 0 /\ o.epoch = epoch[o.binding][o.at]
      BY <3>1 DEF ResolutionIInv, OnPath
    <3>3. \A j \in 1 .. i : j \in 1 .. m - 1 /\ thread[j] \in 1 .. Len(tasks)
      BY <1>2, <1>3, <1>s DEF Shapes, m
    <3>4. i \in 1 .. i /\ below[i] = thread[i] /\ thread[i] \in 1 .. Len(tasks)
      BY <3>3, <1>3, <1>2
    <3>5. \A j \in 1 .. i : tasks'[below[j]].binding = tasks[thread[j]].binding
      BY <3>3, <1>3, <1>7
    <3>6. o.binding # b
      <4>1. /\ DOMAIN tasks[t].path = 1 .. m /\ IsInjective(tasks[t].path)
            /\ tasks[t].path[m] = tasks[t].binding
            /\ tasks[t].path[i] = o.binding
        <5>1. tasks[t].path \in Seq(Bindings)
          BY <1>2, <1>s DEF Shapes
        <5>2. /\ Len(tasks[t].path) = m /\ IsInjective(tasks[t].path)
              /\ \A j \in 1 .. m : tasks[t].path[j] = tasks[thread[j]].binding
          BY <3>1, <1>2 DEF ResolutionIInv, OnPath
        <5> QED
          BY <5>1, <5>2, <3>1, <1>2, <1>3
      <4>2. i # m /\ i \in 1 .. m
        BY <1>2, <1>3
      <4> QED
        BY <4>1, <4>2, <3>1, <1>10 DEF IsInjective
    <3>7. tasks'[below[i]].phase = "injecting"
      BY <3>2, <3>4, <1>5, <1>6, <1>7
    <3>8. cache'[o.binding][o.at] = 0
      <4>1. o.binding \in Bindings /\ o.at \in Contexts
        BY <3>4, <1>s DEF Shapes
      <4> QED
        BY <4>1, <3>2, <3>6, <1>9
    <3>9. /\ tasks'[below[i]].path = o.path /\ tasks'[below[i]].binding = o.binding
          /\ tasks'[below[i]].at = o.at /\ tasks'[below[i]].epoch = o.epoch
      BY <3>4, <1>7
    <3> QED
      BY <3>2, <3>5, <3>7, <3>8, <3>9
  <2> QED
    BY <2>1, <1>3, <1>8 DEF OnPath
<1>17. OriginGets'
  <2>1. SUFFICES ASSUME origin' \in 1 .. Len(tasks) PROVE tasks'[origin'].phase = "getting"
    BY <1>12 DEF OriginGets
  <2>2. origin' = origin
    BY <2>1, <1>8, <1>s, ResolutionConstants DEF Shapes
  <2>3. tasks[origin].phase = "getting" /\ tasks[t].phase = "injecting"
    <3>1. m \in 1 .. m
      BY <1>2
    <3>2. origin \in Nat
      BY <2>1, <2>2, <1>2
    <3>3. origin \notin Callers
      BY <3>2, ResolutionConstants
    <3> QED
      BY <3>1, <3>3, <1>2
  <2>4. origin # t
    BY <2>3
  <2> QED
    BY <2>1, <2>2, <2>3, <2>4, <1>5, <1>7
<1>18. CacheMatches'
  <2>1. ASSUME NEW x \in Bindings, NEW d \in Contexts, cache'[x][d] # 0
        PROVE  LET o == tasks'[cache'[x][d]]
               IN  o.binding = x /\ o.at = d /\ o.epoch = epoch[x][d]
    <3>1. CASE Cacheable(b) /\ x = b /\ d = c
      <4>1. cache'[x][d] = t
        BY <3>1, <1>9
      <4>2. /\ tasks'[t].binding = tasks[t].binding /\ tasks'[t].at = tasks[t].at
            /\ tasks'[t].epoch = tasks[t].epoch
        BY <1>2, <1>7
      <4> QED
        BY <3>1, <4>1, <4>2, <1>10
    <3>2. CASE ~(Cacheable(b) /\ x = b /\ d = c)
      <4>1. cache'[x][d] = cache[x][d]
        BY <3>2, <1>9
      <4>2. cache[x][d] \in 1 .. Len(tasks)
        BY <2>1, <4>1, <1>s DEF Shapes
      <4>3. LET o == tasks[cache[x][d]]
            IN  o.binding = x /\ o.at = d /\ o.epoch = epoch[x][d]
        BY <2>1, <4>1 DEF ResolutionIInv, CacheMatches
      <4> QED
        BY <4>1, <4>2, <4>3, <1>7
    <3> QED
      BY <3>1, <3>2
  <2> QED
    BY <2>1, <1>8 DEF CacheMatches
<1>19. Findable'
  <2>1. ASSUME NEW u \in 1 .. Len(tasks)
        PROVE  LET a == tasks'[u]
               IN  /\ a.epoch <= epoch[a.binding][a.at]
                   /\ Cacheable(a.binding) /\ a.phase # "thrown"
                      /\ a.epoch = epoch[a.binding][a.at]
                      => cache'[a.binding][a.at] = u \/ \E i \in 1 .. m - 1 : below[i] = u
    <3> DEFINE a == tasks[u]
    <3>1. /\ a.epoch <= epoch[a.binding][a.at]
          /\ Cacheable(a.binding) /\ a.phase # "thrown"
             /\ a.epoch = epoch[a.binding][a.at]
             => cache[a.binding][a.at] = u \/ \E i \in 1 .. m : thread[i] = u
      BY <1>s DEF ResolutionIInv, Findable, Shapes, m
    <3>2. /\ tasks'[u].binding = a.binding /\ tasks'[u].at = a.at /\ tasks'[u].epoch = a.epoch
          /\ a.phase = "thrown" => tasks'[u].phase = "thrown"
      BY <1>11 DEF SameDates
    <3>3. a.binding \in Bindings /\ a.at \in Contexts
      BY <1>s DEF Shapes
    <3>4. SUFFICES ASSUME Cacheable(a.binding), a.phase # "thrown",
                          a.epoch = epoch[a.binding][a.at]
                   PROVE  cache'[a.binding][a.at] = u \/ \E i \in 1 .. m - 1 : below[i] = u
      BY <3>1, <3>2
    <3>5. CASE u = t
      BY <3>3, <3>4, <3>5, <1>9, <1>10
    <3>6. CASE u # t /\ cache[a.binding][a.at] = u
      <4>1. u # 0
        BY <1>s DEF Shapes
      <4>2. ~(a.binding = b /\ a.at = c)
        BY <3>6, <4>1, <1>10
      <4> QED
        BY <4>2, <3>3, <3>6, <1>9
    <3>7. CASE u # t /\ \E i \in 1 .. m : thread[i] = u
      <4>1. PICK i \in 1 .. m : thread[i] = u
        BY <3>7
      <4>2. i \in 1 .. m - 1
        BY <3>7, <4>1, <1>2
      <4> QED
        BY <4>1, <4>2, <1>3
    <3> QED
      BY <3>1, <3>4, <3>5, <3>6, <3>7
  <2> QED
    BY <2>1, <1>3, <1>8, <1>12 DEF Findable, Cacheable
<1> QED
  BY <1>12, <1>13, <1>14, <1>15, <1>16, <1>17, <1>18, <1>19 DEF ResolutionIInv

-----------------------------------------------------------------------------
(* Between two passes *)

\* Without a pass nobody has begun one.
LEMMA NoOrigin ==
    ASSUME TypeOK, Free
    PROVE  origin = Nobody /\ thread = <<>> /\ Len(thread) = 0
BY DEF TypeOK, Free

\* A task that waits may take another phase.
LEMMA SettleKeeps ==
    ASSUME ResolutionIInv, Free, NEW t \in 1 .. Len(tasks),
           tasks[t].phase \in {"waiting", "getting"},
           NEW p \in {"fulfilled", "rejected"},
           tasks' = [tasks EXCEPT ![t].phase = p],
           UNCHANGED <<cache, thread, origin, call, failed, epoch>>
    PROVE  ResolutionIInv'
<1>1. TypeOK /\ tasks[t].phase # "thrown" /\ p \in {"injecting", "waiting", "getting"} \cup Final
  BY DEF ResolutionIInv, Final
<1>2. SameTasks(tasks') /\ tasks' \in Seq(Task)
  BY <1>1, PhaseSet
<1>3. /\ thread' = <<>> /\ origin' = Nobody
      /\ \A i \in 1 .. Len(thread) : tasks'[thread[i]].phase = "thrown"
  BY <1>1, NoOrigin
<1>4. call' \in [Callers -> 0 .. Len(tasks)] /\ failed' \in [Callers -> BOOLEAN]
  BY <1>1 DEF TypeOK
<1> QED
  BY <1>2, <1>3, <1>4, PhasesOnly

\* A pass begins, is answered from the cache, or fails at once.
LEMMA StartKeeps ==
    ASSUME ResolutionIInv, Free, NEW who, NEW k, NEW c \in Contexts,
           who \in Callers \/ (who \in 1 .. Len(tasks) /\ tasks[who].phase = "waiting"),
           Start(who, k, c), UNCHANGED <<cache, epoch>>
    PROVE  ResolutionIInv'
<1>s. TypeOK /\ Shapes
  BY Typed DEF ResolutionIInv
<1>1. origin = Nobody /\ thread = <<>> /\ Len(thread) = 0
  BY <1>s, NoOrigin
<1>2. /\ tasks \in Seq(Task) /\ SameTasks(tasks)
      /\ call \in [Callers -> 0 .. Len(tasks)] /\ failed \in [Callers -> BOOLEAN]
  BY <1>s DEF TypeOK, SameTasks
<1>3. ASSUME who \notin Callers
      PROVE  who \in 1 .. Len(tasks) /\ tasks[who].phase # "thrown"
  BY <1>3
<1>p. {"rejected", "getting"} \subseteq {"injecting", "waiting", "getting"} \cup Final
  BY DEF Final
<1>4. CASE /\ IF who \in Callers
              THEN failed' = [failed EXCEPT ![who] = TRUE] /\ UNCHANGED tasks
              ELSE tasks' = [tasks EXCEPT ![who].phase = "rejected"] /\ UNCHANGED failed
           /\ UNCHANGED <<thread, origin, call>>
  <2>1. SameTasks(tasks') /\ tasks' \in Seq(Task)
    <3>1. CASE who \in Callers
      <4>1. tasks' = tasks
        BY <1>4, <3>1
      <4> QED
        BY <4>1, <1>2
    <3>2. CASE who \notin Callers
      <4>1. tasks' = [tasks EXCEPT ![who].phase = "rejected"]
        BY <1>4, <3>2
      <4> QED
        BY <4>1, <3>2, <1>3, <1>p, <1>s, PhaseSet
    <3> QED
      BY <3>1, <3>2
  <2>2. call' \in [Callers -> 0 .. Len(tasks)] /\ failed' \in [Callers -> BOOLEAN]
    BY <1>2, <1>4
  <2>3. thread' = <<>> /\ origin' = Nobody /\ 1 .. Len(thread) = {}
    BY <1>1, <1>4
  <2> QED
    BY <2>1, <2>2, <2>3, PhasesOnly
<1>5. ASSUME NEW b \in Lookup(k, c), Resolvable(b, c),
             LET hit == cache[b][ResolutionContext(b, c)]
             IN  /\ hit # 0
                 /\ IF who \in Callers
                    THEN call' = [call EXCEPT ![who] = hit] /\ UNCHANGED tasks
                    ELSE /\ tasks' = [tasks EXCEPT ![who].late = hit,
                                                   ![who].phase = "getting"]
                         /\ UNCHANGED call
                 /\ UNCHANGED <<thread, origin, failed>>
      PROVE  ResolutionIInv'
  <2> DEFINE hit == cache[b][ResolutionContext(b, c)]
  <2>1. hit \in 0 .. Len(tasks) /\ hit \in Nat
    <3>1. b \in Bindings /\ ResolutionContext(b, c) \in Contexts
      BY <1>5, ResolvedContext
    <3> QED
      BY <3>1, <1>s DEF Shapes
  <2>u. /\ IF who \in Callers
           THEN call' = [call EXCEPT ![who] = hit] /\ UNCHANGED tasks
           ELSE /\ tasks' = [tasks EXCEPT ![who].late = hit, ![who].phase = "getting"]
                /\ UNCHANGED call
        /\ UNCHANGED <<thread, origin, failed>>
    BY <1>5
  <2> HIDE DEF hit
  <2>2. SameTasks(tasks') /\ tasks' \in Seq(Task)
    <3>1. CASE who \in Callers
      <4>1. tasks' = tasks
        BY <2>u, <3>1
      <4> QED
        BY <4>1, <1>2
    <3>2. CASE who \notin Callers
      <4>1. tasks' = [tasks EXCEPT ![who].late = hit, ![who].phase = "getting"]
        BY <2>u, <3>2
      <4>2. /\ [tasks EXCEPT ![who].late = hit, ![who].phase = "getting"] \in Seq(Task)
            /\ SameTasks([tasks EXCEPT ![who].late = hit, ![who].phase = "getting"])
        BY <2>1, <3>2, <1>3, <1>p, <1>s, PhaseSet
      <4> QED
        BY <4>1, <4>2
    <3> QED
      BY <3>1, <3>2
  <2>3. call' \in [Callers -> 0 .. Len(tasks)] /\ failed' \in [Callers -> BOOLEAN]
    BY <1>2, <2>1, <2>u
  <2>4. thread' = <<>> /\ origin' = Nobody /\ 1 .. Len(thread) = {}
    BY <1>1, <2>u
  <2> QED
    BY <2>2, <2>3, <2>4, PhasesOnly
<1>6. ASSUME NEW b \in Lookup(k, c), Resolvable(b, c),
             cache[b][ResolutionContext(b, c)] = 0,
             tasks' = Append(IF who \in Callers THEN tasks
                             ELSE [tasks EXCEPT ![who].phase = "getting"],
                             New(b, c, <<>>)),
             thread' = <<Len(tasks) + 1>>, origin' = who, UNCHANGED <<call, failed>>
      PROVE  ResolutionIInv'
  <2> DEFINE ts == IF who \in Callers THEN tasks
                   ELSE [tasks EXCEPT ![who].phase = "getting"]
  <2>1. /\ ts \in Seq(Task) /\ SameTasks(ts)
        /\ who \notin Callers => ts[who].phase = "getting"
    <3>1. CASE who \in Callers
      BY <3>1, <1>2
    <3>2. CASE who \notin Callers
      <4>1. ts = [tasks EXCEPT ![who].phase = "getting"]
        BY <3>2
      <4> HIDE DEF ts
      <4> QED
        BY <4>1, <3>2, <1>3, <1>p, <1>s, PhaseSet
    <3> QED
      BY <3>1, <3>2
  <2>2. tasks' = Append(ts, New(b, c, <<>>))
    BY <1>6
  <2> HIDE DEF ts
  <2>3. PathFits(ts, <<>>, b, c) /\ <<>> \in Seq(Bindings)
    BY <1>1 DEF PathFits, IsInjective
  <2>4. Joins(ts, New(b, c, <<>>))
    <3>1. thread' = Append(thread, Len(tasks) + 1)
      BY <1>1, <1>6
    <3> QED
      BY <3>1, <2>1, <2>2, <1>2, <1>3, <1>6 DEF Joins
  <2> QED
    BY <2>1, <2>3, <2>4, <1>6, JoinsPath
<1> QED
  BY <1>4, <1>5, <1>6 DEF Start

\* refresh() drops an entry: nobody is on the way to it, and what was made for it is dated.
LEMMA RefreshKeeps ==
    ASSUME ResolutionIInv, NEW b \in Bindings, NEW c \in Contexts, Refresh(b, c)
    PROVE  ResolutionIInv'
<1>s. TypeOK /\ Shapes
  BY Typed DEF ResolutionIInv
<1> DEFINE rc == ResolutionContext(b, c)
<1>1. /\ rc # 0 /\ epoch[b][rc] < MaxRefresh /\ Free
      /\ cache' = [cache EXCEPT ![b][rc] = 0]
      /\ epoch' = [epoch EXCEPT ![b][rc] = @ + 1]
      /\ UNCHANGED <<tasks, thread, origin, call, failed>>
  BY DEF Refresh
<1>2. rc \in Contexts
  <2>1. rc \in 0 .. Depth
    BY ContextInChain
  <2> QED
    BY <2>1, <1>1, ResolutionConstants DEF Contexts
<1> HIDE DEF rc
<1>3. origin = Nobody /\ thread = <<>> /\ Len(thread) = 0
  BY <1>s, <1>1, NoOrigin
<1>4. /\ cache \in [Bindings -> [Contexts -> 0 .. Len(tasks)]]
      /\ epoch \in [Bindings -> [Contexts -> 0 .. MaxRefresh]] /\ MaxRefresh \in Nat
  BY <1>s, ResolutionConstants DEF TypeOK
<1>5. /\ cache' \in [Bindings -> [Contexts -> 0 .. Len(tasks)]]
      /\ \A x \in Bindings, d \in Contexts :
            cache'[x][d] = IF x = b /\ d = rc THEN 0 ELSE cache[x][d]
  <2>1. 0 \in 0 .. Len(tasks)
    BY <1>s DEF Shapes
  <2> QED
    BY <2>1, <1>1, <1>2, <1>4
<1>6. /\ epoch' \in [Bindings -> [Contexts -> 0 .. MaxRefresh]]
      /\ \A x \in Bindings, d \in Contexts :
            epoch'[x][d] = IF x = b /\ d = rc THEN epoch[b][rc] + 1 ELSE epoch[x][d]
  <2>1. epoch[b][rc] + 1 \in 0 .. MaxRefresh
    BY <1>1, <1>2, <1>4
  <2> QED
    BY <2>1, <1>1, <1>2, <1>4
<1>7. TypeOK'
  BY <1>s, <1>1, <1>5, <1>6 DEF TypeOK
<1>8. OneInstance' /\ AtHome' /\ DepsWithin' /\ OriginGets' /\ ThreadNests'
  BY <1>1 DEF ResolutionIInv, OneInstance, AtHome, DepsWithin, OriginGets, ThreadNests, Cacheable
<1>9. OnPath'
  BY <1>1, <1>3 DEF OnPath
<1>10. CacheMatches'
  <2>1. SUFFICES ASSUME NEW x \in Bindings, NEW d \in Contexts, cache'[x][d] # 0
                 PROVE  LET t == tasks[cache'[x][d]]
                        IN  t.binding = x /\ t.at = d /\ t.epoch = epoch'[x][d]
    BY <1>1 DEF CacheMatches
  <2>2. cache'[x][d] = cache[x][d] /\ epoch'[x][d] = epoch[x][d]
    BY <2>1, <1>5, <1>6
  <2>3. LET t == tasks[cache[x][d]]
        IN  t.binding = x /\ t.at = d /\ t.epoch = epoch[x][d]
    BY <2>1, <2>2 DEF ResolutionIInv, CacheMatches
  <2> QED
    BY <2>2, <2>3
<1>11. Findable'
  <2>1. ASSUME NEW t \in 1 .. Len(tasks)
        PROVE  LET a == tasks[t]
               IN  /\ a.epoch <= epoch'[a.binding][a.at]
                   /\ Cacheable(a.binding) /\ a.phase # "thrown"
                      /\ a.epoch = epoch'[a.binding][a.at]
                      => cache'[a.binding][a.at] = t
    <3> DEFINE a == tasks[t]
    <3>1. /\ a.epoch <= epoch[a.binding][a.at]
          /\ Cacheable(a.binding) /\ a.phase # "thrown" /\ a.epoch = epoch[a.binding][a.at]
             => cache[a.binding][a.at] = t
      BY <1>3, <1>s DEF ResolutionIInv, Findable, Shapes
    <3>2. /\ a.binding \in Bindings /\ a.at \in Contexts /\ a.epoch \in Nat
          /\ epoch[a.binding][a.at] \in Nat
      BY <1>s DEF Shapes
    <3> HIDE DEF a
    <3>3. CASE a.binding = b /\ a.at = rc
      <4>1. epoch'[a.binding][a.at] = epoch[a.binding][a.at] + 1
        BY <3>2, <3>3, <1>6
      <4>2. a.epoch <= epoch'[a.binding][a.at] /\ a.epoch # epoch'[a.binding][a.at]
        BY <4>1, <3>1, <3>2
      <4> QED
        BY <4>2 DEF a
    <3>4. CASE ~(a.binding = b /\ a.at = rc)
      <4>1. /\ epoch'[a.binding][a.at] = epoch[a.binding][a.at]
            /\ cache'[a.binding][a.at] = cache[a.binding][a.at]
        BY <3>2, <3>4, <1>5, <1>6
      <4> QED
        BY <4>1, <3>1 DEF a
    <3> QED
      BY <3>3, <3>4 DEF a
  <2> QED
    BY <2>1, <1>1, <1>s DEF Findable, Cacheable, Shapes
<1> QED
  BY <1>7, <1>8, <1>9, <1>10, <1>11 DEF ResolutionIInv

-----------------------------------------------------------------------------
(* The specification *)

\* At the beginning there is nothing to disturb.
LEMMA InitKeeps == Init => ResolutionIInv
<1> SUFFICES ASSUME Init PROVE ResolutionIInv
  OBVIOUS
<1>1. /\ tasks = <<>> /\ thread = <<>> /\ origin = Nobody
      /\ \A b \in Bindings, c \in Contexts : cache[b][c] = 0
      /\ DOMAIN tasks = {} /\ DOMAIN thread = {} /\ Len(tasks) = 0
  BY DEF Init
<1>2. TypeOK
  BY <1>1, ResolutionConstants DEF Init, TypeOK, IsInjective
<1>3. OneInstance /\ AtHome /\ DepsWithin /\ ThreadNests /\ OnPath /\ OriginGets /\ Findable
  BY <1>1 DEF OneInstance, AtHome, DepsWithin, ThreadNests, OnPath, OriginGets, Findable
<1>4. CacheMatches
  BY <1>1 DEF CacheMatches
<1> QED
  BY <1>2, <1>3, <1>4 DEF ResolutionIInv

\* Every step preserves the invariant.
LEMMA NextKeeps == ResolutionIInv /\ [Next]_vars => ResolutionIInv'
<1> SUFFICES ASSUME ResolutionIInv, [Next]_vars PROVE ResolutionIInv'
  OBVIOUS
<1>s. TypeOK /\ Shapes
  BY Typed DEF ResolutionIInv
<1>1. CASE InjectFails
  <2>1. thread # <<>> /\ Throw
    BY <1>1 DEF InjectFails, Injecting
  <2> QED
    BY <2>1, ThrowKeeps
<1>2. CASE InjectCached
  BY <1>2, InjectCachedKeeps
<1>3. CASE InjectNew
  BY <1>3, InjectNewKeeps
<1>4. CASE Return
  BY <1>4, ReturnKeeps
<1>5. CASE ReturnThrows
  <2>1. thread # <<>> /\ Throw
    BY <1>5 DEF ReturnThrows
  <2> QED
    BY <2>1, ThrowKeeps
<1>6. ASSUME NEW t \in DOMAIN tasks, CallGetter(t)
      PROVE  ResolutionIInv'
  <2>1. t \in 1 .. Len(tasks) /\ tasks[t].at \in Contexts
    BY <1>s DEF Shapes
  <2>2. /\ Free /\ tasks[t].phase = "waiting" /\ UNCHANGED <<cache, epoch>>
        /\ Start(t, Head(Awaits[tasks[t].binding]), tasks[t].at)
    BY <1>6 DEF CallGetter, Ready
  <2> QED
    BY <2>1, <2>2, StartKeeps
<1>7. ASSUME NEW t \in DOMAIN tasks, Fulfil(t)
      PROVE  ResolutionIInv'
  <2>1. t \in 1 .. Len(tasks)
    BY <1>s DEF Shapes
  <2>2. tasks[t].phase \in {"waiting", "getting"}
    BY <1>7 DEF Fulfil, Complete, Ready
  <2> QED
    BY <2>1, <2>2, <1>7, SettleKeeps DEF Fulfil
<1>8. ASSUME NEW t \in DOMAIN tasks, Reject(t)
      PROVE  ResolutionIInv'
  <2>1. t \in 1 .. Len(tasks)
    BY <1>s DEF Shapes
  <2>2. tasks[t].phase \in {"waiting", "getting"}
    BY <1>8 DEF Reject, Spoiled, Complete, Ready
  <2> QED
    BY <2>1, <2>2, <1>8, SettleKeeps DEF Reject
<1>9. ASSUME NEW k \in Callers, NEW key \in Keys, NEW c \in Contexts, Get(k, key, c)
      PROVE  ResolutionIInv'
  BY <1>9, StartKeeps DEF Get
<1>10. ASSUME NEW k \in Callers, Leave(k)
       PROVE  ResolutionIInv'
  <2>1. tasks' \in Seq(Task) /\ SameTasks(tasks')
    BY <1>10, <1>s DEF Leave, TypeOK, SameTasks
  <2>2. call' \in [Callers -> 0 .. Len(tasks)] /\ failed' \in [Callers -> BOOLEAN]
    <3>1. 0 \in 0 .. Len(tasks)
      BY <1>s DEF Shapes
    <3> QED
      BY <3>1, <1>10, <1>s DEF Leave, TypeOK
  <2>3. /\ thread' = <<>> /\ origin' = Nobody /\ 1 .. Len(thread) = {}
        /\ UNCHANGED <<cache, epoch>>
    BY <1>10, <1>s, NoOrigin DEF Leave
  <2> QED
    BY <2>1, <2>2, <2>3, PhasesOnly
<1>11. ASSUME NEW b \in Refreshed, NEW c \in Contexts, Refresh(b, c)
       PROVE  ResolutionIInv'
  <2>1. b \in Bindings
    BY ResolutionConstants
  <2> QED
    BY <2>1, <1>11, RefreshKeeps
<1>12. CASE UNCHANGED vars
  BY <1>12 DEF vars, ResolutionIInv, TypeOK, OneInstance, AtHome, DepsWithin, ThreadNests,
               OnPath, OriginGets, CacheMatches, Findable, Cacheable
<1> QED
  BY <1>1, <1>2, <1>3, <1>4, <1>5, <1>6, <1>7, <1>8, <1>9, <1>10, <1>11, <1>12
     DEF Next, Pass, Settle

\* The tasks, the cache, the session and the dates of refreshes agree in every state.
THEOREM Invariance == Spec => []ResolutionIInv
<1>1. Init => ResolutionIInv
  BY InitKeeps
<1>2. ResolutionIInv /\ [Next]_vars => ResolutionIInv'
  BY NextKeeps
<1> QED
  BY <1>1, <1>2, PTL DEF Spec

\* However resolutions overlap, fail or are refreshed: one instance for a scope, none from
\* before a refresh(), and sessions that find every circle (binding.ts,
\* resolution-session.ts).
THEOREM CacheAndSessionsHold == Spec => []ResolutionInv
<1>1. ResolutionIInv => ResolutionInv
  <2> SUFFICES ASSUME ResolutionIInv PROVE ResolutionInv
    OBVIOUS
  <2>s. TypeOK /\ Shapes
    BY Typed DEF ResolutionIInv
  <2>1. RefreshHolds
    BY DEF ResolutionIInv, CacheMatches, RefreshHolds
  <2>2. SessionIsPath
    <3>1. SUFFICES ASSUME NEW i \in 1 .. Len(thread)
                   PROVE  LET t == tasks[thread[i]]
                          IN  /\ t.path = [j \in 1 .. i |-> tasks[thread[j]].binding]
                              /\ IsInjective(t.path)
                              /\ cache[t.binding][t.at] = 0
      BY <2>s DEF SessionIsPath, Shapes
    <3> DEFINE t == tasks[thread[i]]
    <3>2. /\ Len(t.path) = i /\ \A j \in 1 .. i : t.path[j] = tasks[thread[j]].binding
          /\ IsInjective(t.path) /\ cache[t.binding][t.at] = 0
      BY <2>s DEF ResolutionIInv, OnPath, Shapes
    <3>3. t.path \in Seq(Bindings)
      BY <2>s DEF Shapes
    <3> HIDE DEF t
    <3>4. t.path = [j \in 1 .. i |-> t.path[j]]
      BY <3>2, <3>3
    <3>5. t.path = [j \in 1 .. i |-> tasks[thread[j]].binding]
      BY <3>2, <3>4
    <3> QED
      BY <3>2, <3>5 DEF t
  <2> QED
    BY <2>s, <2>1, <2>2 DEF ResolutionIInv, ResolutionInv
<1> QED
  BY <1>1, Invariance, PTL

\* Whatever bindings inject and wherever they are asked for, nothing outlives what it
\* depends on (resolveContext() in resolver.ts).
THEOREM NothingIsCaptive == Spec => []NoCaptiveDependency
<1>1. ResolutionIInv => NoCaptiveDependency
  <2> SUFFICES ASSUME ResolutionIInv PROVE NoCaptiveDependency
    OBVIOUS
  <2>s. Shapes
    BY Typed DEF ResolutionIInv
  <2>1. SUFFICES ASSUME NEW t \in 1 .. Len(tasks), NEW i \in DOMAIN tasks[t].deps
                 PROVE  LET a == tasks[t]
                            d == tasks[a.deps[i]]
                            home == IF ScopeOf[a.binding] = "singleton"
                                    THEN OwnerOf[a.binding] ELSE a.at
                        IN  d.at <= home /\ OwnerOf[d.binding] <= home
    BY <2>s DEF NoCaptiveDependency, Shapes
  <2> DEFINE a == tasks[t]
             d == tasks[a.deps[i]]
  <2>2. a.deps[i] \in 1 .. Len(tasks) /\ d.at <= a.at
    BY <2>s DEF ResolutionIInv, DepsWithin, Shapes
  <2>3. /\ ScopeOf[a.binding] = "singleton" => a.at = OwnerOf[a.binding]
        /\ OwnerOf[d.binding] <= d.at
    BY <2>2, <2>s DEF ResolutionIInv, AtHome, Shapes
  <2>4. d.at \in Nat /\ a.at \in Nat /\ OwnerOf[d.binding] \in Nat
    <3>1. d.at \in Contexts /\ a.at \in Contexts /\ OwnerOf[d.binding] \in Contexts
      BY <2>2, <2>s, ResolutionConstants DEF Shapes
    <3> QED
      BY SMTT(30), <3>1, ResolutionConstants DEF Contexts
  <2> HIDE DEF a, d
  <2>5. OwnerOf[d.binding] <= a.at
    BY <2>2, <2>3, <2>4
  <2> QED
    BY <2>2, <2>3, <2>5 DEF a, d
<1> QED
  BY <1>1, Invariance, PTL
=============================================================================

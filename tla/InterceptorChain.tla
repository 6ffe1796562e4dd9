--------------------------- MODULE InterceptorChain ---------------------------
(***************************************************************************)
(* GenericInterceptorChain (packages/context/src/interceptor-chain.ts) and *)
(* its two uses: a method with its interceptors (interceptor.ts), where    *)
(* the target method is the last interceptor and the InvocationContext is  *)
(* closed at the end, and a chain discovered by a view, such as that of a  *)
(* middleware sequence, where the target is the final handler.             *)
(*                                                                         *)
(* What the interceptors do is up to them: they may answer without calling *)
(* next(), pass on what it returns, throw, call it once more when it fails *)
(* or call it twice and wait for neither.  A call of next() and all that   *)
(* it leads to is a record in calls[i]; call 1 is that of the chain.       *)
(***************************************************************************)
EXTENDS Naturals, Sequences, FiniteSets

CONSTANTS
    Invocations,   \* the invocations
    Methods,       \* those of them that invoke a method
    Interceptors,  \* the bindings of interceptors
    Changing,      \* bound: those that are bound and unbound meanwhile
    Rank,          \* Rank[x]: where the comparator puts x
    Local,         \* the interceptor functions given with @intercept
    Style,         \* Style[x]: how x calls next()
    Slow,          \* the interceptors whose providers are asynchronous
    Flawed,        \* what may throw
    Target         \* the target method or the final handler

Steps == Interceptors \cup {Local[p] : p \in DOMAIN Local}

ASSUME ChainConstants ==
    /\ Methods \subseteq Invocations
    /\ IsFiniteSet(Interceptors) /\ Changing \subseteq Interceptors
    /\ Rank \in [Interceptors -> Nat]
    /\ Local \in Seq({Local[p] : p \in DOMAIN Local})
    /\ Style \in [Steps -> {"once", "retry", "fork"}]
    /\ Slow \subseteq Interceptors
    /\ Target \notin Steps

VARIABLES
    registered,  \* the interceptors bound in the context
    cached,      \* the bindings the view keeps, if it does
    notified,    \* is a notification on its way to the view?
    chain,       \* chain[i]: the interceptors of invocation i
    index,       \* index[i]: _index of its InterceptorChainState
    calls,       \* calls[i]: its calls of next(), in the order they were made
    closed       \* the methods whose InvocationContext is closed

vars == <<registered, cached, notified, chain, index, calls, closed>>

Ended == {"returned", "failed"}
Call == [at : Nat \ {0}, by : Nat, phase : {"loading", "running"} \cup Ended,
         value : {"none", "own", "target", "undefined"}]

TypeOK ==
    /\ registered \subseteq Interceptors
    /\ cached \in Seq(Seq(Interceptors)) /\ notified \in BOOLEAN
    /\ chain \in [Invocations -> Seq(Steps \cup {Target})]
    /\ index \in [Invocations -> Nat]
    /\ calls \in [Invocations -> Seq(Call)]
    /\ closed \subseteq Methods

Init ==
    /\ registered = Interceptors
    /\ cached = <<>>
    /\ notified = FALSE
    /\ chain = [i \in Invocations |-> <<>>]
    /\ index = [i \in Invocations |-> 0]
    /\ calls = [i \in Invocations |-> <<>>]
    /\ closed = {}

-----------------------------------------------------------------------------
\* The bindings in the order of the comparator.
Sorted(S) ==
    {s \in UNION {[1 .. n -> S] : n \in 0 .. Cardinality(Interceptors)} :
        /\ \A x \in S : \E p \in DOMAIN s : s[p] = x
        /\ \A p, q \in DOMAIN s : p < q => Rank[s[p]] < Rank[s[q]]}

Settled(i, g) == calls[i][g].phase \in Ended
Finished(i) == calls[i] # <<>> /\ Settled(i, 1)
Made(i, f) == {g \in DOMAIN calls[i] : calls[i][g].by = f}
IsTarget(i, g) ==
    LET at == calls[i][g].at
    IN  IF i \in Methods THEN at <= Len(chain[i]) /\ chain[i][at] = Target
        ELSE at > Len(chain[i])

\* The private next(): the final handler when the chain is done, otherwise
\* the interceptor at the index, which must still be bound to be loaded. The
\* final handler of a method returns undefined.
Started(i, c, k, by) ==
    LET begin(phase, value) == [at |-> k + 1, by |-> by, phase |-> phase, value |-> value]
    IN  IF k = Len(c)
        THEN IF i \in Methods THEN begin("returned", "undefined")
             ELSE begin("running", "none")
        ELSE IF c[k + 1] \in Interceptors \ registered THEN begin("failed", "none")
        ELSE IF c[k + 1] \in Slow THEN begin("loading", "none")
        ELSE begin("running", "none")

\* Fault: next() is bound to its caller instead of the state.
IndexOfCaller(i, g) == calls[i][g].at

\* Where a call of next() by call g goes on.
IndexFor(i, g) == index[i]

Advance(c, k) == IF k = Len(c) THEN k ELSE k + 1

\* Fault: the target method is not in the chain.
MethodChainWithoutTarget(s) == s \o Local

\* loadInterceptors() puts the global interceptors first, and the target
\* method is pushed after the others.
MethodChain(s) == s \o Local \o <<Target>>

Begin(i, c) ==
    /\ chain' = [chain EXCEPT ![i] = c]
    /\ index' = [index EXCEPT ![i] = Advance(c, 0)]
    /\ calls' = [calls EXCEPT ![i] = <<Started(i, c, 0, 0)>>]

\* invokeMethodWithInterceptors(): the interceptors are looked up anew.
InvokeMethod(i) ==
    /\ i \in Methods /\ calls[i] = <<>>
    /\ \E s \in Sorted(registered) : Begin(i, MethodChain(s))
    /\ UNCHANGED <<registered, cached, notified, closed>>

\* invokeInterceptors(): they are those of the view, unbound or not.
InvokeInterceptors(i) ==
    /\ i \in Invocations \ Methods /\ calls[i] = <<>>
    /\ \E s \in Sorted(registered) \cup {cached[p] : p \in DOMAIN cached} :
          /\ cached # <<>> => s = cached[1]
          /\ cached' = <<s>>
          /\ Begin(i, s)
    /\ UNCHANGED <<registered, notified, closed>>

\* The promise of loadInterceptor() is settled.
Load(i, g) ==
    /\ calls[i][g].phase = "loading"
    /\ \E phase \in {"running"} \cup (IF chain[i][calls[i][g].at] \in Flawed
                                      THEN {"failed"} ELSE {}) :
          calls' = [calls EXCEPT ![i][g].phase = phase]
    /\ UNCHANGED <<registered, cached, notified, chain, index, closed>>

Interceptor(i, g) ==
    /\ calls[i][g].phase = "running"
    /\ calls[i][g].at <= Len(chain[i]) /\ chain[i][calls[i][g].at] # Target

StyleOf(i, g) == Style[chain[i][calls[i][g].at]]

\* An interceptor calls next().
CallNext(i, g) ==
    /\ Interceptor(i, g)
    /\ LET made == Made(i, g)
       IN  \/ made = {}
           \/ StyleOf(i, g) = "retry" /\ Cardinality(made) = 1
                /\ \A h \in made : calls[i][h].phase = "failed"
           \/ StyleOf(i, g) = "fork" /\ Cardinality(made) = 1
    /\ calls' = [calls EXCEPT ![i] = Append(@, Started(i, chain[i], IndexFor(i, g), g))]
    /\ index' = [index EXCEPT ![i] = Advance(chain[i], IndexFor(i, g))]
    /\ UNCHANGED <<registered, cached, notified, chain, closed>>

EndAs(i, g, phase, value) ==
    /\ calls' = [calls EXCEPT ![i][g].phase = phase, ![i][g].value = value]
    /\ UNCHANGED <<registered, cached, notified, chain, index, closed>>

\* It answers by itself, instead of calling next() or waiting for it.
Answer(i, g) ==
    /\ Interceptor(i, g)
    /\ Made(i, g) = {} \/ StyleOf(i, g) = "fork"
    /\ EndAs(i, g, "returned", "own")

\* It returns or throws what the last of its calls did.
PassOn(i, g) ==
    /\ Interceptor(i, g)
    /\ \E h \in Made(i, g) :
          /\ \A o \in Made(i, g) : o <= h
          /\ Settled(i, h)
          /\ EndAs(i, g, calls[i][h].phase, calls[i][h].value)

Throw(i, g) ==
    /\ Interceptor(i, g) /\ chain[i][calls[i][g].at] \in Flawed
    /\ \A h \in Made(i, g) : Settled(i, h)
    /\ EndAs(i, g, "failed", "none")

\* The target method or the final handler is done.
RunTarget(i, g) ==
    /\ calls[i][g].phase = "running" /\ IsTarget(i, g)
    /\ \/ EndAs(i, g, "returned", "target")
       \/ Target \in Flawed /\ EndAs(i, g, "failed", "none")

CloseWhen(i, ready) ==
    /\ i \notin closed /\ ready
    /\ closed' = closed \cup {i}
    /\ UNCHANGED <<registered, cached, notified, chain, index, calls>>

\* Fault: the context is closed as soon as there is a promise.
CloseAtOnce(i) == CloseWhen(i, i \in Methods /\ calls[i] # <<>>)

\* Fault: it is not closed after an error.
CloseIfReturned(i) ==
    CloseWhen(i, i \in Methods /\ Finished(i) /\ calls[i][1].phase = "returned")

\* tryWithFinally(): the InvocationContext is closed.
Close(i) == CloseWhen(i, i \in Methods /\ Finished(i))

\* An interceptor is bound or unbound; the view hears of it later.
Bind(x) ==
    /\ registered' \in {registered \cup {x}, registered \ {x}} \ {registered}
    /\ notified' = TRUE
    /\ UNCHANGED <<cached, chain, index, calls, closed>>

Notify ==
    /\ notified
    /\ notified' = FALSE
    /\ cached' = <<>>
    /\ UNCHANGED <<registered, chain, index, calls, closed>>

\* What a call of next() can do.
CallStep(i, g) ==
    \/ Load(i, g) \/ CallNext(i, g) \/ Answer(i, g)
    \/ PassOn(i, g) \/ Throw(i, g) \/ RunTarget(i, g)

Next ==
    \/ \E i \in Invocations :
          \/ InvokeMethod(i) \/ InvokeInterceptors(i) \/ Close(i)
          \/ \E g \in DOMAIN calls[i] : CallStep(i, g)
    \/ \E x \in Changing : Bind(x)
    \/ Notify

Spec == Init /\ [][Next]_vars

\* Every interceptor and target settles in the end.
FairSpec == Spec /\ \A i \in Invocations :
    WF_vars(Close(i) \/ \E g \in DOMAIN calls[i] : CallStep(i, g))

-----------------------------------------------------------------------------
\* Whatever the interceptors do with next(), none of them runs twice in an
\* invocation and none is passed over: call n of next() starts the n-th of the
\* chain, and those after the last run the final handler ("a state for each invocation to
\* provide isolation").
EachOnceInOrder ==
    \A i \in Invocations : \A g \in DOMAIN calls[i] :
        calls[i][g].at = IF g <= Len(chain[i]) THEN g ELSE Len(chain[i]) + 1

\* A method runs at most once in an invocation, although an interceptor may
\* call next() again: that call finds the chain done.
MethodOnce ==
    \A i \in Methods : \A g, h \in DOMAIN calls[i] :
        IsTarget(i, g) /\ IsTarget(i, h) => g = h

\* An invocation runs its chain in order, and each of it, and its method, once.
RunsOnce == TypeOK /\ EachOnceInOrder /\ MethodOnce

\* What a second call of next() may return is undefined without an error, as
\* if the method had returned it; a first call never does.
SecondCall(i) ==
    \E g, h \in DOMAIN calls[i] : g < h /\ calls[i][g].by = calls[i][h].by
UndefinedFromSecondCall ==
    \A i \in Methods : \A g \in DOMAIN calls[i] :
        calls[i][g].value = "undefined" => SecondCall(i)

\* The context of an invocation is closed when nothing of it runs any more,
\* unless an interceptor did not wait for next().
Waits(i) == \A p \in DOMAIN chain[i] :
    chain[i][p] # Target => Style[chain[i][p]] # "fork"
ClosedAfterCalls ==
    \A i \in closed : Waits(i) => \A g \in DOMAIN calls[i] : Settled(i, g)

\* A chain of interceptors that settle settles, and its context is closed.
InvocationSettles ==
    \A i \in Invocations :
        (calls[i] # <<>>) ~> (Finished(i) /\ (i \in Methods => i \in closed))
=============================================================================

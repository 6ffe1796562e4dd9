------------------------------ MODULE AppLifecycle ------------------------------
(***************************************************************************)
(* The life cycle of an Application of @loopback/core, with the boot()     *)
(* that BootMixin adds to it: packages/core/src/application.ts and         *)
(* packages/boot/src/mixins/boot.mixin.ts.                                 *)
(*                                                                         *)
(* JavaScript runs one call chain at a time and changes chains only at an  *)
(* await, so an action is what a call does from one await to the next.     *)
(* A call that does the work of an operation is suspended while the        *)
(* bootstrapper or the observer registry works; a call that finds its own  *)
(* operation already in process is suspended in awaitState().              *)
(*                                                                         *)
(* The signal listener that start() installs is one more actor, Handler:   *)
(* the listener ignores every signal after the first, so a single          *)
(* activation of it ever calls stop().                                     *)
(***************************************************************************)
EXTENDS Naturals, FiniteSets

CONSTANTS
    Callers,        \* the asynchronous call chains that use the application
    Handler,        \* the activation of the application's signal listener
    Failures,       \* may a booter or an observer reject?
    Signals,        \* may the process receive one of the trapped signals?
    ContextErrors,  \* may the context emit "error" while a call awaits?
    MaxListeners    \* bound: no start() is called with more listeners

ASSUME HandlerAssumption == Handler \notin Callers
ASSUME SwitchAssumption ==
    {Failures, Signals, ContextErrors} \subseteq BOOLEAN
ASSUME MaxListenersAssumption == MaxListeners \in Nat \ {0}

Actors == Callers \cup {Handler}

Operations == {"boot", "init", "start", "stop"}

\* The states that end in "ing", and the stable state each one leads to.
InProcess == {"booting", "initializing", "starting", "stopping"}
Finished == [s \in InProcess |->
                CASE s = "booting"      -> "booted"
                  [] s = "initializing" -> "initialized"
                  [] s = "starting"     -> "started"
                  [] s = "stopping"     -> "stopped"]
Settled == {"booted", "initialized", "started", "stopped"}
States == {"created"} \cup InProcess \cup Settled

VARIABLES
    state,        \* Application._state
    initialized,  \* Application._initialized
    booted,       \* BootMixin.booted
    op,           \* op[a]: the operation actor a called last
    at,           \* at[a]: where that call is suspended (see TypeOK)
    result,       \* result[a]: how it ended
    initRuns,     \* history: how often the registry was told to init
    listeners,    \* copies of _signalListener registered on the process
    shutdown,     \* the listener: "no" = flag unset, "active", "over"
    timer,        \* is the grace period timer armed?
    gracePeriod,  \* is options.shutdown.gracePeriod a number?
    dead          \* has the process been terminated?

appVars == <<state, initialized, booted, initRuns>>
callVars == <<op, at, result>>
sigVars == <<listeners, shutdown, timer, gracePeriod, dead>>
vars == <<appVars, callVars, sigVars>>

\* A call is "idle" when it is not suspended; in an InProcess value it does
\* that operation; in a Settled value it awaits that event in awaitState();
\* in "resume" it is a start() whose init() has just returned.
TypeOK ==
    /\ state \in States
    /\ initialized \in BOOLEAN
    /\ booted \in BOOLEAN
    /\ op \in [Actors -> Operations \cup {"none"}]
    /\ at \in [Actors -> {"idle", "resume"} \cup InProcess \cup Settled]
    /\ result \in [Actors -> {"none", "ok", "threw"}]
    /\ initRuns \in Nat
    /\ listeners \in Nat
    /\ shutdown \in {"no", "active", "over"}
    /\ timer \in BOOLEAN
    /\ gracePeriod \in BOOLEAN
    /\ dead \in BOOLEAN

Init ==
    /\ state = "created"
    /\ initialized = FALSE
    /\ booted = FALSE
    /\ op = [a \in Actors |-> "none"]
    /\ at = [a \in Actors |-> "idle"]
    /\ result = [a \in Actors |-> "none"]
    /\ initRuns = 0
    /\ listeners = 0
    /\ shutdown = "no"
    /\ timer = FALSE
    /\ gracePeriod \in BOOLEAN
    /\ dead = FALSE

-----------------------------------------------------------------------------
(* How a call by actor a of operation o can leave the code.                *)

Suspend(a, o, where) ==
    /\ op' = [op EXCEPT ![a] = o]
    /\ at' = [at EXCEPT ![a] = where]
    /\ result' = [result EXCEPT ![a] = "none"]

Leave(a, o, how) ==
    /\ op' = [op EXCEPT ![a] = o]
    /\ at' = [at EXCEPT ![a] = "idle"]
    /\ result' = [result EXCEPT ![a] = how]
    /\ UNCHANGED appVars

\* Fault: the second caller returns instead of waiting.
AwaitStateSkipped(a, o, s) == Leave(a, o, "ok")

\* awaitState(s)
AwaitState(a, o, s) == Suspend(a, o, s) /\ UNCHANGED appVars

\* assertNotInProcess() fails
Refuse(a, o, own) ==
    /\ state \in InProcess \ {own}
    /\ Leave(a, o, "threw")

\* Fault: assertNotInProcess() is forgotten.
BeginUnasserted(a, o, s) ==
    /\ Suspend(a, o, s)
    /\ state' = s
    /\ UNCHANGED <<initialized, booted>>

\* setState(s) with s in process; nobody awaits such an event
Begin(a, o, s) ==
    /\ state \notin InProcess
    /\ Suspend(a, o, s)
    /\ state' = s
    /\ UNCHANGED <<initialized, booted>>

\* Fault: the state is assigned without emitting its event.
EmitNothing(a, s) ==
    LET goesOn == op[a] = "start" /\ s = "initialized"
    IN  /\ state' = s
        /\ at' = [at EXCEPT ![a] = IF goesOn THEN "resume" ELSE "idle"]
        /\ result' = [result EXCEPT ![a] = IF goesOn THEN "none" ELSE "ok"]
        /\ UNCHANGED op

\* setState(s) with s stable, by actor a: the event settles the promise of
\* every awaitState(s); an init() called by start() continues there.
Emit(a, s) ==
    LET wakes(b) == b = a \/ at[b] = s
        continues(b) == op[b] = "start" /\ s = "initialized"
    IN  /\ state' = s
        /\ at' = [b \in Actors |->
                    IF ~wakes(b) THEN at[b]
                    ELSE IF continues(b) THEN "resume" ELSE "idle"]
        /\ result' = [b \in Actors |->
                    IF wakes(b) /\ ~continues(b) THEN "ok" ELSE result[b]]
        /\ UNCHANGED op

-----------------------------------------------------------------------------
(* The operations, from the call to their first await or return.           *)

\* Fault: assertInStates("boot", "created", "booted") is forgotten.
BootBodyAnyState(a) ==
    /\ \/ state = "booting" /\ AwaitState(a, "boot", "booted")
       \/ Refuse(a, "boot", "booting")
       \/ state = "booted" /\ Leave(a, "boot", "ok")
       \/ state # "booted" /\ Begin(a, "boot", "booting") /\ UNCHANGED initRuns
    /\ UNCHANGED sigVars

BootBody(a) ==
    /\ \/ state = "booting" /\ AwaitState(a, "boot", "booted")
       \/ Refuse(a, "boot", "booting")
       \/ /\ state \notin InProcess \cup {"created", "booted"}
          /\ Leave(a, "boot", "threw")
       \/ state = "booted" /\ Leave(a, "boot", "ok")
       \/ /\ state = "created"
          /\ Begin(a, "boot", "booting")
          /\ UNCHANGED initRuns
    /\ UNCHANGED sigVars

\* Fault: init() looks at the state only, not at _initialized.
InitBodyByState(a, o) ==
    /\ \/ state = "initialized" /\ Leave(a, o, "ok")
       \/ state = "initializing" /\ AwaitState(a, o, "initialized")
       \/ Refuse(a, o, "initializing")
       \/ /\ state # "initialized"
          /\ Begin(a, o, "initializing")
          /\ initRuns' = initRuns + 1
    /\ UNCHANGED sigVars

\* init(), called as operation o: by the user or by start()
InitBody(a, o) ==
    /\ \/ initialized /\ Leave(a, o, "ok")
       \/ /\ ~initialized
          /\ \/ state = "initializing" /\ AwaitState(a, o, "initialized")
             \/ Refuse(a, o, "initializing")
             \/ /\ Begin(a, o, "initializing")
                /\ initRuns' = initRuns + 1
    /\ UNCHANGED sigVars

\* start() once the application is initialized; setupShutdown() registers
\* the listener every time the application is about to start.
StartBody(a) ==
    \/ /\ \/ state = "starting" /\ AwaitState(a, "start", "started")
          \/ Refuse(a, "start", "starting")
          \/ state = "started" /\ Leave(a, "start", "ok")
       /\ UNCHANGED sigVars
    \/ /\ state # "started"
       /\ Begin(a, "start", "starting")
       /\ listeners' = listeners + 1
       /\ UNCHANGED <<initRuns, shutdown, timer, gracePeriod, dead>>

\* removeSignalListener(): process.removeListener() takes one copy away
Removed == IF listeners = 0 THEN 0 ELSE listeners - 1

\* stop(); shuttingDown is the flag _isShuttingDown as the call sees it
StopBody(a, shuttingDown) ==
    \/ /\ \/ state = "stopping" /\ AwaitState(a, "stop", "stopped")
          \/ Refuse(a, "stop", "stopping")
          \/ /\ state \notin InProcess \cup {"started", "initialized"}
             /\ Leave(a, "stop", "ok")
       /\ UNCHANGED listeners
    \/ /\ state \in {"started", "initialized"}
       /\ Begin(a, "stop", "stopping")
       /\ listeners' = IF shuttingDown THEN listeners ELSE Removed
       /\ UNCHANGED initRuns

-----------------------------------------------------------------------------
(* Actions                                                                 *)

CanCall(c) == ~dead /\ at[c] = "idle"

Boot(c) == CanCall(c) /\ BootBody(c)

InitOp(c) == CanCall(c) /\ InitBody(c, "init")

\* MaxListeners bounds the restarts during a shutdown; a start() already
\* under way is never held back by it.
Start(c) ==
    /\ CanCall(c)
    /\ listeners < MaxListeners
    /\ IF initialized THEN StartBody(c) ELSE InitBody(c, "start")

\* start() after "await this.init()"
ResumeStart(c) == ~dead /\ at[c] = "resume" /\ StartBody(c)

Stop(c) ==
    /\ CanCall(c)
    /\ StopBody(c, shutdown # "no")
    /\ UNCHANGED <<shutdown, timer, gracePeriod, dead>>

\* The bootstrapper or the registry has done its work for actor a.
Finish(a) ==
    /\ ~dead
    /\ at[a] \in InProcess
    /\ initialized' = (initialized \/ at[a] = "initializing")
    /\ booted' = (booted \/ at[a] = "booting")
    /\ Emit(a, Finished[at[a]])
    /\ UNCHANGED <<initRuns, sigVars>>

\* Fault: the rejection also releases the calls that await the event.
FailReleases(a) ==
    /\ Failures /\ ~dead /\ at[a] \in InProcess
    /\ at' = [b \in Actors |-> IF b = a \/ at[b] = Finished[at[a]]
                                   THEN "idle" ELSE at[b]]
    /\ UNCHANGED <<appVars, op, result, sigVars>>

\* It rejected: no handler resets the state.
Fail(a) ==
    /\ Failures
    /\ ~dead
    /\ at[a] \in InProcess
    /\ Leave(a, op[a], "threw")
    /\ UNCHANGED sigVars

\* The context emits "error": events.once() rejects for every awaiting call.
ContextError ==
    LET waiting == {b \in Actors : at[b] \in Settled}
    IN  /\ ContextErrors
        /\ ~dead
        /\ waiting # {}
        /\ at' = [b \in Actors |-> IF b \in waiting THEN "idle" ELSE at[b]]
        /\ result' = [b \in Actors |->
                        IF b \in waiting THEN "threw" ELSE result[b]]
        /\ UNCHANGED <<appVars, op, sigVars>>

\* kill(): one copy of the listener is removed and the process signals
\* itself, which ends it unless another copy is there to ignore the signal.
Kill ==
    /\ listeners' = Removed
    /\ dead' = (Removed = 0)

\* A trapped signal arrives while no copy of the listener is registered.
UntrappedSignal ==
    /\ Signals
    /\ ~dead
    /\ listeners = 0
    /\ dead' = TRUE
    /\ UNCHANGED <<appVars, callVars, listeners, shutdown, timer, gracePeriod>>

\* Fault: the listener does not arm the grace period timer.
SignalUntimed ==
    /\ Signals /\ ~dead /\ listeners > 0 /\ shutdown = "no"
    /\ StopBody(Handler, TRUE)
    /\ shutdown' = "active"
    /\ UNCHANGED <<timer, gracePeriod, dead>>

\* _signalListener stops the application the first time it runs. If stop()
\* has nothing to wait for, the finally block follows before anything else.
Signal ==
    /\ Signals
    /\ ~dead
    /\ listeners > 0
    /\ shutdown = "no"
    /\ UNCHANGED gracePeriod
    /\ \/ /\ state \in {"started", "initialized", "stopping"}
          /\ StopBody(Handler, TRUE)
          /\ shutdown' = "active"
          /\ timer' = gracePeriod
          /\ UNCHANGED dead
       \/ /\ state \notin {"started", "initialized", "stopping"}
          /\ Leave(Handler, "stop", IF state \in InProcess THEN "threw" ELSE "ok")
          /\ Kill
          /\ shutdown' = "over"
          /\ UNCHANGED timer

\* Fault: the listener calls stop() without awaiting it.
HandlerEndsAtOnce ==
    /\ ~dead
    /\ shutdown = "active"
    /\ Kill
    /\ shutdown' = "over"
    /\ timer' = FALSE
    /\ UNCHANGED <<appVars, callVars, gracePeriod>>

\* the listener's finally block
HandlerEnds ==
    /\ ~dead
    /\ shutdown = "active"
    /\ at[Handler] = "idle"
    /\ Kill
    /\ shutdown' = "over"
    /\ timer' = FALSE
    /\ UNCHANGED <<appVars, callVars, gracePeriod>>

TimerFires ==
    /\ ~dead
    /\ timer
    /\ Kill
    /\ timer' = FALSE
    /\ UNCHANGED <<appVars, callVars, shutdown, gracePeriod>>

Next ==
    \/ \E c \in Callers :
          Boot(c) \/ InitOp(c) \/ Start(c) \/ ResumeStart(c) \/ Stop(c)
    \/ \E a \in Actors : Finish(a) \/ Fail(a)
    \/ ContextError
    \/ UntrappedSignal
    \/ Signal
    \/ HandlerEnds
    \/ TimerFires

Spec == Init /\ [][Next]_vars

\* What the event loop guarantees: a suspended start() resumes, the
\* listener's finally block runs and an armed timer fires.
LoopFairness ==
    /\ \A c \in Callers : WF_vars(ResumeStart(c))
    /\ WF_vars(HandlerEnds)
    /\ WF_vars(TimerFires)

\* Booters and observers settle the promises they return; a grace period is
\* there for those that hang in the stop() of the signal listener.
ObserverFairness ==
    /\ \A c \in Callers : WF_vars(Finish(c) \/ Fail(c))
    /\ WF_vars(~gracePeriod /\ (Finish(Handler) \/ Fail(Handler)))

FairSpec == Spec /\ LoopFairness /\ ObserverFairness

-----------------------------------------------------------------------------
(* Properties                                                              *)

\* A state in process names the work that is going on: a call at work on an
\* operation finds the application in the state of that operation, and no
\* two calls are at work. assertNotInProcess() and the early returns of
\* boot(), init(), start() and stop() are what keeps calls apart.
OneOperation ==
    /\ \A a \in Actors : at[a] \in InProcess => at[a] = state
    /\ \A a, b \in Actors :
          at[a] \in InProcess /\ at[b] \in InProcess => a = b

\* A call suspended in awaitState(s) has not missed the event s: the state
\* is still the one in process that setState(s) will end.
NoLostWakeup ==
    \A a \in Actors :
        at[a] \in Settled => state \in InProcess /\ Finished[state] = at[a]

\* The registry is told to init at most once, whichever calls of init() and
\* start() race and whether or not an observer rejects (lifecycle.ts: init
\* "will only be called at most once for a given application instance").
InitOnce == initRuns <= 1

\* The observers are started and stopped only when init() has completed,
\* and boot() is over before it begins.
InitBetween ==
    \A a \in Actors :
        /\ at[a] \in {"starting", "stopping"} => initialized
        /\ at[a] = "booting" => initRuns = 0

\* What observers may rely on, whichever calls race: they are initialized once,
\* after boot() and before they are started or stopped.
InitDiscipline == InitOnce /\ InitBetween

\* Until a signal asks for shutdown, the process holds exactly one listener
\* while the application starts or runs and none otherwise, however often
\* it is restarted (stop(): "let's remove signal listeners to avoid memory
\* leak and max listener warning").
ListenerMatchesState ==
    ~dead /\ shutdown = "no" =>
        listeners = IF state \in {"starting", "started"} THEN 1 ELSE 0

\* Unless a grace period cuts it short, the listener ends the process only
\* after the stop() it called has settled.
ListenerLetsStopFinish ==
    ~gracePeriod /\ dead /\ shutdown # "no" =>
        \A a \in Actors : at[a] # "stopping"

\* The signal listener is there exactly while it is needed, and does not end the
\* process before stop() has settled.
ListenerDiscipline == ListenerMatchesState /\ ListenerLetsStopFinish

\* A call that returns without error after a suspension has left the
\* application in the state its caller asked for.
Target == [boot |-> "booted", init |-> "initialized",
           start |-> "started", stop |-> "stopped"]
ReturnsReached ==
    [][\A a \in Actors :
          at[a] # "idle" /\ at'[a] = "idle" /\ result'[a] = "ok"
             => state' = Target[op[a]]]_vars

\* "If the same operation is in process, it awaits the operation to finish"
\* (Life-cycle.md): such a call goes on only with the event it awaits,
\* or when the context emits an error.
AwaitsTheOperation ==
    [][\A a \in Actors :
          at[a] \in Settled /\ at'[a] # at[a] =>
             \/ state' = at[a]
             \/ ContextErrors /\ result'[a] = "threw"]_vars

\* Every call of boot(), init(), start() and stop() settles, unless the
\* process ends first: no call waits for an event nobody will emit.
CallsSettle == \A a \in Actors : at[a] # "idle" ~> (at[a] = "idle" \/ dead)

\* The state is in process and no call is at work on it: one was, and its observers
\* have rejected.
Stuck == state \in InProcess /\ \A a \in Actors : at[a] # state

\* Every call settles, unless the process ends or the application is stuck: where no
\* observer rejects, no call waits for an event nobody will emit.
CallsSettleUnlessStuck ==
    \A a \in Actors : at[a] # "idle" ~> (at[a] = "idle" \/ dead \/ Stuck)

\* "Period in milliseconds to wait for the grace shutdown to finish before
\* exiting the process" (ShutdownOptions.gracePeriod): once a signal was
\* trapped the process ends, even if the observers hang in stop(), unless
\* the application is started again before it does; the second copy of the
\* listener that setupShutdown() then registers swallows kill()'s signal.
ShutdownEndsUnlessRestarted ==
    (shutdown = "active" /\ listeners = 1) ~> (dead \/ listeners > 1)

\* The machine implements the documented one; an operation ends unless an observer or
\* booter has rejected.
Contract == INSTANCE LifecycleContract WITH stuck <- Stuck
ImplementsContract == Contract!CSpec

-----------------------------------------------------------------------------
(* The inductive invariant                                                 *)

Uninitialized == {"created", "booting", "booted"}

\* _initialized and the count of initializations follow from the state; a
\* start() resumes only after its init().
InitPhase ==
    /\ initRuns = IF state \in Uninitialized THEN 0 ELSE 1
    /\ initialized = (state \notin Uninitialized \cup {"initializing"})
    /\ \A a \in Actors : at[a] = "resume" => initialized

\* While a shutdown without a grace period is under way and the application
\* was not started again, only the listener's own stop() can be at work.
ShutdownPhase ==
    /\ timer => shutdown = "active" /\ gracePeriod
    /\ shutdown # "active" => at[Handler] = "idle"
    /\ ~gracePeriod /\ ~dead /\ shutdown # "no" => listeners > 0
    /\ ~gracePeriod /\ ~dead /\ shutdown = "active" /\ listeners = 1 =>
          /\ state \in {"stopping", "stopped"}
          /\ \A a \in Actors : at[a] = "stopping" => a = Handler

\* The conjunction that every step preserves.
IInv ==
    /\ TypeOK
    /\ OneOperation
    /\ NoLostWakeup
    /\ InitPhase
    /\ ListenerMatchesState
    /\ ListenerLetsStopFinish
    /\ ShutdownPhase
=============================================================================

-------------------------- MODULE AppLifecycleProofs --------------------------
(***************************************************************************)
(* Proofs about AppLifecycle, for every set of callers and every value of  *)
(* the switches: the inductive invariant IInv, and what follows from it.   *)
(***************************************************************************)
EXTENDS AppLifecycle, TLAPS

USE HandlerAssumption, SwitchAssumption, MaxListenersAssumption

\* The listener is an actor, and none of the callers.
LEMMA HandlerIsActor == Handler \in Actors /\ \A c \in Callers : c # Handler
BY DEF Actors

\* Init puts the application in a state that satisfies the invariant.
LEMMA InitIInv == Init => IInv
<1> SUFFICES ASSUME Init PROVE IInv
  OBVIOUS
<1> USE DEF Init
<1>1. TypeOK
  BY DEF TypeOK, States
<1>2. OneOperation /\ NoLostWakeup
  BY DEF OneOperation, NoLostWakeup, InProcess, Settled
<1>3. InitPhase
  BY DEF InitPhase, Uninitialized
<1>4. ListenerMatchesState /\ ListenerLetsStopFinish /\ ShutdownPhase
  BY HandlerIsActor
     DEF ListenerMatchesState, ListenerLetsStopFinish, ShutdownPhase
<1> QED
  BY <1>1, <1>2, <1>3, <1>4 DEF IInv

\* The invariant says nothing of values a stuttering step could change.
LEMMA StutterIInv == IInv /\ UNCHANGED vars => IInv'
BY DEF vars, appVars, callVars, sigVars, IInv, TypeOK, OneOperation,
       NoLostWakeup, InitPhase, ListenerMatchesState, ListenerLetsStopFinish,
       ShutdownPhase

\* A call that returns, throws or begins to await an operation in process
\* changes nothing but its own record.
LEMMA OwnRecordIInv ==
    ASSUME IInv, NEW a \in Callers, NEW o \in Operations,
           NEW w \in {"idle"} \cup Settled, NEW r \in {"none", "ok", "threw"},
           op' = [op EXCEPT ![a] = o], at' = [at EXCEPT ![a] = w],
           result' = [result EXCEPT ![a] = r],
           w \in Settled => state \in InProcess /\ Finished[state] = w,
           UNCHANGED <<appVars, sigVars>>
    PROVE  IInv'
BY HandlerIsActor DEF Actors, appVars, sigVars, IInv, TypeOK, OneOperation, NoLostWakeup, InitPhase,
       ListenerMatchesState, ListenerLetsStopFinish, ShutdownPhase,
       InProcess, Settled

\* No call is at work when the state is stable, and none awaits an event.
LEMMA StableIsQuiet ==
    ASSUME IInv, state \notin InProcess, NEW a \in Actors
    PROVE  at[a] \in {"idle", "resume"}
BY DEF IInv, TypeOK, OneOperation, NoLostWakeup

LEMMA BootIInv == ASSUME IInv, NEW c \in Callers, Boot(c) PROVE IInv'
<1> USE DEF Boot, CanCall, BootBody
<1>0. c \in Actors
  BY DEF Actors
<1>1. CASE state = "booting" /\ AwaitState(c, "boot", "booted") /\ UNCHANGED sigVars
  BY <1>0, <1>1, OwnRecordIInv DEF AwaitState, Suspend, InProcess, Settled,
     Finished, Operations
<1>2. CASE Refuse(c, "boot", "booting") /\ UNCHANGED sigVars
  BY <1>0, <1>2, OwnRecordIInv DEF Refuse, Leave, Operations, Settled
<1>3. CASE \E r \in {"ok", "threw"} : Leave(c, "boot", r) /\ UNCHANGED sigVars
  BY <1>0, <1>3, OwnRecordIInv DEF Leave, Operations, Settled
<1>4. CASE /\ state = "created" /\ Begin(c, "boot", "booting")
           /\ UNCHANGED initRuns /\ UNCHANGED sigVars
  <2>1. \A a \in Actors : at[a] \in {"idle", "resume"}
    BY <1>4, StableIsQuiet DEF InProcess
  <2>2. TypeOK'
    BY <1>0, <1>4 DEF IInv, TypeOK, Begin, Suspend, sigVars, States, InProcess,
       Operations
  <2>3. OneOperation' /\ NoLostWakeup'
    BY <1>0, <1>4, <2>1 DEF IInv, TypeOK, OneOperation, NoLostWakeup, Begin,
       Suspend, InProcess, Settled
  <2>4. InitPhase'
    BY <1>0, <1>4, <2>1 DEF IInv, TypeOK, InitPhase, Begin, Suspend, Uninitialized
  <2>5. ListenerMatchesState' /\ ListenerLetsStopFinish' /\ ShutdownPhase'
    BY <1>0, <1>4, <2>1 DEF IInv, TypeOK, ListenerMatchesState,
       ListenerLetsStopFinish, ShutdownPhase, Begin, Suspend, sigVars
  <2> QED
    BY <2>2, <2>3, <2>4, <2>5 DEF IInv
<1> QED
  BY <1>1, <1>2, <1>3, <1>4

LEMMA InitBodyIInv ==
    ASSUME IInv, NEW c \in Callers, NEW o \in {"init", "start"}, ~dead,
           at[c] = "idle", InitBody(c, o)
    PROVE  IInv'
<1> USE DEF InitBody
<1>0. c \in Actors /\ o \in Operations
  BY DEF Actors, Operations
<1>1. CASE initialized /\ Leave(c, o, "ok") /\ UNCHANGED sigVars
  BY <1>0, <1>1, OwnRecordIInv DEF Leave, Settled
<1>2. CASE /\ state = "initializing" /\ AwaitState(c, o, "initialized")
           /\ UNCHANGED sigVars
  BY <1>0, <1>2, OwnRecordIInv DEF AwaitState, Suspend, InProcess, Settled,
     Finished
<1>3. CASE Refuse(c, o, "initializing") /\ UNCHANGED sigVars
  BY <1>0, <1>3, OwnRecordIInv DEF Refuse, Leave, Settled
<1>4. CASE /\ ~initialized /\ Begin(c, o, "initializing")
           /\ initRuns' = initRuns + 1 /\ UNCHANGED sigVars
  <2>1. \A a \in Actors : at[a] \in {"idle", "resume"}
    BY <1>4, StableIsQuiet DEF Begin
  <2>2. TypeOK'
    BY <1>0, <1>4 DEF IInv, TypeOK, Begin, Suspend, sigVars, States, InProcess
  <2>3. OneOperation' /\ NoLostWakeup'
    BY <1>0, <1>4, <2>1 DEF IInv, TypeOK, OneOperation, NoLostWakeup, Begin,
       Suspend, InProcess, Settled
  <2>4. InitPhase'
    <3>1. state \in Uninitialized /\ initRuns = 0
      BY <1>4 DEF IInv, InitPhase, Begin, InProcess
    <3> QED
      BY <1>0, <1>4, <2>1, <3>1 DEF IInv, TypeOK, InitPhase, Begin, Suspend,
         Uninitialized
  <2>5. ListenerMatchesState' /\ ListenerLetsStopFinish' /\ ShutdownPhase'
    <3>1. state \in {"created", "booted"}
      BY <1>4 DEF IInv, InitPhase, Begin, InProcess, Uninitialized
    <3> QED
      BY <1>0, <1>4, <2>1, <3>1 DEF IInv, TypeOK, ListenerMatchesState,
         ListenerLetsStopFinish, ShutdownPhase, Begin, Suspend, sigVars
  <2> QED
    BY <2>2, <2>3, <2>4, <2>5 DEF IInv
<1> QED
  BY <1>1, <1>2, <1>3, <1>4

LEMMA StartBodyIInv ==
    ASSUME IInv, NEW c \in Callers, ~dead, at[c] \in {"idle", "resume"},
           initialized, StartBody(c)
    PROVE  IInv'
<1> USE DEF StartBody
<1>0. c \in Actors /\ "start" \in Operations
  BY DEF Actors, Operations
<1>1. CASE /\ state = "starting" /\ AwaitState(c, "start", "started")
           /\ UNCHANGED sigVars
  BY <1>0, <1>1, OwnRecordIInv DEF AwaitState, Suspend, InProcess, Settled,
     Finished
<1>2. CASE Refuse(c, "start", "starting") /\ UNCHANGED sigVars
  BY <1>0, <1>2, OwnRecordIInv DEF Refuse, Leave, Settled
<1>3. CASE Leave(c, "start", "ok") /\ UNCHANGED sigVars
  BY <1>0, <1>3, OwnRecordIInv DEF Leave, Settled
<1>4. CASE /\ state # "started" /\ Begin(c, "start", "starting")
           /\ listeners' = listeners + 1
           /\ UNCHANGED <<initRuns, shutdown, timer, gracePeriod, dead>>
  <2>1. \A a \in Actors : at[a] \in {"idle", "resume"}
    BY <1>4, StableIsQuiet DEF Begin
  <2>2. TypeOK'
    BY <1>0, <1>4 DEF IInv, TypeOK, Begin, Suspend, States, InProcess
  <2>3. OneOperation' /\ NoLostWakeup'
    BY <1>0, <1>4, <2>1 DEF IInv, TypeOK, OneOperation, NoLostWakeup, Begin,
       Suspend, InProcess, Settled
  <2>4. InitPhase'
    BY <1>0, <1>4, <2>1 DEF IInv, TypeOK, InitPhase, Begin, Suspend,
       Uninitialized
  <2>5. ListenerMatchesState'
    BY <1>4 DEF IInv, TypeOK, ListenerMatchesState, Begin, InProcess
  <2>6. ListenerLetsStopFinish' /\ ShutdownPhase'
    BY <1>0, <1>4, <2>1 DEF IInv, TypeOK, ListenerLetsStopFinish,
       ShutdownPhase, Begin, Suspend
  <2> QED
    BY <2>2, <2>3, <2>4, <2>5, <2>6 DEF IInv
<1> QED
  BY <1>1, <1>2, <1>3, <1>4

\* What setState("stopping") does to the parts of the invariant that do not
\* speak of the signal listener.
LEMMA BeginStop ==
    ASSUME IInv, NEW a \in Actors, state \in {"started", "initialized"},
           Begin(a, "stop", "stopping"), initRuns' = initRuns
    PROVE  /\ OneOperation' /\ NoLostWakeup' /\ InitPhase'
           /\ \A b \in Actors : at'[b] = "stopping" => b = a
           /\ at' \in [Actors -> {"idle", "resume"} \cup InProcess \cup Settled]
           /\ op' \in [Actors -> Operations \cup {"none"}]
           /\ result' \in [Actors -> {"none", "ok", "threw"}]
           /\ state' = "stopping" /\ initialized' = initialized
           /\ booted' = booted
<1>1. \A b \in Actors : at[b] \in {"idle", "resume"}
  BY StableIsQuiet DEF Begin
<1>2. OneOperation' /\ NoLostWakeup'
  BY <1>1 DEF IInv, TypeOK, OneOperation, NoLostWakeup, Begin, Suspend,
     InProcess, Settled
<1>3. InitPhase'
  BY <1>1 DEF IInv, TypeOK, InitPhase, Begin, Suspend, Uninitialized
<1>4. \A b \in Actors : at'[b] = "stopping" => b = a
  BY <1>1 DEF IInv, TypeOK, Begin, Suspend
<1> QED
  BY <1>2, <1>3, <1>4 DEF IInv, TypeOK, Begin, Suspend, InProcess, Operations

LEMMA StopIInv == ASSUME IInv, NEW c \in Callers, Stop(c) PROVE IInv'
<1> USE DEF Stop, CanCall, StopBody
<1>0. c \in Actors /\ "stop" \in Operations /\ c # Handler
  BY DEF Actors, Operations
<1>1. CASE /\ state = "stopping" /\ AwaitState(c, "stop", "stopped")
           /\ UNCHANGED sigVars
  BY <1>0, <1>1, OwnRecordIInv DEF AwaitState, Suspend, InProcess, Settled,
     Finished
<1>2. CASE Refuse(c, "stop", "stopping") /\ UNCHANGED sigVars
  BY <1>0, <1>2, OwnRecordIInv DEF Refuse, Leave, Settled
<1>3. CASE Leave(c, "stop", "ok") /\ UNCHANGED sigVars
  BY <1>0, <1>3, OwnRecordIInv DEF Leave, Settled
<1>4. CASE /\ state \in {"started", "initialized"}
           /\ Begin(c, "stop", "stopping") /\ UNCHANGED initRuns
           /\ listeners' = IF shutdown # "no" THEN listeners ELSE Removed
           /\ UNCHANGED <<shutdown, timer, gracePeriod, dead>>
  <2>1. /\ OneOperation' /\ NoLostWakeup' /\ InitPhase' /\ TypeOK'
        /\ state' = "stopping"
    BY <1>0, <1>4, BeginStop DEF IInv, TypeOK, States, InProcess, Removed
  <2>2. ListenerMatchesState'
    BY <1>4, <2>1 DEF IInv, TypeOK, ListenerMatchesState, Removed
  <2>3. ListenerLetsStopFinish' /\ ShutdownPhase'
    <3>1. at'[Handler] = at[Handler]
      BY <1>0, <1>4, HandlerIsActor DEF IInv, TypeOK, Begin, Suspend
    <3> QED
      BY <1>4, <2>1, <3>1 DEF IInv, TypeOK, ListenerLetsStopFinish,
         ShutdownPhase
  <2> QED
    BY <2>1, <2>2, <2>3 DEF IInv
<1> QED
  BY <1>1, <1>2, <1>3, <1>4 DEF sigVars

\* kill() ends the process exactly when it takes the last listener away.
LEMMA KillEffect ==
    ASSUME IInv, Kill
    PROVE  \/ listeners \in {0, 1} /\ listeners' = 0 /\ dead' = TRUE
           \/ listeners > 1 /\ listeners' = listeners - 1 /\ dead' = FALSE
<1>0. listeners \in Nat
  BY DEF IInv, TypeOK
<1>1. CASE listeners \in {0, 1}
  <2>1. Removed = 0
    BY <1>1 DEF Removed
  <2>2. listeners' = 0 /\ dead' = (0 = 0)
    BY <2>1 DEF Kill
  <2>3. dead' = TRUE
    BY <2>2, Zenon
  <2> QED
    BY <1>1, <2>2, <2>3
<1>2. CASE listeners > 1
  <2>1. Removed = listeners - 1 /\ Removed # 0
    BY <1>0, <1>2 DEF Removed
  <2>2. dead' = FALSE
    <3>1. dead' = (Removed = 0)
      BY DEF Kill
    <3> QED
      BY <2>1, <3>1, Zenon
  <2> QED
    BY <1>2, <2>1, <2>2 DEF Kill
<1>3. listeners \in {0, 1} \/ listeners > 1
  BY <1>0
<1> QED
  BY <1>1, <1>2, <1>3

LEMMA SignalIInv == ASSUME IInv, Signal PROVE IInv'
<1> USE DEF Signal
<1>0. Handler \in Actors /\ "stop" \in Operations
  BY DEF Actors, Operations
<1>1. state \in {"starting", "started"} /\ listeners = 1
  BY DEF IInv, ListenerMatchesState
<1>2. CASE /\ Leave(Handler, "stop", "threw") /\ state = "starting"
           /\ Kill /\ shutdown' = "over" /\ UNCHANGED timer
  <2>1. \A a \in Actors : at[a] # "stopping"
    BY <1>2 DEF IInv, OneOperation, InProcess
  <2>2. TypeOK' /\ OneOperation' /\ NoLostWakeup' /\ InitPhase'
    BY <1>0, <1>2 DEF IInv, TypeOK, OneOperation, NoLostWakeup, InitPhase,
       Leave, Kill, Removed, appVars, InProcess, Settled
  <2>3. dead'
    BY <1>1, <1>2, KillEffect
  <2>4. timer' = FALSE
    BY <1>2 DEF IInv, TypeOK, ShutdownPhase
  <2>5. ListenerMatchesState' /\ ListenerLetsStopFinish' /\ ShutdownPhase'
    BY <1>0, <1>2, <2>1, <2>3, <2>4 DEF IInv, TypeOK, ListenerMatchesState,
       ListenerLetsStopFinish, ShutdownPhase, Leave
  <2> QED
    BY <2>2, <2>5 DEF IInv
<1>3. CASE /\ state = "started" /\ Begin(Handler, "stop", "stopping")
           /\ UNCHANGED initRuns /\ listeners' = listeners
           /\ shutdown' = "active" /\ timer' = gracePeriod /\ UNCHANGED dead
  <2>1. /\ OneOperation' /\ NoLostWakeup' /\ InitPhase' /\ TypeOK'
        /\ state' = "stopping"
        /\ \A b \in Actors : at'[b] = "stopping" => b = Handler
    BY <1>0, <1>3, BeginStop DEF IInv, TypeOK, States, InProcess
  <2>2. ListenerMatchesState' /\ ListenerLetsStopFinish' /\ ShutdownPhase'
    BY <1>1, <1>3, <2>1 DEF IInv, TypeOK, ListenerMatchesState,
       ListenerLetsStopFinish, ShutdownPhase
  <2> QED
    BY <2>1, <2>2 DEF IInv
<1> QED
  BY <1>1, <1>2, <1>3 DEF StopBody, Refuse, AwaitState, InProcess

LEMMA FinishIInv == ASSUME IInv, NEW a \in Actors, Finish(a) PROVE IInv'
<1> DEFINE s == Finished[state]
<1>1. at[a] = state /\ state \in InProcess
  BY DEF IInv, OneOperation, Finish
<1>2. s \in Settled /\ s \notin InProcess /\ state' = s
  BY <1>1 DEF Finish, Emit, Finished, Settled, InProcess
<1>3. \A b \in Actors :
         \/ b = a \/ at[b] \in Settled
         \/ at[b] \in {"idle", "resume"}
  BY <1>1 DEF IInv, TypeOK, OneOperation, Finish
<1>4. \A b \in Actors : at[b] \in Settled => at[b] = s
  BY DEF IInv, NoLostWakeup
<1>5. \A b \in Actors : at'[b] \in {"idle", "resume"}
  BY <1>1, <1>3, <1>4 DEF Finish, Emit
<1>6. \A b \in Actors : at'[b] = "resume" /\ at[b] # "resume" => s = "initialized"
  BY <1>1 DEF Finish, Emit
<1>7. TypeOK'
  <2>1. at' \in [Actors -> {"idle", "resume"} \cup InProcess \cup Settled]
    BY <1>1, <1>5 DEF Finish, Emit
  <2>2. result' \in [Actors -> {"none", "ok", "threw"}]
    BY <1>1 DEF Finish, Emit, IInv, TypeOK
  <2>3. initialized' \in BOOLEAN /\ booted' \in BOOLEAN
    BY DEF Finish
  <2> QED
    BY <1>1, <1>2, <2>1, <2>2, <2>3 DEF Finish, Emit, IInv, TypeOK, States, sigVars
<1>8. OneOperation' /\ NoLostWakeup'
  BY <1>5 DEF OneOperation, NoLostWakeup, InProcess, Settled
<1>9. initialized' = (state' \notin Uninitialized \cup {"initializing"})
  BY <1>1, <1>2 DEF IInv, InitPhase, Finish, Finished, Uninitialized, InProcess
<1>10. initRuns' = IF state' \in Uninitialized THEN 0 ELSE 1
  BY <1>1, <1>2 DEF IInv, InitPhase, Finish, Finished, Uninitialized, InProcess
<1>11. InitPhase'
  <2>1. ASSUME NEW b \in Actors, at'[b] = "resume" PROVE initialized'
    <3>1. CASE at[b] = "resume"
      BY <3>1 DEF IInv, TypeOK, InitPhase, Finish
    <3>2. CASE at[b] # "resume"
      BY <2>1, <3>2, <1>2, <1>6, <1>9 DEF Uninitialized
    <3> QED
      BY <3>1, <3>2
  <2> QED
    BY <2>1, <1>9, <1>10 DEF InitPhase
<1>12. ListenerMatchesState'
  BY <1>1, <1>2 DEF IInv, ListenerMatchesState, Finish, Finished, sigVars,
     InProcess
<1>13. ListenerLetsStopFinish' /\ ShutdownPhase'
  <2>1. at[Handler] = "idle" => at'[Handler] = "idle"
    BY <1>1, HandlerIsActor DEF Finish, Emit, InProcess, Finished
  <2> QED
    BY <1>1, <1>2, <1>5, <2>1 DEF IInv, ListenerLetsStopFinish, ShutdownPhase,
       Finish, Finished, sigVars, InProcess
<1> QED
  BY <1>7, <1>8, <1>11, <1>12, <1>13 DEF IInv

LEMMA FailIInv == ASSUME IInv, NEW a \in Actors, Fail(a) PROVE IInv'
<1>1. op[a] \in Operations \cup {"none"}
  BY DEF IInv, TypeOK
<1>2. TypeOK'
  BY <1>1 DEF IInv, TypeOK, Fail, Leave, appVars, sigVars
<1>3. OneOperation' /\ NoLostWakeup'
  BY DEF IInv, TypeOK, OneOperation, NoLostWakeup, Fail, Leave, appVars,
     InProcess, Settled
<1>4. /\ InitPhase' /\ ListenerMatchesState' /\ ListenerLetsStopFinish'
      /\ ShutdownPhase'
  BY DEF IInv, TypeOK, InitPhase, ListenerMatchesState, ShutdownPhase,
     ListenerLetsStopFinish, Fail, Leave, appVars, sigVars
<1> QED
  BY <1>2, <1>3, <1>4 DEF IInv

LEMMA ContextErrorIInv == ASSUME IInv, ContextError PROVE IInv'
<1>1. \A b \in Actors : at'[b] = IF at[b] \in Settled THEN "idle" ELSE at[b]
  BY DEF ContextError
<1>2. TypeOK'
  BY DEF IInv, TypeOK, ContextError, appVars, sigVars
<1>3. OneOperation' /\ NoLostWakeup'
  BY <1>1 DEF IInv, OneOperation, NoLostWakeup, ContextError, appVars,
     InProcess, Settled
<1>4. /\ InitPhase' /\ ListenerMatchesState' /\ ListenerLetsStopFinish'
      /\ ShutdownPhase'
  BY <1>1, HandlerIsActor DEF IInv, InitPhase, ListenerMatchesState, ShutdownPhase,
     ListenerLetsStopFinish, ContextError, appVars, sigVars
<1> QED
  BY <1>2, <1>3, <1>4 DEF IInv

\* The steps that touch only the listener and the process: a signal nobody
\* traps, the end of the listener and its timer.
LEMMA ProcessIInv ==
    ASSUME IInv, UntrappedSignal \/ HandlerEnds \/ TimerFires
    PROVE  IInv'
<1> USE DEF UntrappedSignal, HandlerEnds, TimerFires
<1>0. \/ listeners = 0 /\ listeners' = 0 /\ dead' = TRUE
      \/ listeners = 1 /\ listeners' = 0 /\ dead' = TRUE
      \/ listeners > 1 /\ listeners' = listeners - 1 /\ dead' = FALSE
  BY KillEffect
<1>1. UNCHANGED <<appVars, callVars>>
  OBVIOUS
<1>2. TypeOK'
  <2>1. listeners' \in Nat
    BY <1>0 DEF IInv, TypeOK
  <2>2. dead' \in BOOLEAN
    BY <1>0
  <2>3. timer' \in BOOLEAN /\ shutdown' \in {"no", "active", "over"}
    BY DEF IInv, TypeOK
  <2> QED
    BY <1>1, <2>1, <2>2, <2>3 DEF IInv, TypeOK, appVars, callVars
<1>3. OneOperation' /\ NoLostWakeup' /\ InitPhase'
  BY <1>0, <1>1 DEF IInv, OneOperation, NoLostWakeup, InitPhase, appVars, callVars
<1>4. ListenerMatchesState'
  BY <1>0, <1>1 DEF IInv, TypeOK, ListenerMatchesState, ShutdownPhase, appVars, callVars
<1>5. ListenerLetsStopFinish'
  BY <1>0, <1>1 DEF IInv, TypeOK, ListenerLetsStopFinish, ShutdownPhase, appVars,
     callVars
<1>6. ShutdownPhase'
  BY <1>0, <1>1 DEF IInv, TypeOK, ShutdownPhase, appVars, callVars
<1> QED
  BY <1>2, <1>3, <1>4, <1>5, <1>6 DEF IInv

\* Every step preserves the invariant.
LEMMA NextIInv == IInv /\ [Next]_vars => IInv'
<1> SUFFICES ASSUME IInv, [Next]_vars PROVE IInv'
  OBVIOUS
<1>1. ASSUME NEW c \in Callers, InitOp(c) PROVE IInv'
  BY <1>1, InitBodyIInv DEF InitOp, CanCall
<1>2. ASSUME NEW c \in Callers, Start(c) PROVE IInv'
  BY <1>2, InitBodyIInv, StartBodyIInv DEF Start, CanCall
<1>3. ASSUME NEW c \in Callers, ResumeStart(c) PROVE IInv'
  <2>1. initialized
    BY <1>3 DEF ResumeStart, IInv, InitPhase, Actors
  <2> QED
    BY <1>3, <2>1, StartBodyIInv DEF ResumeStart
<1> QED
  BY <1>1, <1>2, <1>3, StutterIInv, BootIInv, StopIInv, FinishIInv, FailIInv,
     ContextErrorIInv, SignalIInv, ProcessIInv DEF Next

\* The invariant holds in every state of every behaviour.
THEOREM Invariance == Spec => []IInv
BY InitIInv, NextIInv, PTL DEF Spec

\* Every variable keeps to its type.
THEOREM TypeCorrect == Spec => []TypeOK
BY Invariance, PTL DEF IInv

\* assertNotInProcess(): no two operations are ever in process together.
THEOREM OneOperationAtATime == Spec => []OneOperation
BY Invariance, PTL DEF IInv

\* awaitState(): no call waits for an event that was already emitted.
THEOREM NoWakeupIsLost == Spec => []NoLostWakeup
BY Invariance, PTL DEF IInv

\* init(): the observers are initialized at most once.
THEOREM InitAtMostOnce == Spec => []InitOnce
<1>1. IInv => InitOnce
  BY DEF IInv, InitPhase, InitOnce
<1> QED
  BY <1>1, Invariance, PTL

\* start() and stop() reach the observers only after init(), boot() before.
THEOREM InitInBetween == Spec => []InitBetween
<1>1. IInv => InitBetween
  BY DEF IInv, OneOperation, InitPhase, InitBetween, InProcess, Uninitialized
<1> QED
  BY <1>1, Invariance, PTL

\* setupShutdown(), stop(): no listener leaks and none is missing.
THEOREM NoListenerLeaks == Spec => []ListenerMatchesState
BY Invariance, PTL DEF IInv

\* _signalListener: without a grace period it lets its stop() settle.
THEOREM StopIsNotCutOff == Spec => []ListenerLetsStopFinish
BY Invariance, PTL DEF IInv

\* The observers are initialized once, between boot() and start() or stop().
THEOREM InitIsDisciplined == Spec => []InitDiscipline
BY InitAtMostOnce, InitInBetween, PTL DEF InitDiscipline

\* The listener is there while it is needed and lets stop() settle.
THEOREM ListenerIsDisciplined == Spec => []ListenerDiscipline
BY NoListenerLeaks, StopIsNotCutOff, PTL DEF ListenerDiscipline

-----------------------------------------------------------------------------
(* Steps                                                                   *)

\* No call that awaits an event is at work itself, nor can it be called.
LEMMA AwaitingIsSuspended ==
    ASSUME NEW a \in Actors, at[a] \in Settled
    PROVE  at[a] \notin InProcess \cup {"idle", "resume"}
BY DEF InProcess, Settled

\* A step of a call by c leaves the other calls as they are.
LEMMA OthersKeep ==
    ASSUME NEW c \in Callers, NEW a \in Actors, a # c,
           at \in [Actors -> {"idle", "resume"} \cup InProcess \cup Settled],
           Boot(c) \/ InitOp(c) \/ Start(c) \/ ResumeStart(c) \/ Stop(c)
    PROVE  at'[a] = at[a]
<1>1. \E w \in {"idle"} \cup InProcess \cup Settled : at' = [at EXCEPT ![c] = w]
  BY DEF Boot, InitOp, Start, ResumeStart, Stop, BootBody, InitBody, StartBody,
     StopBody, AwaitState, Refuse, Begin, Leave, Suspend, InProcess, Settled
<1> QED
  BY <1>1

\* awaitState(): a call that awaits an operation goes on only when that operation has
\* ended, or throws when the context emits an error.
THEOREM AwaitersWait == Spec => AwaitsTheOperation
<1>1. ASSUME IInv, Next, NEW a \in Actors, at[a] \in Settled, at'[a] # at[a]
      PROVE  \/ state' = at[a]
             \/ ContextErrors /\ result'[a] = "threw"
  <2>0. at \in [Actors -> {"idle", "resume"} \cup InProcess \cup Settled]
    BY <1>1 DEF IInv, TypeOK
  <2>1. at[a] \notin InProcess \cup {"idle", "resume"}
    BY <1>1, AwaitingIsSuspended
  <2>2. ASSUME NEW c \in Callers,
               Boot(c) \/ InitOp(c) \/ Start(c) \/ ResumeStart(c) \/ Stop(c)
        PROVE  FALSE
    <3>1. a # c
      BY <2>1, <2>2 DEF Boot, InitOp, Start, ResumeStart, Stop, CanCall
    <3> QED
      BY <1>1, <2>0, <2>2, <3>1, OthersKeep
  <2>3. ASSUME NEW b \in Actors, Finish(b) PROVE state' = at[a]
    <3>1. a # b
      BY <2>1, <2>3 DEF Finish
    <3>2. at[a] = Finished[at[b]]
      BY <1>1, <2>3, <3>1 DEF Finish, Emit
    <3> QED
      BY <2>3, <3>2 DEF Finish, Emit
  <2>4. ASSUME NEW b \in Actors, Fail(b) PROVE FALSE
    <3>1. a # b
      BY <2>1, <2>4 DEF Fail
    <3> QED
      BY <1>1, <2>0, <2>4, <3>1 DEF Fail, Leave
  <2>5. CASE Signal
    <3>1. state \in {"starting", "started"}
      BY <1>1, <2>5 DEF IInv, ListenerMatchesState, Signal, TypeOK
    <3>2. at[a] = "started"  =>  state = "starting"
      BY <1>1, <3>1 DEF IInv, NoLostWakeup, InProcess
    <3>3. a # Handler
      BY <2>1, <2>5, <1>1 DEF IInv, ShutdownPhase, Signal
    <3>4. at'[a] = at[a]
      BY <2>0, <2>5, <3>3 DEF Signal, StopBody, Leave, AwaitState, Refuse, Begin,
         Suspend
    <3> QED
      BY <1>1, <3>4
  <2>6. CASE UntrappedSignal \/ HandlerEnds \/ TimerFires
    BY <1>1, <2>6 DEF UntrappedSignal, HandlerEnds, TimerFires, callVars
  <2>7. CASE ContextError
    BY <1>1, <2>7 DEF ContextError
  <2> QED
    BY <1>1, <2>2, <2>3, <2>4, <2>5, <2>6, <2>7 DEF Next
<1>2. IInv /\ [Next]_vars =>
          [\A a \in Actors :
              at[a] \in Settled /\ at'[a] # at[a] =>
                 \/ state' = at[a]
                 \/ ContextErrors /\ result'[a] = "threw"]_vars
  BY <1>1
<1> QED
  BY <1>2, Invariance, PTL DEF Spec, AwaitsTheOperation

\* The application stays stuck, or is not, when the same calls are at work in the same state.
LEMMA SameStuck ==
    ASSUME UNCHANGED state,
           state \in InProcess => \A b \in Actors : at'[b] = state <=> at[b] = state
    PROVE  Stuck' = Stuck
<1>1. Stuck' <=> Stuck
  BY DEF Stuck
<1>2. Stuck \in BOOLEAN /\ Stuck' \in BOOLEAN
  BY Zenon DEF Stuck
<1> QED
  BY <1>1, <1>2, Zenon

\* A call that was not at work and is not now changes nothing about it.
LEMMA LeaveStuck ==
    ASSUME IInv, NEW a \in Actors, at[a] \in {"idle", "resume"},
           NEW w \in {"idle"} \cup Settled, at' = [at EXCEPT ![a] = w], UNCHANGED state
    PROVE  Stuck' = Stuck
<1>1. \A b \in Actors : at'[b] = IF b = a THEN w ELSE at[b]
  BY DEF IInv, TypeOK
<1> QED
  BY <1>1, SameStuck DEF InProcess, Settled

\* A call that begins or ends an operation is at work; the state is stable before or after.
LEMMA NotStuck ==
    ASSUME NEW a \in Actors, at[a] = state \/ state \notin InProcess
    PROVE  Stuck = FALSE
BY DEF Stuck

LEMMA NotStuckNext ==
    ASSUME NEW a \in Actors, at'[a] = state' \/ state' \notin InProcess
    PROVE  Stuck' = FALSE
BY DEF Stuck

\* Who rejects was at work alone.
LEMMA FailSticks ==
    ASSUME IInv, NEW a \in Actors, Fail(a)
    PROVE  at[a] = state /\ state \in InProcess /\ Stuck' = TRUE
<1>1. at[a] = state /\ state \in InProcess
  BY DEF Fail, IInv, OneOperation
<1>2. \A b \in Actors : at'[b] = IF b = a THEN "idle" ELSE at[b]
  BY DEF IInv, TypeOK, Fail, Leave
<1>3. \A b \in Actors : b # a => at[b] # state
  BY <1>1 DEF IInv, OneOperation
<1>4. state' = state
  BY DEF Fail, Leave, appVars
<1>5. \A b \in Actors : at'[b] # state'
  BY <1>1, <1>2, <1>3, <1>4 DEF InProcess
<1> QED
  BY <1>1, <1>4, <1>5 DEF Stuck

\* The machine takes only the steps that Life-cycle.md documents: the safety
\* part of ImplementsContract.
THEOREM ImplementsContractSafety ==
    Spec => Contract!CInit /\ [][Contract!CNext]_(Contract!cvars)
<1> USE DEF Contract!CNext, Contract!BeginOp, Contract!EndOp, Contract!FailOp, Contract!Die,
            Contract!cvars, Contract!Leaves, Contract!Reaches
<1>1. Init => Contract!CInit
  BY DEF Init, Contract!CInit, Stuck, InProcess
<1>2. ASSUME IInv, [Next]_vars
      PROVE  [Contract!CNext]_(Contract!cvars)
  <2>1. ASSUME NEW a \in Actors, NEW o \in Operations,
               NEW s \in {"booting", "initializing", "starting", "stopping"},
               Begin(a, o, s), ~dead, UNCHANGED dead,
               s = "booting" => state = "created",
               s = "initializing" => ~initialized,
               s = "starting" => initialized /\ state # "started",
               s = "stopping" => state \in {"started", "initialized"}
        PROVE  Contract!BeginOp
    <3>1. /\ state \in States \ InProcess
          /\ state' = s /\ initialized' = initialized
      BY <1>2, <2>1 DEF Begin, IInv, TypeOK
    <3>2. initialized = (state \notin Uninitialized \cup {"initializing"})
      BY <1>2 DEF IInv, InitPhase
    <3>3. DOMAIN Contract!Leaves =
             {"created", "booted", "initialized", "started", "stopped"}
      OBVIOUS
    <3>4. state \in {"created", "booted", "initialized", "started", "stopped"}
      BY <3>1 DEF States, InProcess, Settled
    <3>5. s = "booting" => s \in Contract!Leaves[state]
      BY <2>1
    <3>6. s = "initializing" => s \in Contract!Leaves[state]
      <4>1. s = "initializing" => state \in {"created", "booted"}
        BY <2>1, <3>2, <3>4 DEF Uninitialized
      <4> QED
        BY <4>1
    <3>7. s = "starting" => s \in Contract!Leaves[state]
      <4>1. s = "starting" => state \in {"initialized", "stopped"}
        BY <2>1, <3>2, <3>4 DEF Uninitialized
      <4> QED
        BY <4>1
    <3>8. s = "stopping" => s \in Contract!Leaves[state]
      BY <2>1
    <3>9. s \in Contract!Leaves[state]
      BY <2>1, <3>5, <3>6, <3>7, <3>8
    <3>10. at'[a] = state'
      BY <1>2, <2>1 DEF Begin, Suspend, IInv, TypeOK
    <3>11. Stuck = FALSE /\ Stuck' = FALSE
      BY <3>1, <3>10, NotStuck, NotStuckNext
    <3> QED
      BY <2>1, <3>1, <3>3, <3>4, <3>9, <3>11
  <2>2. ASSUME NEW a \in Actors, Finish(a) PROVE Contract!EndOp
    <3>1. at[a] = state /\ state \in InProcess
      BY <2>2, <1>2 DEF Finish, IInv, OneOperation
    <3>2. state' = Finished[state] /\ UNCHANGED dead /\ ~dead
      BY <2>2, <3>1 DEF Finish, Emit, sigVars
    <3>3. Finished[state] = Contract!Reaches[state]
      BY <3>1 DEF Finished, InProcess
    <3>4. Stuck = FALSE /\ Stuck' = FALSE
      <4>1. state' \notin InProcess
        BY <3>1, <3>2 DEF Finished, InProcess
      <4> QED
        BY <3>1, <4>1, NotStuck, NotStuckNext
    <3> QED
      BY <2>2, <3>1, <3>2, <3>3, <3>4 DEF Finish, InProcess
  <2>3. ASSUME UNCHANGED <<state, initialized>>, Stuck' = Stuck, dead' \/ dead' = dead
        PROVE  [Contract!CNext]_(Contract!cvars)
    BY <1>2, <2>3 DEF IInv, TypeOK
  <2>4. ASSUME NEW a \in Actors, ~dead, at[a] \in {"idle", "resume"},
               \/ BootBody(a)
               \/ InitBody(a, "init") \/ InitBody(a, "start")
               \/ initialized /\ StartBody(a)
               \/ /\ \/ StopBody(a, TRUE) \/ StopBody(a, FALSE)
                  /\ UNCHANGED dead
        PROVE  [Contract!CNext]_(Contract!cvars)
    <3>1. UNCHANGED dead
      BY <2>4 DEF BootBody, InitBody, StartBody, sigVars
    <3>2. \/ /\ UNCHANGED appVars
             /\ \E w \in {"idle"} \cup Settled : at' = [at EXCEPT ![a] = w]
          \/ state = "created" /\ Begin(a, "boot", "booting")
          \/ ~initialized /\ \E o \in Operations : Begin(a, o, "initializing")
          \/ /\ initialized /\ state # "started"
             /\ Begin(a, "start", "starting")
          \/ /\ state \in {"started", "initialized"}
             /\ Begin(a, "stop", "stopping")
      BY <2>4 DEF BootBody, InitBody, StartBody, StopBody, AwaitState, Refuse,
         Leave, Suspend, Operations, Settled
    <3>3. CASE /\ UNCHANGED appVars
               /\ \E w \in {"idle"} \cup Settled : at' = [at EXCEPT ![a] = w]
      <4>1. Stuck' = Stuck
        BY <1>2, <2>4, <3>3, LeaveStuck DEF appVars
      <4> QED
        BY <2>3, <3>1, <3>3, <4>1 DEF appVars
    <3> QED
      BY <2>1, <2>4, <3>1, <3>2, <3>3 DEF Operations
  <2>5. ASSUME NEW c \in Callers,
               Boot(c) \/ InitOp(c) \/ Start(c) \/ ResumeStart(c) \/ Stop(c)
        PROVE  [Contract!CNext]_(Contract!cvars)
    <3>1. c \in Actors /\ ~dead /\ at[c] \in {"idle", "resume"}
      BY <2>5 DEF Actors, Boot, InitOp, Start, ResumeStart, Stop, CanCall
    <3>2. CASE ResumeStart(c)
      <4>1. initialized
        BY <1>2, <3>1, <3>2 DEF IInv, InitPhase, ResumeStart
      <4> QED
        BY <2>4, <3>1, <3>2, <4>1 DEF ResumeStart
    <3>3. CASE Stop(c)
      <4>1. StopBody(c, TRUE) \/ StopBody(c, FALSE)
        BY <3>3 DEF Stop, StopBody
      <4> QED
        BY <2>4, <3>1, <3>3, <4>1 DEF Stop
    <3> QED
      BY <2>4, <2>5, <3>1, <3>2, <3>3 DEF Boot, InitOp, Start
  <2>6. CASE Signal
    <3>1. Handler \in Actors /\ at[Handler] = "idle"
      BY <1>2, <2>6, HandlerIsActor DEF Signal, IInv, ShutdownPhase
    <3>2. CASE StopBody(Handler, TRUE) /\ UNCHANGED dead
      BY <2>4, <2>6, <3>1, <3>2 DEF Signal
    <3>3. CASE /\ UNCHANGED <<state, initialized>> /\ Kill
               /\ at' = [at EXCEPT ![Handler] = "idle"]
      <4>1. dead' \/ dead' = dead
        BY <1>2, <2>6, <3>3, KillEffect DEF Signal, IInv, TypeOK
      <4>2. Stuck' = Stuck
        BY <1>2, <3>1, <3>3, LeaveStuck
      <4> QED
        BY <2>3, <3>3, <4>1, <4>2
    <3> QED
      BY <2>6, <3>2, <3>3 DEF Signal, Leave, appVars
  <2>7. CASE HandlerEnds \/ TimerFires
    <3>1. UNCHANGED <<state, initialized>> /\ Kill /\ ~dead
      BY <2>7 DEF HandlerEnds, TimerFires, appVars
    <3>2. dead' \/ dead' = dead
      BY <1>2, <3>1, KillEffect DEF IInv, TypeOK
    <3>3. Stuck' = Stuck
      BY <2>7, <3>1, SameStuck DEF HandlerEnds, TimerFires, callVars
    <3> QED
      BY <2>3, <3>1, <3>2, <3>3
  <2>8. CASE UntrappedSignal
    <3>1. Stuck' = Stuck
      BY <2>8, SameStuck DEF UntrappedSignal, appVars, callVars
    <3> QED
      BY <2>3, <2>8, <3>1 DEF UntrappedSignal, appVars
  <2>9. ASSUME NEW a \in Actors, Fail(a)
        PROVE  [Contract!CNext]_(Contract!cvars)
    <3>1. at[a] = state /\ state \in InProcess /\ Stuck' = TRUE
      BY <1>2, <2>9, FailSticks
    <3>2. Stuck = FALSE
      BY <3>1, NotStuck
    <3>3. ~dead /\ UNCHANGED <<state, initialized, dead>>
      BY <2>9 DEF Fail, Leave, appVars, sigVars
    <3> QED
      BY <3>1, <3>2, <3>3 DEF InProcess
  <2>10. CASE ContextError \/ UNCHANGED vars
    <3>1. UNCHANGED <<state, initialized, dead>>
      BY <2>10 DEF ContextError, vars, appVars, sigVars
    <3>2. \A b \in Actors : at'[b] = at[b] \/ (at[b] \in Settled /\ at'[b] = "idle")
      BY <2>10 DEF ContextError, vars, callVars
    <3>3. Stuck' = Stuck
      BY <3>1, <3>2, SameStuck DEF InProcess, Settled
    <3> QED
      BY <2>3, <3>1, <3>3
  <2> QED
    BY <1>2, <2>2, <2>5, <2>6, <2>7, <2>8, <2>9, <2>10 DEF Next
<1> QED
  BY <1>1, <1>2, Invariance, PTL DEF Spec
=============================================================================

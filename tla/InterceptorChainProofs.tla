------------------------ MODULE InterceptorChainProofs ------------------------
(***************************************************************************)
(* Proofs about InterceptorChain, for any invocations, interceptors and    *)
(* target: the inductive invariant IInv, and the safety properties that    *)
(* follow from it.  Then about InterceptorOrder and MiddlewareOrder, for   *)
(* any keys, groups and sources: what is in a chain, and in which order.   *)
(***************************************************************************)
EXTENDS InterceptorChain, MiddlewareOrder, DataFacts, FiniteSetTheorems, TLAPS

USE ChainConstants

\* The chain of a method ends with its target, and no other has it.
Shaped(i) ==
    IF i \in Methods
    THEN calls[i] # <<>> => /\ Len(chain[i]) > 0
                            /\ \A p \in DOMAIN chain[i] :
                                  chain[i][p] = Target <=> p = Len(chain[i])
    ELSE \A p \in DOMAIN chain[i] : chain[i][p] # Target

\* The index counts the calls until the chain is done, and call n of next()
\* starts the n-th of the chain.
Counted(i) ==
    /\ index[i] = IF Len(calls[i]) <= Len(chain[i]) THEN Len(calls[i]) ELSE Len(chain[i])
    /\ \A g \in DOMAIN calls[i] :
          calls[i][g].at = IF g <= Len(chain[i]) THEN g ELSE Len(chain[i]) + 1

\* The calls are a tree with call 1 at its root: an earlier call of an
\* interceptor that has been loaded made each of the others.
Tree(i) ==
    \A g \in DOMAIN calls[i] :
        LET f == calls[i][g].by
        IN  /\ f < g
            /\ f = 0 => g = 1
            /\ f # 0 => /\ calls[i][f].phase # "loading"
                        /\ calls[i][f].at <= Len(chain[i])
                        /\ chain[i][calls[i][f].at] # Target

\* As long as nobody calls next() twice, each call makes the one after it.
Linear(i) == SecondCall(i) \/ \A g \in DOMAIN calls[i] : calls[i][g].by = g - 1

\* Undefined comes from beyond the end of the chain.
FromBeyond(i) ==
    \A g \in DOMAIN calls[i] :
        calls[i][g].value = "undefined" => i \notin Methods \/ Len(calls[i]) > Len(chain[i])

\* Who waits for its calls of next() settles after them, and makes another
\* one after those before.
Waited(i) == Waits(i) =>
    \A g, h \in DOMAIN calls[i] :
        /\ calls[i][h].by = g /\ Settled(i, g) => Settled(i, h)
        /\ g < h /\ calls[i][g].by = calls[i][h].by => Settled(i, g)

InvocationInv(i) ==
    /\ Shaped(i) /\ Counted(i) /\ Tree(i)
    /\ Linear(i) /\ FromBeyond(i) /\ Waited(i)

IInv ==
    /\ TypeOK
    /\ \A i \in Invocations : InvocationInv(i)
    /\ \A i \in closed : Finished(i)

-----------------------------------------------------------------------------
\* Init puts the invocations in a state that satisfies the invariant.
LEMMA InitIInv == Init => IInv
<1> SUFFICES ASSUME Init PROVE IInv
  OBVIOUS
<1>1. TypeOK
  <2>1. /\ <<>> \in Seq(Seq(Interceptors)) /\ <<>> \in Seq(Steps \cup {Target})
        /\ <<>> \in Seq(Call)
    OBVIOUS
  <2> QED
    BY <2>1 DEF Init, TypeOK
<1>2. ASSUME NEW i \in Invocations PROVE InvocationInv(i)
  <2>1. calls[i] = <<>> /\ chain[i] = <<>> /\ index[i] = 0
    BY DEF Init
  <2> QED
    BY <2>1 DEF InvocationInv, Shaped, Counted, Tree, Linear, FromBeyond, Waited, Waits
<1> QED
  BY <1>1, <1>2 DEF Init, IInv

\* What InvocationInv(i) says depends on invocation i only.
LEMMA FrameInv ==
    ASSUME NEW i, InvocationInv(i), calls'[i] = calls[i], chain'[i] = chain[i],
           index'[i] = index[i]
    PROVE  InvocationInv(i)'
BY DEF InvocationInv, Shaped, Counted, Tree, Linear, SecondCall, FromBeyond, Waited,
       Waits, Settled

\* The invariant says nothing of values a stuttering step could change.
LEMMA StutterIInv == IInv /\ UNCHANGED vars => IInv'
BY FrameInv DEF IInv, TypeOK, vars, Finished, Settled

\* What the types say of one invocation.
LEMMA Types ==
    ASSUME TypeOK, NEW i \in Invocations
    PROVE  /\ chain[i] \in Seq(Steps \cup {Target}) /\ Len(chain[i]) \in Nat
           /\ DOMAIN chain[i] = 1 .. Len(chain[i])
           /\ calls[i] \in Seq(Call) /\ Len(calls[i]) \in Nat
           /\ DOMAIN calls[i] = 1 .. Len(calls[i]) /\ index[i] \in Nat
           /\ \A g \in DOMAIN calls[i] : /\ calls[i][g] \in Call
                                        /\ calls[i][g].by \in Nat
                                        /\ calls[i][g].at \in Nat \ {0}
<1>1. chain[i] \in Seq(Steps \cup {Target}) /\ calls[i] \in Seq(Call) /\ index[i] \in Nat
  BY DEF TypeOK
<1>2. \A g \in DOMAIN calls[i] : calls[i][g] \in Call
  BY <1>1
<1> QED
  BY <1>1, <1>2 DEF Call

\* A call is the last one or one of those before it.
LEMMA UpTo == ASSUME NEW n \in Nat, NEW h \in 1 .. n + 1, h # n + 1 PROVE h \in 1 .. n
OBVIOUS

\* The record of a call starts where the state of the chain is.
LEMMA StartedCall ==
    ASSUME NEW i, NEW c \in Seq(Steps \cup {Target}), NEW k \in 0 .. Len(c), NEW by \in Nat
    PROVE  LET s == Started(i, c, k, by)
           IN  /\ s \in Call /\ s.at = k + 1 /\ s.by = by
               /\ s.value = "undefined" => k = Len(c)
BY DEF Started, Call, Ended

\* What is sorted is a sequence of interceptors.
LEMMA SortedType ==
    ASSUME NEW S \in SUBSET Interceptors, NEW s \in Sorted(S)
    PROVE  s \in Seq(Interceptors)
<1>1. Cardinality(Interceptors) \in Nat
  BY FS_CardinalityType
<1>2. PICK n \in 0 .. Cardinality(Interceptors) : s \in [1 .. n -> S]
  BY DEF Sorted
<1> QED
  BY <1>1, <1>2

\* An invocation that begins makes its first call.
LEMMA BeginInv ==
    ASSUME IInv, NEW i \in Invocations, NEW c \in Seq(Steps \cup {Target}),
           calls[i] = <<>>, Begin(i, c),
           IF i \in Methods
           THEN /\ Len(c) > 0
                /\ \A p \in DOMAIN c : c[p] = Target <=> p = Len(c)
           ELSE \A p \in DOMAIN c : c[p] # Target,
           UNCHANGED <<registered, closed, notified>>,
           cached' \in Seq(Seq(Interceptors))
    PROVE  IInv'
<1> DEFINE s == Started(i, c, 0, 0)
<1>1. /\ s \in Call /\ s.at = 1 /\ s.by = 0
      /\ s.value = "undefined" => 0 = Len(c)
  <2>1. 0 \in 0 .. Len(c) /\ 0 \in Nat /\ 0 + 1 = 1
    OBVIOUS
  <2>2. LET t == Started(i, c, 0, 0)
        IN  /\ t \in Call /\ t.at = 0 + 1 /\ t.by = 0
            /\ t.value = "undefined" => 0 = Len(c)
    BY ONLY <2>1, StartedCall
  <2> QED
    BY ONLY <2>1, <2>2
<1> HIDE DEF s
<1>2. calls' = [calls EXCEPT ![i] = <<s>>]
  BY DEF Begin, s
<1>3. chain' = [chain EXCEPT ![i] = c] /\ index' = [index EXCEPT ![i] = Advance(c, 0)]
  BY DEF Begin
<1>4. TypeOK'
  BY <1>1, <1>2, <1>3 DEF IInv, TypeOK, Advance
<1>5. calls'[i] = <<s>> /\ chain'[i] = c /\ index'[i] = Advance(c, 0)
  BY <1>2, <1>3 DEF IInv, TypeOK
<1>6. InvocationInv(i)'
  <2>1. DOMAIN <<s>> = {1} /\ <<s>>[1] = s /\ Len(<<s>>) = 1
    OBVIOUS
  <2>2. Shaped(i)'
    BY <1>5 DEF Shaped
  <2>3. Counted(i)'
    BY <1>1, <1>5, <2>1 DEF Counted, Advance
  <2>4. Tree(i)' /\ Linear(i)'
    BY <1>1, <1>5, <2>1 DEF Tree, Linear
  <2>5. FromBeyond(i)'
    BY <1>1, <1>5, <2>1 DEF FromBeyond
  <2>6. Waited(i)'
    BY <1>1, <1>5, <2>1 DEF Waited
  <2> QED
    BY <2>2, <2>3, <2>4, <2>5, <2>6 DEF InvocationInv
<1>7. ASSUME NEW j \in Invocations, j # i PROVE InvocationInv(j)'
  <2>1. calls'[j] = calls[j] /\ chain'[j] = chain[j] /\ index'[j] = index[j]
    BY <1>2, <1>3, <1>7 DEF IInv, TypeOK
  <2> QED
    BY <2>1, FrameInv DEF IInv
<1>8. \A j \in closed' : Finished(j)'
  BY <1>2 DEF IInv, TypeOK, Finished, Settled
<1> QED
  BY <1>4, <1>6, <1>7, <1>8 DEF IInv

LEMMA InvokeMethodIInv ==
    ASSUME IInv, NEW i \in Invocations, InvokeMethod(i) PROVE IInv'
<1>1. PICK s \in Sorted(registered) : Begin(i, MethodChain(s))
  BY DEF InvokeMethod
<1>2. s \in Seq(Interceptors)
  BY <1>1, SortedType DEF IInv, TypeOK
<1>3. Local \in Seq(Steps) /\ Interceptors \subseteq Steps
  BY DEF Steps
<1> DEFINE t == s \o Local
<1>4. t \in Seq(Steps)
  BY <1>2, <1>3
<1>5. MethodChain(s) = Append(t, Target)
  BY <1>4 DEF MethodChain
<1> HIDE DEF t
<1> DEFINE c == MethodChain(s)
<1>6. /\ c \in Seq(Steps \cup {Target}) /\ Len(c) > 0
      /\ \A p \in DOMAIN c : c[p] = Target <=> p = Len(c)
  BY <1>4, <1>5
<1> QED
  BY <1>1, <1>6, BeginInv DEF InvokeMethod, IInv, TypeOK

LEMMA InvokeInterceptorsIInv ==
    ASSUME IInv, NEW i \in Invocations, InvokeInterceptors(i) PROVE IInv'
<1>1. PICK s \in Sorted(registered) \cup {cached[p] : p \in DOMAIN cached} :
         cached' = <<s>> /\ Begin(i, s)
  BY DEF InvokeInterceptors
<1>2. s \in Seq(Interceptors)
  <2>1. CASE s \in Sorted(registered)
    BY <2>1, SortedType DEF IInv, TypeOK
  <2>2. CASE s \in {cached[p] : p \in DOMAIN cached}
    BY <2>2 DEF IInv, TypeOK
  <2> QED
    BY <1>1, <2>1, <2>2
<1>3. s \in Seq(Steps \cup {Target}) /\ \A p \in DOMAIN s : s[p] # Target
  BY <1>2 DEF Steps
<1>4. <<s>> \in Seq(Seq(Interceptors))
  BY <1>2
<1> QED
  BY <1>1, <1>3, <1>4, BeginInv DEF InvokeInterceptors

-----------------------------------------------------------------------------
\* A call that goes on to another phase leaves the invariant as it is if, when
\* it is waited for, it does not settle before the calls it made.
LEMMA PhaseInv ==
    ASSUME IInv, NEW i \in Invocations, NEW g \in DOMAIN calls[i],
           NEW phase \in {"running"} \cup Ended,
           NEW value \in {"none", "own", "target", "undefined"},
           ~Settled(i, g),
           calls' = [calls EXCEPT ![i][g].phase = phase, ![i][g].value = value],
           UNCHANGED <<registered, cached, notified, chain, index, closed>>,
           Waits(i) => \A h \in Made(i, g) : Settled(i, h),
           value = "undefined" => \E h \in DOMAIN calls[i] : calls[i][h].value = "undefined"
    PROVE  IInv'
<1> DEFINE q == [calls[i][g] EXCEPT !.phase = phase, !.value = value]
<1>0. /\ calls \in [Invocations -> Seq(Call)] /\ calls[i] \in Seq(Call)
      /\ Len(calls[i]) \in Nat /\ DOMAIN calls[i] = 1 .. Len(calls[i])
      /\ \A h \in DOMAIN calls[i] : calls[i][h] \in Call /\ calls[i][h].by \in Nat
  BY Types DEF IInv, TypeOK
<1>1. /\ q \in Call /\ q.at = calls[i][g].at /\ q.by = calls[i][g].by
      /\ q.phase = phase /\ q.value = value
  BY <1>0 DEF Call, Ended
<1>2. calls' = [calls EXCEPT ![i] = [@ EXCEPT ![g] = q]]
  BY <1>0 DEF Call
<1> HIDE DEF q
<1>3. /\ calls'[i] = [calls[i] EXCEPT ![g] = q]
      /\ \A j \in Invocations \ {i} : calls'[j] = calls[j]
      /\ calls' \in [Invocations -> Seq(Call)]
  <2>1. [calls[i] EXCEPT ![g] = q] \in Seq(Call)
    BY <1>0, <1>1
  <2>2. calls' = [calls EXCEPT ![i] = [calls[i] EXCEPT ![g] = q]]
    BY <1>2
  <2> HIDE ChainConstants
  <2> QED
    BY ONLY <1>0, <2>1, <2>2
<1>4. /\ DOMAIN calls'[i] = DOMAIN calls[i] /\ Len(calls'[i]) = Len(calls[i])
      /\ calls'[i][g] = q
      /\ \A h \in DOMAIN calls[i] \ {g} : calls'[i][h] = calls[i][h]
  BY <1>0, <1>3
<1>5. /\ \A h \in DOMAIN calls[i] : /\ calls'[i][h].at = calls[i][h].at
                                    /\ calls'[i][h].by = calls[i][h].by
                                    /\ Settled(i, h) => calls'[i][h].phase \in Ended
                                    /\ h # g => calls'[i][h].phase = calls[i][h].phase
      /\ calls'[i][g].phase # "loading"
  BY <1>1, <1>4 DEF Settled, Ended
<1>6. TypeOK'
  BY <1>3 DEF IInv, TypeOK
<1>7. InvocationInv(i)'
  <2>0. InvocationInv(i)
    BY DEF IInv
  <2>1. Shaped(i)' /\ Counted(i)'
    BY <2>0, <1>0, <1>4, <1>5 DEF InvocationInv, Shaped, Counted
  <2>2. Tree(i)'
    <3> SUFFICES ASSUME NEW h \in DOMAIN calls[i], NEW f, f = calls[i][h].by
                 PROVE  /\ f < h
                        /\ f = 0 => h = 1
                        /\ f # 0 => /\ calls'[i][f].phase # "loading"
                                    /\ calls'[i][f].at <= Len(chain[i])
                                    /\ chain[i][calls'[i][f].at] # Target
      BY <1>0, <1>4, <1>5 DEF Tree
    <3>1. /\ f < h
          /\ f = 0 => h = 1
          /\ f # 0 => /\ calls[i][f].phase # "loading"
                      /\ calls[i][f].at <= Len(chain[i])
                      /\ chain[i][calls[i][f].at] # Target
      BY <2>0 DEF InvocationInv, Tree
    <3>2. f # 0 => f \in DOMAIN calls[i]
      BY <3>1, <1>0 DEF Call
    <3> QED
      BY <3>1, <3>2, <1>4, <1>5 DEF Ended
  <2>3. Linear(i)'
    <3>1. ASSUME SecondCall(i) PROVE SecondCall(i)'
      <4>1. PICK a, h \in DOMAIN calls[i] : a < h /\ calls[i][a].by = calls[i][h].by
        BY <3>1 DEF SecondCall
      <4>2. /\ a \in DOMAIN calls'[i] /\ h \in DOMAIN calls'[i]
            /\ calls'[i][a].by = calls'[i][h].by
        BY <4>1, <1>4, <1>5
      <4> QED
        BY <4>1, <4>2 DEF SecondCall
    <3> QED
      BY <2>0, <3>1, <1>4, <1>5 DEF InvocationInv, Linear
  <2>4. FromBeyond(i)'
    BY <2>0, <1>1, <1>4 DEF InvocationInv, FromBeyond
  <2>5. Waited(i)'
    <3> SUFFICES ASSUME Waits(i)', NEW a \in DOMAIN calls[i], NEW h \in DOMAIN calls[i]
                 PROVE  /\ calls'[i][h].by = a /\ Settled(i, a)' => Settled(i, h)'
                        /\ a < h /\ calls'[i][a].by = calls'[i][h].by => Settled(i, a)'
      BY <1>4 DEF Waited
    <3>0. Waits(i)
      BY DEF Waits
    <3>1. /\ calls[i][h].by = a /\ Settled(i, a) => Settled(i, h)
          /\ a < h /\ calls[i][a].by = calls[i][h].by => Settled(i, a)
      BY <2>0, <3>0 DEF InvocationInv, Waited
    <3>2. CASE a = g
      BY <3>0, <3>1, <3>2, <1>5 DEF Made, Settled, Ended
    <3>3. CASE a # g
      BY <3>1, <3>3, <1>5 DEF Settled, Ended
    <3> QED
      BY <3>2, <3>3
  <2> QED
    BY <2>1, <2>2, <2>3, <2>4, <2>5 DEF InvocationInv
<1>8. ASSUME NEW j \in Invocations, j # i PROVE InvocationInv(j)'
  BY <1>3, <1>8, FrameInv DEF IInv
<1>9. ASSUME NEW j \in closed PROVE Finished(j)'
  <2>1. Finished(j) /\ j \in Invocations
    BY DEF IInv, TypeOK
  <2>2. CASE j = i
    <3>1. calls[i] # <<>> /\ Settled(i, 1) /\ 1 \in DOMAIN calls[i]
      BY <2>1, <2>2, <1>0 DEF Finished
    <3>2. calls'[i] # <<>>
      <4>1. 1 \in DOMAIN calls'[i] /\ 1 \notin DOMAIN <<>>
        BY <3>1, <1>4
      <4> QED
        BY <4>1
    <3>3. Settled(i, 1)'
      BY <3>1, <1>5 DEF Settled, Ended
    <3> QED
      BY <2>2, <3>2, <3>3 DEF Finished
  <2>3. CASE j # i
    BY <2>1, <2>3, <1>3 DEF Finished, Settled
  <2> QED
    BY <2>2, <2>3
<1>10. \A j \in Invocations : InvocationInv(j)'
  BY <1>7, <1>8
<1>11. (\A j \in closed : Finished(j))'
  BY <1>9
<1>12. (\A j \in Invocations : InvocationInv(j))'
  BY ONLY <1>10
<1> QED
  BY ONLY <1>6, <1>11, <1>12 DEF IInv

LEMMA LoadIInv ==
    ASSUME IInv, NEW i \in Invocations, NEW g \in DOMAIN calls[i], Load(i, g) PROVE IInv'
<1>1. calls[i] \in Seq(Call) /\ calls[i][g] \in Call
  BY DEF IInv, TypeOK
<1>2. PICK phase \in {"running", "failed"} : calls' = [calls EXCEPT ![i][g].phase = phase]
  BY DEF Load
<1> DEFINE value == calls[i][g].value
<1>3. value \in {"none", "own", "target", "undefined"}
  BY <1>1 DEF Call
<1>4. calls' = [calls EXCEPT ![i][g].phase = phase, ![i][g].value = value]
  <2>1. calls \in [Invocations -> Seq(Call)] /\ g \in DOMAIN calls[i]
    BY DEF IInv, TypeOK
  <2>2. calls[i][g] \in [at : Nat \ {0}, by : Nat, phase : {"loading", "running"} \cup Ended,
                        value : {"none", "own", "target", "undefined"}]
    BY <1>1 DEF Call
  <2> QED
    BY ONLY <1>1, <1>2, <2>1, <2>2
<1>5. \A h \in DOMAIN calls[i] : calls[i][h].by # g
  <2>1. g # 0 /\ calls[i][g].phase = "loading"
    BY Types DEF IInv, Load
  <2> QED
    BY <2>1 DEF IInv, InvocationInv, Tree
<1>6. Made(i, g) = {} /\ ~Settled(i, g)
  BY <1>5 DEF Made, Settled, Ended, Load
<1> HIDE DEF value
<1>7. value = "undefined" => \E h \in DOMAIN calls[i] : calls[i][h].value = "undefined"
  BY DEF value
<1> QED
  BY <1>2, <1>3, <1>4, <1>6, <1>7, PhaseInv DEF Load, Ended

LEMMA AnswerIInv ==
    ASSUME IInv, NEW i \in Invocations, NEW g \in DOMAIN calls[i], Answer(i, g) PROVE IInv'
<1>1. ~Settled(i, g) /\ g \in DOMAIN calls[i]
  BY DEF Answer, Interceptor, Settled, Ended
<1>2. Waits(i) => Made(i, g) = {}
  <2>1. calls[i][g].at \in DOMAIN chain[i]
    BY Types DEF Answer, Interceptor, IInv
  <2> QED
    BY <2>1 DEF Answer, Interceptor, StyleOf, Waits
<1> QED
  BY <1>1, <1>2, PhaseInv DEF Answer, EndAs, Ended

LEMMA PassOnIInv ==
    ASSUME IInv, NEW i \in Invocations, NEW g \in DOMAIN calls[i], PassOn(i, g) PROVE IInv'
<1>1. ~Settled(i, g)
  BY DEF PassOn, Interceptor, Settled, Ended
<1>2. PICK h \in Made(i, g) : /\ \A o \in Made(i, g) : o <= h
                              /\ Settled(i, h)
                              /\ EndAs(i, g, calls[i][h].phase, calls[i][h].value)
  BY DEF PassOn
<1>3. h \in DOMAIN calls[i] /\ calls[i][h] \in Call /\ calls[i][h].by = g
  BY <1>2 DEF Made, IInv, TypeOK
<1>4. ASSUME Waits(i), NEW o \in Made(i, g) PROVE Settled(i, o)
  <2>1. o \in DOMAIN calls[i] /\ calls[i][o].by = g /\ o \in Nat /\ h \in Nat
    BY <1>3 DEF Made, IInv, TypeOK
  <2>2. o = h \/ o < h
    BY <1>2, <2>1
  <2> QED
    BY <1>2, <1>3, <1>4, <2>1, <2>2 DEF IInv, InvocationInv, Waited
<1>5. calls[i][h].phase \in Ended /\ calls[i][h].value \in {"none", "own", "target", "undefined"}
  BY <1>2, <1>3 DEF Settled, Call
<1> QED
  BY <1>1, <1>2, <1>3, <1>4, <1>5, PhaseInv DEF EndAs

LEMMA ThrowIInv ==
    ASSUME IInv, NEW i \in Invocations, NEW g \in DOMAIN calls[i], Throw(i, g) PROVE IInv'
<1>1. ~Settled(i, g)
  BY DEF Throw, Interceptor, Settled, Ended
<1> QED
  BY <1>1, PhaseInv DEF Throw, EndAs, Ended

LEMMA RunTargetIInv ==
    ASSUME IInv, NEW i \in Invocations, NEW g \in DOMAIN calls[i], RunTarget(i, g)
    PROVE  IInv'
<1>1. ~Settled(i, g) /\ g # 0
  BY DEF RunTarget, Settled, Ended, IInv, TypeOK
<1>2. Made(i, g) = {}
  <2>1. SUFFICES ASSUME NEW h \in DOMAIN calls[i], calls[i][h].by = g PROVE FALSE
    BY DEF Made
  <2>2. calls[i][g].at <= Len(chain[i]) /\ chain[i][calls[i][g].at] # Target
    BY <2>1, <1>1 DEF IInv, InvocationInv, Tree
  <2>3. calls[i][g].at \in Nat /\ Len(chain[i]) \in Nat
    BY Types DEF IInv
  <2> QED
    BY <2>2, <2>3 DEF RunTarget, IsTarget
<1>3. PICK phase \in Ended, value \in {"none", "target"} : EndAs(i, g, phase, value)
  BY DEF RunTarget, Ended
<1> QED
  BY <1>1, <1>2, <1>3, PhaseInv DEF EndAs

-----------------------------------------------------------------------------
\* A call of next() moves the index on, or finds the chain done.
LEMMA CallNextIInv ==
    ASSUME IInv, NEW i \in Invocations, NEW g \in DOMAIN calls[i], CallNext(i, g)
    PROVE  IInv'
<1> DEFINE c == chain[i]
           k == index[i]
           n == Len(calls[i])
           s == Started(i, c, k, g)
<1>0. /\ calls \in [Invocations -> Seq(Call)] /\ calls[i] \in Seq(Call)
      /\ c \in Seq(Steps \cup {Target}) /\ Len(c) \in Nat
      /\ n \in Nat /\ DOMAIN calls[i] = 1 .. n /\ g \in Nat
      /\ index \in [Invocations -> Nat] /\ chain \in [Invocations -> Seq(Steps \cup {Target})]
      /\ \A h \in DOMAIN calls[i] : calls[i][h].by \in Nat /\ calls[i][h].at \in Nat
  BY Types DEF IInv, TypeOK
<1>1. k = (IF n <= Len(c) THEN n ELSE Len(c)) /\ k \in 0 .. Len(c)
  BY <1>0 DEF IInv, InvocationInv, Counted
<1>2. s \in Call /\ s.at = k + 1 /\ s.by = g /\ (s.value = "undefined" => k = Len(c))
  <2>1. k \in 0 .. Len(c) /\ g \in Nat /\ c \in Seq(Steps \cup {Target})
    BY <1>0, <1>1
  <2> QED
    BY <2>1, StartedCall
<1>3. /\ calls' = [calls EXCEPT ![i] = Append(calls[i], s)]
      /\ index' = [index EXCEPT ![i] = Advance(c, k)]
      /\ UNCHANGED <<registered, cached, notified, chain, closed>>
  BY DEF CallNext, IndexFor
<1> HIDE DEF s
<1>4. /\ calls'[i] = Append(calls[i], s) /\ index'[i] = Advance(c, k)
      /\ Len(calls'[i]) = n + 1 /\ DOMAIN calls'[i] = 1 .. n + 1
      /\ calls'[i][n + 1] = s
      /\ \A h \in 1 .. n : calls'[i][h] = calls[i][h]
  BY <1>0, <1>2, <1>3
<1>5. TypeOK'
  <2>1. Append(calls[i], s) \in Seq(Call) /\ Advance(c, k) \in Nat
    BY <1>0, <1>1, <1>2 DEF Advance
  <2> QED
    BY <1>0, <1>3, <2>1 DEF IInv, TypeOK
<1>6. /\ calls[i][g].phase = "running" /\ g \in 1 .. n
      /\ calls[i][g].at <= Len(c) /\ c[calls[i][g].at] # Target
  BY <1>0 DEF CallNext, Interceptor
<1>7. InvocationInv(i)'
  <2>0. InvocationInv(i)
    BY DEF IInv
  <2>1. Shaped(i)'
    <3>1. calls[i] # <<>>
      BY <1>0, <1>6
    <3> QED
      BY <2>0, <3>1, <1>3 DEF InvocationInv, Shaped
  <2>2. Counted(i)'
    <3>1. index'[i] = IF n + 1 <= Len(c) THEN n + 1 ELSE Len(c)
      BY <1>0, <1>1, <1>4 DEF Advance
    <3>2. ASSUME NEW h \in 1 .. n + 1
          PROVE  calls'[i][h].at = IF h <= Len(c) THEN h ELSE Len(c) + 1
      <4>1. CASE h = n + 1
        BY <4>1, <1>0, <1>1, <1>2, <1>4
      <4>2. CASE h # n + 1
        <5>1. h \in 1 .. n
          BY <4>2, <1>0, UpTo
        <5> QED
          BY <5>1, <1>0, <1>4, <2>0 DEF InvocationInv, Counted
      <4> QED
        BY <4>1, <4>2
    <3> QED
      BY <3>1, <3>2, <1>3, <1>4 DEF Counted
  <2>3. Tree(i)'
    <3> SUFFICES ASSUME NEW h \in 1 .. n + 1, NEW f, f = calls'[i][h].by
                 PROVE  /\ f < h
                        /\ f = 0 => h = 1
                        /\ f # 0 => /\ calls'[i][f].phase # "loading"
                                    /\ calls'[i][f].at <= Len(c)
                                    /\ c[calls'[i][f].at] # Target
      BY <1>3, <1>4 DEF Tree
    <3>1. CASE h = n + 1
      BY <3>1, <1>0, <1>2, <1>4, <1>6
    <3>2. CASE h # n + 1
      <4>1. /\ h \in 1 .. n /\ f = calls[i][h].by /\ f \in Nat
        <5>1. h \in 1 .. n
          BY <3>2, <1>0, UpTo
        <5> QED
          BY <5>1, <1>0, <1>4
      <4>2. /\ f < h
            /\ f = 0 => h = 1
            /\ f # 0 => /\ calls[i][f].phase # "loading"
                        /\ calls[i][f].at <= Len(c)
                        /\ c[calls[i][f].at] # Target
        BY <4>1, <1>0, <2>0 DEF InvocationInv, Tree
      <4>3. f # 0 => f \in 1 .. n
        BY <4>1, <4>2, <1>0
      <4> QED
        BY <4>2, <4>3, <1>4
    <3> QED
      BY <3>1, <3>2
  <2>4. Linear(i)'
    <3>1. CASE SecondCall(i)
      <4>1. PICK a, h \in 1 .. n : a < h /\ calls[i][a].by = calls[i][h].by
        BY <3>1, <1>0 DEF SecondCall
      <4>2. a \in 1 .. n + 1 /\ h \in 1 .. n + 1 /\ calls'[i][a].by = calls'[i][h].by
        BY <4>1, <1>0, <1>4
      <4> QED
        BY <4>1, <4>2, <1>4 DEF Linear, SecondCall
    <3>2. CASE \A h \in 1 .. n : calls[i][h].by = h - 1
      <4>1. CASE g = n
        BY <4>1, <3>2, <1>0, <1>2, <1>4 DEF Linear
      <4>2. CASE g # n
        <5>1. g + 1 \in 1 .. n /\ g + 1 < n + 1
          BY <4>2, <1>0, <1>6
        <5>2. calls'[i][g + 1].by = g /\ calls'[i][n + 1].by = g
          BY <5>1, <3>2, <1>0, <1>2, <1>4
        <5>3. g + 1 \in 1 .. n + 1 /\ n + 1 \in 1 .. n + 1
          BY <5>1, <1>0
        <5> QED
          BY <5>1, <5>2, <5>3, <1>4 DEF Linear, SecondCall
      <4> QED
        BY <4>1, <4>2
    <3> QED
      BY <3>1, <3>2, <2>0, <1>0 DEF InvocationInv, Linear
  <2>5. FromBeyond(i)'
    <3> SUFFICES ASSUME NEW h \in 1 .. n + 1, calls'[i][h].value = "undefined", i \in Methods
                 PROVE  n + 1 > Len(c)
      BY <1>3, <1>4 DEF FromBeyond
    <3>1. CASE h = n + 1
      BY <3>1, <1>0, <1>1, <1>2, <1>4
    <3>2. CASE h # n + 1
      <4>1. h \in 1 .. n
        BY <3>2, <1>0, UpTo
      <4>2. n > Len(c)
        BY <4>1, <2>0, <1>0, <1>4 DEF InvocationInv, FromBeyond
      <4> QED
        BY <4>2, <1>0
    <3> QED
      BY <3>1, <3>2
  <2>6. Waited(i)'
    <3> SUFFICES ASSUME Waits(i)', NEW a \in 1 .. n + 1, NEW h \in 1 .. n + 1
                 PROVE  /\ calls'[i][h].by = a /\ Settled(i, a)' => Settled(i, h)'
                        /\ a < h /\ calls'[i][a].by = calls'[i][h].by => Settled(i, a)'
      BY <1>4 DEF Waited
    <3>0. Waits(i)
      BY <1>3 DEF Waits
    <3>1. CASE h # n + 1
      <4>1. h \in 1 .. n /\ calls'[i][h] = calls[i][h] /\ calls[i][h].by < h
        <5>1. h \in 1 .. n
          BY <3>1, <1>0, UpTo
        <5> QED
          BY <5>1, <1>0, <1>4, <2>0 DEF InvocationInv, Tree
      <4>2. CASE a \in 1 .. n
        <5>1. /\ calls[i][h].by = a /\ Settled(i, a) => Settled(i, h)
              /\ a < h /\ calls[i][a].by = calls[i][h].by => Settled(i, a)
          BY <4>1, <4>2, <1>0, <2>0, <3>0 DEF InvocationInv, Waited
        <5>2. calls'[i][a] = calls[i][a]
          BY <4>2, <1>4
        <5> QED
          BY <4>1, <5>1, <5>2 DEF Settled, Ended
      <4>3. CASE a = n + 1
        BY <4>1, <4>3, <1>0
      <4> QED
        BY <4>2, <4>3, <1>0, UpTo
    <3>2. CASE h = n + 1
      <4>1. ASSUME calls'[i][h].by = a PROVE ~Settled(i, a)'
        BY <4>1, <3>2, <1>0, <1>2, <1>4, <1>6 DEF Settled, Ended
      <4>2. ASSUME a < h, calls'[i][a].by = calls'[i][h].by PROVE Settled(i, a)'
        <5>1. a \in 1 .. n /\ a \in Made(i, g)
          BY <4>2, <3>2, <1>0, <1>2, <1>4 DEF Made
        <5>2. StyleOf(i, g) # "fork"
          <6>1. calls[i][g].at \in DOMAIN c
            BY <1>6, Types DEF IInv
          <6> QED
            BY <3>0, <1>6, <6>1 DEF StyleOf, Waits
        <5>3. calls[i][a].phase = "failed"
          BY <5>1, <5>2 DEF CallNext
        <5> QED
          BY <5>1, <5>3, <1>4 DEF Settled, Ended
      <4> QED
        BY <4>1, <4>2
    <3> QED
      BY <3>1, <3>2
  <2> QED
    BY <2>1, <2>2, <2>3, <2>4, <2>5, <2>6 DEF InvocationInv
<1>8. ASSUME NEW j \in Invocations, j # i PROVE InvocationInv(j)'
  <2>1. calls'[j] = calls[j] /\ chain'[j] = chain[j] /\ index'[j] = index[j]
    BY <1>0, <1>3, <1>8
  <2> QED
    BY <2>1, FrameInv DEF IInv
<1>9. ASSUME NEW j \in closed PROVE Finished(j)'
  <2>1. Finished(j) /\ j \in Invocations
    BY DEF IInv, TypeOK
  <2>2. CASE j = i
    <3>1. 1 \in 1 .. n /\ 1 \in DOMAIN calls'[i] /\ 1 \notin DOMAIN <<>>
      BY <1>0, <1>4, <1>6
    <3>2. calls'[i] # <<>>
      BY <3>1
    <3>3. Settled(i, 1)'
      BY <2>1, <2>2, <3>1, <1>4 DEF Finished, Settled, Ended
    <3> QED
      BY <2>2, <3>2, <3>3 DEF Finished
  <2>3. CASE j # i
    BY <2>1, <2>3, <1>0, <1>3 DEF Finished, Settled, Ended
  <2> QED
    BY <2>2, <2>3
<1> QED
  BY <1>3, <1>5, <1>7, <1>8, <1>9 DEF IInv

-----------------------------------------------------------------------------
LEMMA CloseIInv == ASSUME IInv, NEW i \in Invocations, Close(i) PROVE IInv'
<1>1. /\ i \in Methods /\ Finished(i) /\ closed' = closed \cup {i}
      /\ UNCHANGED <<registered, cached, notified, chain, index, calls>>
  BY DEF Close, CloseWhen
<1>2. TypeOK'
  BY <1>1 DEF IInv, TypeOK
<1>3. \A j \in Invocations : InvocationInv(j)'
  BY <1>1, FrameInv DEF IInv
<1>4. \A j \in closed' : Finished(j)'
  BY <1>1 DEF IInv, Finished, Settled, Ended
<1> QED
  BY <1>2, <1>3, <1>4 DEF IInv

\* The bindings have no part in what is being invoked.
LEMMA ContextIInv ==
    ASSUME IInv, Notify \/ \E x \in Changing : Bind(x) PROVE IInv'
<1>1. TypeOK'
  <2>1. <<>> \in Seq(Seq(Interceptors))
    OBVIOUS
  <2> QED
    BY <2>1 DEF IInv, TypeOK, Notify, Bind
<1>2. UNCHANGED <<chain, index, calls, closed>>
  BY DEF Notify, Bind
<1>3. \A j \in Invocations : InvocationInv(j)'
  BY <1>2, FrameInv DEF IInv
<1>4. \A j \in closed' : Finished(j)'
  BY <1>2 DEF IInv, Finished, Settled, Ended
<1> QED
  BY <1>1, <1>3, <1>4 DEF IInv

\* Every step leaves the invariant as it is.
LEMMA NextIInv == ASSUME IInv, [Next]_vars PROVE IInv'
<1>1. ASSUME NEW i \in Invocations, InvokeMethod(i) \/ InvokeInterceptors(i) \/ Close(i)
      PROVE  IInv'
  BY <1>1, InvokeMethodIInv, InvokeInterceptorsIInv, CloseIInv
<1>2. ASSUME NEW i \in Invocations, NEW g \in DOMAIN calls[i], CallStep(i, g) PROVE IInv'
  <2>1. CASE Load(i, g)
    BY <2>1, LoadIInv
  <2>2. CASE CallNext(i, g)
    BY <2>2, CallNextIInv
  <2>3. CASE Answer(i, g)
    BY <2>3, AnswerIInv
  <2>4. CASE PassOn(i, g)
    BY <2>4, PassOnIInv
  <2>5. CASE Throw(i, g)
    BY <2>5, ThrowIInv
  <2>6. CASE RunTarget(i, g)
    BY <2>6, RunTargetIInv
  <2> QED
    BY <1>2, <2>1, <2>2, <2>3, <2>4, <2>5, <2>6 DEF CallStep
<1>3. CASE Notify \/ \E x \in Changing : Bind(x)
  BY <1>3, ContextIInv
<1>4. CASE UNCHANGED vars
  BY <1>4, StutterIInv
<1> QED
  BY <1>1, <1>2, <1>3, <1>4 DEF Next

LEMMA Invariance == Spec => []IInv
BY InitIInv, NextIInv, PTL DEF Spec

-----------------------------------------------------------------------------
\* The variables keep their types.
THEOREM TypeCorrect == Spec => []TypeOK
<1>1. IInv => TypeOK
  BY DEF IInv
<1> QED
  BY <1>1, Invariance, PTL

\* Nobody is invoked twice or passed over, however often next() is called:
\* the index of the chain's state counts the calls.
THEOREM RunsInOrder == Spec => []EachOnceInOrder
<1>1. IInv => EachOnceInOrder
  BY DEF IInv, InvocationInv, Counted, EachOnceInOrder
<1> QED
  BY <1>1, Invariance, PTL

\* The target method of an invocation runs at most once.
THEOREM TargetRunsOnce == Spec => []MethodOnce
<1>1. IInv => MethodOnce
  <2> SUFFICES ASSUME IInv, NEW i \in Methods, NEW g \in DOMAIN calls[i],
                      NEW h \in DOMAIN calls[i], IsTarget(i, g), IsTarget(i, h)
               PROVE  g = h
    BY DEF MethodOnce
  <2>1. /\ i \in Invocations /\ g \in Nat /\ h \in Nat /\ Len(chain[i]) \in Nat
        /\ calls[i] # <<>> /\ calls[i] \in Seq(Call)
    BY DEF IInv, TypeOK
  <2>2. ASSUME NEW f \in DOMAIN calls[i], IsTarget(i, f) PROVE f = Len(chain[i])
    <3>1. /\ calls[i][f].at \in Nat \ {0} /\ f \in Nat
          /\ calls[i][f].at = IF f <= Len(chain[i]) THEN f ELSE Len(chain[i]) + 1
      BY <2>1, Types DEF IInv, InvocationInv, Counted
    <3>2. calls[i][f].at <= Len(chain[i]) /\ chain[i][calls[i][f].at] = Target
      BY <2>2 DEF IsTarget
    <3>3. calls[i][f].at \in DOMAIN chain[i]
      BY <2>1, <3>1, <3>2 DEF IInv, TypeOK
    <3>4. calls[i][f].at = Len(chain[i])
      BY <2>1, <3>2, <3>3 DEF IInv, InvocationInv, Shaped
    <3> QED
      BY <2>1, <3>1, <3>4
  <2> QED
    BY <2>2
<1> QED
  BY <1>1, Invariance, PTL

\* The chain of an invocation is run through once, in order.
THEOREM ChainRunsOnce == Spec => []RunsOnce
BY TypeCorrect, RunsInOrder, TargetRunsOnce, PTL DEF RunsOnce

\* An invocation returns undefined by itself only if next() is called twice in it.
THEOREM UndefinedNeedsSecondCall == Spec => []UndefinedFromSecondCall
<1>1. IInv => UndefinedFromSecondCall
  <2> SUFFICES ASSUME IInv, NEW i \in Methods, NEW g \in DOMAIN calls[i],
                      calls[i][g].value = "undefined", ~SecondCall(i)
               PROVE  FALSE
    BY DEF UndefinedFromSecondCall
  <2> DEFINE L == Len(chain[i])
  <2>1. /\ i \in Invocations /\ calls[i] \in Seq(Call) /\ Len(calls[i]) \in Nat
        /\ calls[i] # <<>> /\ L \in Nat /\ chain[i] \in Seq(Steps \cup {Target})
    BY Types DEF IInv, TypeOK
  <2>2. InvocationInv(i) /\ L > 0 /\ chain[i][L] = Target
    BY <2>1 DEF IInv, InvocationInv, Shaped
  <2>3. L + 1 \in DOMAIN calls[i] /\ L \in DOMAIN calls[i]
    BY <2>1, <2>2 DEF InvocationInv, FromBeyond
  <2>4. calls[i][L + 1].by = L /\ calls[i][L].at = L
    BY <2>1, <2>2, <2>3 DEF InvocationInv, Linear, Counted
  <2>5. chain[i][calls[i][L].at] # Target
    <3>1. LET f == calls[i][L + 1].by
          IN  f # 0 => chain[i][calls[i][f].at] # Target
      BY <2>2, <2>3 DEF InvocationInv, Tree
    <3> QED
      BY <2>2, <2>1, <2>4, <3>1
  <2> QED
    BY <2>2, <2>4, <2>5
<1> QED
  BY <1>1, Invariance, PTL

\* When the context of an invocation is closed none of its calls is under way,
\* unless an interceptor does not wait for next().
THEOREM ClosesLast == Spec => []ClosedAfterCalls
<1>1. IInv => ClosedAfterCalls
  <2> SUFFICES ASSUME IInv, NEW i \in closed, Waits(i),
                      NEW g \in DOMAIN calls[i], ~Settled(i, g)
               PROVE  FALSE
    BY DEF ClosedAfterCalls
  <2>1. /\ i \in Invocations /\ InvocationInv(i) /\ Settled(i, 1)
        /\ DOMAIN calls[i] \subseteq Nat /\ DOMAIN calls[i] = 1 .. Len(calls[i])
        /\ Len(calls[i]) \in Nat
        /\ \A h \in DOMAIN calls[i] : calls[i][h].by \in Nat
    <3>1. i \in Invocations
      BY DEF IInv, TypeOK
    <3> QED
      BY <3>1, Types DEF IInv, Finished
  <2> DEFINE R == {n \in DOMAIN calls[i] : ~Settled(i, n)}
  <2>2. R # {} /\ R \subseteq Nat
    BY <2>1
  <2>3. PICK n \in R : \A m \in R : n <= m
    <3> HIDE DEF R
    <3> QED
      BY <2>2, LeastElement
  <2> DEFINE f == calls[i][n].by
  <2>4. f < n /\ f # 0 /\ f \in Nat
    BY <2>1, <2>3 DEF InvocationInv, Tree
  <2>5. n \in DOMAIN calls[i] /\ f \in DOMAIN calls[i] /\ Settled(i, f)
    BY <2>1, <2>3, <2>4
  <2> QED
    BY <2>1, <2>3, <2>5 DEF InvocationInv, Waited
<1> QED
  BY <1>1, Invariance, PTL

---------------------------------------------------------------------------
(* The order of a chain *)

\* R orders the numbers 1 .. n strictly and totally.
OrdersAll(R, n) ==
    /\ \A i \in 1 .. n : <<i, i>> \notin R
    /\ \A i, j, k \in 1 .. n : <<i, j>> \in R /\ <<j, k>> \in R => <<i, k>> \in R
    /\ \A i, j \in 1 .. n : i # j => <<i, j>> \in R \/ <<j, i>> \in R

CountedPlaces(n, R) == [i \in 1 .. n |-> 1 + Cardinality({j \in 1 .. n : <<j, i>> \in R})]

\* What places in the order of R are.
OrderPlaces(f, n, R) ==
    /\ f \in [1 .. n -> 1 .. n]
    /\ \A i, j \in 1 .. n : <<i, j>> \in R => f[i] < f[j]
    /\ \A i, j \in 1 .. n : f[i] = f[j] => i = j
    /\ \A p \in 1 .. n : \E i \in 1 .. n : f[i] = p

\* Counting what comes before gives each a place of its own, in the order, and all places.
LEMMA PlacesByCounting ==
    ASSUME NEW n \in Nat, NEW R, OrdersAll(R, n)
    PROVE  OrderPlaces(CountedPlaces(n, R), n, R)
<1> DEFINE N == 1 .. n
           f == CountedPlaces(n, R)
           B(i) == {j \in N : <<j, i>> \in R}
<1>1. IsFiniteSet(N) /\ Cardinality(N) = n
  BY FiniteInterval
<1>2. ASSUME NEW i \in N PROVE /\ IsFiniteSet(B(i)) /\ Cardinality(B(i)) \in Nat
                               /\ Cardinality(B(i)) < n
  <2>1. IsFiniteSet(B(i)) /\ Cardinality(B(i)) <= Cardinality(N)
        /\ (Cardinality(N) = Cardinality(B(i)) => N = B(i))
    BY <1>1, FS_Subset
  <2>2. i \notin B(i)
    BY DEF OrdersAll
  <2>3. Cardinality(B(i)) \in Nat
    BY <2>1, FS_CardinalityType
  <2>4. N # B(i)
    BY <2>2, Zenon
  <2> HIDE DEF B
  <2> QED
    BY <1>1, <2>1, <2>3, <2>4
<1>3. ASSUME NEW i \in N, NEW j \in N, <<i, j>> \in R
      PROVE  Cardinality(B(i)) < Cardinality(B(j))
  <2>1. B(i) \in SUBSET B(j)
    BY <1>3 DEF OrdersAll
  <2>2. i \in B(j) /\ i \notin B(i)
    BY <1>3 DEF OrdersAll
  <2>3. Cardinality(B(i)) <= Cardinality(B(j))
        /\ (Cardinality(B(j)) = Cardinality(B(i)) => B(j) = B(i))
    BY <1>2, <2>1, FS_Subset
  <2>4. Cardinality(B(i)) \in Nat
    BY <1>2
  <2>5. Cardinality(B(j)) \in Nat
    BY <1>2
  <2>6. B(j) # B(i)
    BY <2>2, Zenon
  <2> HIDE DEF B
  <2> QED
    BY <2>3, <2>4, <2>5, <2>6
<1>4. PICK c : c = [i \in N |-> Cardinality(B(i))]
  OBVIOUS
<1>a. /\ \A i \in N : f[i] = 1 + c[i] /\ c[i] = Cardinality(B(i))
      /\ DOMAIN f = N /\ f = [i \in N |-> f[i]]
  BY <1>4 DEF CountedPlaces
<1> HIDE DEF B, f
<1>5. \A i \in N : c[i] \in Nat /\ c[i] < n
  BY <1>2, <1>a
<1>b. \A i, j \in N : <<i, j>> \in R => c[i] < c[j]
  BY <1>3, <1>a
<1>6. \A i \in N : f[i] \in 1 .. n
  BY <1>5, <1>a
<1>7. f \in [N -> N]
  BY <1>6, <1>a
<1>8. \A i, j \in N : <<i, j>> \in R => f[i] < f[j]
  <2> SUFFICES ASSUME NEW i \in N, NEW j \in N, <<i, j>> \in R PROVE f[i] < f[j]
    OBVIOUS
  <2>1. c[i] < c[j] /\ c[i] \in Nat /\ c[j] \in Nat /\ f[i] = 1 + c[i] /\ f[j] = 1 + c[j]
    BY <1>5, <1>a, <1>b
  <2> QED
    BY <2>1
<1>9. \A i, j \in N : f[i] = f[j] => i = j
  <2> SUFFICES ASSUME NEW i \in N, NEW j \in N, f[i] = f[j], i # j PROVE FALSE
    OBVIOUS
  <2>1. f[i] \in Nat /\ f[j] \in Nat
    BY <1>6
  <2>2. <<i, j>> \in R \/ <<j, i>> \in R
    BY DEF OrdersAll
  <2>3. f[i] < f[j] \/ f[j] < f[i]
    BY <1>8, <2>2
  <2> QED
    BY <2>1, <2>3
<1>10. f \in Injection(N, N)
  BY <1>7, <1>9 DEF Injection, IsInjective
<1>11. f \in Surjection(N, N)
  BY <1>1, <1>10, FS_Injection
<1>12. OrderPlaces(f, n, R)
  BY <1>7, <1>8, <1>9, <1>11 DEF Surjection, OrderPlaces
<1> QED
  BY <1>12 DEF f

\* h says where the elements of s are in t, those before others by R in front of them.
Sorting(h, t, s, R, T) ==
    /\ t \in Seq(T) /\ Len(t) = Len(s)
    /\ h \in [1 .. Len(s) -> 1 .. Len(s)]
    /\ \A i, j \in 1 .. Len(s) : <<i, j>> \in R => h[i] < h[j]
    /\ \A i, j \in 1 .. Len(s) : h[i] = h[j] => i = j
    /\ \A i \in 1 .. Len(s) : t[h[i]] = s[i]
    /\ \A p \in 1 .. Len(s) : \E i \in 1 .. Len(s) : h[i] = p

LEMMA ArrangedIs ==
    ASSUME NEW T, NEW s \in Seq(T), NEW R, OrdersAll(R, Len(s))
    PROVE  \E h : Sorting(h, Arranged(s, R), s, R, T)
<1> DEFINE N == DOMAIN s
           f == [i \in N |-> 1 + Cardinality({j \in N : <<j, i>> \in R})]
           t == [p \in N |-> s[CHOOSE i \in N : f[i] = p]]
<1>1. N = 1 .. Len(s) /\ Len(s) \in Nat /\ \A i \in N : s[i] \in T
  OBVIOUS
<1>2. Arranged(s, R) = t
  BY Zenon DEF Arranged
<1>3. f = CountedPlaces(Len(s), R)
  <2>1. \A M : M = N => f = [i \in M |-> 1 + Cardinality({j \in M : <<j, i>> \in R})]
    BY Zenon
  <2> QED
    BY <1>1, <2>1, Zenon DEF CountedPlaces
<1> HIDE DEF f
<1>4. OrderPlaces(f, Len(s), R)
  BY <1>1, <1>3, PlacesByCounting
<1>b. /\ f \in [N -> N]
      /\ \A i, j \in N : <<i, j>> \in R => f[i] < f[j]
      /\ \A i, j \in N : f[i] = f[j] => i = j
      /\ \A p \in N : \E i \in N : f[i] = p
  <2> HIDE DEF N
  <2> QED
    BY <1>1, <1>4 DEF OrderPlaces
<1>5. ASSUME NEW i \in N PROVE (CHOOSE k \in N : f[k] = f[i]) = i
  <2>1. (CHOOSE k \in N : f[k] = f[i]) \in N /\ f[CHOOSE k \in N : f[k] = f[i]] = f[i]
    OBVIOUS
  <2> QED
    BY <1>b, <2>1
<1>6. \A i \in N : t[f[i]] = s[i]
  BY <1>b, <1>5
<1>7. \A p \in N : t[p] \in T
  BY <1>1, <1>b, <1>6
<1>8. t \in Seq(T) /\ Len(t) = Len(s)
  BY <1>1, <1>7
<1> HIDE DEF t
<1>9. Sorting(f, t, s, R, T)
  <2> HIDE DEF N
  <2> QED
    BY <1>1, <1>b, <1>6, <1>8 DEF Sorting
<1> QED
  BY <1>2, <1>9

\* compareByOrder() orders bindings, with their indexes, totally.
SortedBy(bindings, order) ==
    {e \in (DOMAIN bindings) \X (DOMAIN bindings) :
        LET c == CompareByOrder(bindings[e[1]].group, bindings[e[2]].group, order)
        IN  c < 0 \/ (c = 0 /\ e[1] < e[2])}

\* The place of x in order is the first one.
LEMMA IndexIs ==
    ASSUME NEW T, NEW s \in Seq(T), NEW e
    PROVE  /\ IsFirstPlace(IndexOf(s, e), s, e) /\ IndexOf(s, e) \in Nat
           /\ IndexOf(s, e) # 0 <=> e \in ToSet(s)
           /\ IndexOf(s, e) # 0 => IndexOf(s, e) \in 1 .. Len(s) /\ s[IndexOf(s, e)] = e
<1>1. IsFirstPlace(IndexOf(s, e), s, e)
  BY FirstPlace, Zenon DEF IndexOf
<1>2. Len(s) \in Nat /\ DOMAIN s = 1 .. Len(s)
  OBVIOUS
<1> QED
  BY <1>1, <1>2 DEF IsFirstPlace, ToSet

\* A group is ahead of another.
Ahead(g, h, order) ==
    \/ IndexOf(order, g) < IndexOf(order, h)
    \/ IndexOf(order, g) = IndexOf(order, h) /\ g < h

LEMMA Comparison ==
    ASSUME NEW order \in Seq(Nat), NEW g \in Nat, NEW h \in Nat
    PROVE  /\ CompareByOrder(g, h, order) < 0 <=> Ahead(g, h, order)
           /\ CompareByOrder(g, h, order) = 0 <=> g = h
<1> DEFINE a == IndexOf(order, g)
           b == IndexOf(order, h)
<1>1. a \in Nat /\ b \in Nat /\ (a # 0 => order[a] = g) /\ (b # 0 => order[b] = h)
  BY IndexIs
<1>2. CompareByOrder(g, h, order) = IF a # 0 \/ b # 0 THEN a - b ELSE g - h
  BY DEF CompareByOrder
<1>3. Ahead(g, h, order) <=> (a < b \/ (a = b /\ g < h))
  BY DEF Ahead
<1>4. g = h => a = b
  OBVIOUS
<1> HIDE DEF a, b
<1>5. a = b /\ a # 0 => g = h
  BY <1>1
<1>6. CASE a # 0 \/ b # 0
  <2>1. CompareByOrder(g, h, order) = a - b
    BY <1>2, <1>6
  <2> QED
    BY <1>1, <1>3, <1>4, <1>5, <1>6, <2>1
<1>7. CASE a = 0 /\ b = 0
  <2>1. CompareByOrder(g, h, order) = g - h
    BY <1>2, <1>7
  <2> QED
    BY <1>3, <1>7, <2>1
<1> QED
  BY <1>1, <1>6, <1>7

\* Bindings that have groups.
LEMMA SortOrders ==
    ASSUME NEW T, NEW s \in Seq(T), \A x \in T : x.group \in Nat, NEW order \in Seq(Nat)
    PROVE  /\ OrdersAll(SortedBy(s, order), Len(s))
           /\ \A i, j \in 1 .. Len(s) :
                 <<i, j>> \in SortedBy(s, order) <=>
                    \/ Ahead(s[i].group, s[j].group, order)
                    \/ s[i].group = s[j].group /\ i < j
<1> DEFINE N == 1 .. Len(s)
           R == SortedBy(s, order)
<1>1. DOMAIN s = N /\ Len(s) \in Nat /\ \A i \in N : s[i].group \in Nat
  OBVIOUS
<1>2. ASSUME NEW i \in N, NEW j \in N
      PROVE  <<i, j>> \in R <=> \/ Ahead(s[i].group, s[j].group, order)
                                \/ s[i].group = s[j].group /\ i < j
  <2> DEFINE c == CompareByOrder(s[i].group, s[j].group, order)
  <2>1. <<i, j>> \in R <=> c < 0 \/ (c = 0 /\ i < j)
    BY <1>1, Zenon DEF SortedBy
  <2>2. (c < 0 <=> Ahead(s[i].group, s[j].group, order)) /\ (c = 0 <=> s[i].group = s[j].group)
    BY <1>1, Comparison
  <2> QED
    BY <2>1, <2>2
<1>3. PICK ix : ix = [g \in Nat |-> IndexOf(order, g)]
  OBVIOUS
<1>4. \A g \in Nat : ix[g] \in Nat
  BY <1>3, IndexIs
<1>5. \A g, h \in Nat : Ahead(g, h, order) <=> (ix[g] < ix[h] \/ (ix[g] = ix[h] /\ g < h))
  BY <1>3 DEF Ahead
<1>6. \A i, j \in N : <<i, j>> \in R <=>
         \/ ix[s[i].group] < ix[s[j].group]
         \/ ix[s[i].group] = ix[s[j].group] /\ s[i].group < s[j].group
         \/ s[i].group = s[j].group /\ i < j
  BY <1>1, <1>2, <1>5
<1> HIDE DEF R
<1>7. \A i \in N : s[i].group \in Nat /\ ix[s[i].group] \in Nat /\ i \in Nat
  BY <1>1, <1>4
<1>8. \A i \in N : <<i, i>> \notin R
  <2> SUFFICES ASSUME NEW i \in N, <<i, i>> \in R PROVE FALSE
    OBVIOUS
  <2>1. \/ ix[s[i].group] < ix[s[i].group]
        \/ ix[s[i].group] = ix[s[i].group] /\ s[i].group < s[i].group
        \/ s[i].group = s[i].group /\ i < i
    BY <1>6, Zenon
  <2> QED
    BY <1>7, <2>1
<1>9. \A i, j, k \in N : <<i, j>> \in R /\ <<j, k>> \in R => <<i, k>> \in R
  <2> SUFFICES ASSUME NEW i \in N, NEW j \in N, NEW k \in N,
                      <<i, j>> \in R, <<j, k>> \in R
               PROVE  <<i, k>> \in R
    OBVIOUS
  <2> DEFINE Less(x, y) == \/ ix[s[x].group] < ix[s[y].group]
                           \/ ix[s[x].group] = ix[s[y].group] /\ s[x].group < s[y].group
                           \/ s[x].group = s[y].group /\ x < y
  <2>1. Less(i, j) /\ Less(j, k)
    BY <1>6
  <2>2. Less(i, k)
    BY <1>7, <2>1
  <2> QED
    BY <1>6, <2>2
<1>10. ASSUME NEW i \in N, NEW j \in N, i # j PROVE <<i, j>> \in R \/ <<j, i>> \in R
  <2> DEFINE Less(x, y) == \/ ix[s[x].group] < ix[s[y].group]
                           \/ ix[s[x].group] = ix[s[y].group] /\ s[x].group < s[y].group
                           \/ s[x].group = s[y].group /\ x < y
  <2>1. Less(i, j) \/ Less(j, i)
    BY <1>7, <1>10
  <2> QED
    BY <1>6, <2>1
<1> QED
  BY <1>2, <1>8, <1>9, <1>10 DEF OrdersAll, R

\* What sortBindingsByPhase() does: it puts each binding in some place, groups in their order.
LEMMA SortingIs ==
    ASSUME NEW T, NEW s \in Seq(T), \A x \in T : x.group \in Nat, NEW order \in Seq(Nat)
    PROVE  \E h : Sorting(h, SortByGroup(s, order), s, SortedBy(s, order), T)
<1>1. SortByGroup(s, order) = Arranged(s, SortedBy(s, order))
  BY Zenon DEF SortByGroup, SortedBy
<1>2. OrdersAll(SortedBy(s, order), Len(s))
  BY SortOrders
<1>3. \E h : Sorting(h, Arranged(s, SortedBy(s, order)), s, SortedBy(s, order), T)
  BY <1>2, ArrangedIs, Zenon
<1> QED
  BY <1>1, <1>3, Zenon

\* In a row, the first part precedes the second, and both keep their order.
LEMMA PrecedesConcat ==
    ASSUME NEW T, NEW s \in Seq(T), NEW t \in Seq(T), NEW x, NEW y
    PROVE  /\ x \in ToSet(s) /\ y \in ToSet(t) => Precedes(s \o t, x, y)
           /\ Precedes(s, x, y) => Precedes(s \o t, x, y)
           /\ Precedes(t, x, y) => Precedes(s \o t, x, y)
<1> DEFINE c == s \o t
<1>1. /\ Len(s) \in Nat /\ Len(t) \in Nat /\ Len(c) = Len(s) + Len(t)
      /\ DOMAIN s = 1 .. Len(s) /\ DOMAIN t = 1 .. Len(t)
      /\ \A i \in 1 .. Len(s) : c[i] = s[i] /\ i \in 1 .. Len(c)
      /\ \A i \in 1 .. Len(t) : c[Len(s) + i] = t[i] /\ Len(s) + i \in 1 .. Len(c)
  OBVIOUS
<1> HIDE DEF c
<1>2. ASSUME x \in ToSet(s), y \in ToSet(t) PROVE Precedes(c, x, y)
  <2>1. PICK i \in 1 .. Len(s) : s[i] = x
    BY <1>1, <1>2 DEF ToSet
  <2>2. PICK j \in 1 .. Len(t) : t[j] = y
    BY <1>1, <1>2 DEF ToSet
  <2>3. i < Len(s) + j
    BY <1>1
  <2> QED
    BY <1>1, <2>1, <2>2, <2>3 DEF Precedes
<1>3. ASSUME Precedes(s, x, y) PROVE Precedes(c, x, y)
  BY <1>1, <1>3 DEF Precedes
<1>4. ASSUME Precedes(t, x, y) PROVE Precedes(c, x, y)
  <2>1. PICK i \in 1 .. Len(t), j \in 1 .. Len(t) : i < j /\ t[i] = x /\ t[j] = y
    BY <1>4 DEF Precedes
  <2>2. Len(s) + i < Len(s) + j
    BY <1>1, <2>1
  <2> QED
    BY <1>1, <2>1, <2>2 DEF Precedes
<1> QED
  BY <1>2, <1>3, <1>4 DEF c

\* Selecting keeps the order.
LEMMA PrecedesWithin ==
    ASSUME NEW T, NEW S, NEW s \in Seq(T), NEW x \in S, NEW y \in S, Precedes(s, x, y)
    PROVE  Precedes(Within(s, S), x, y)
<1>1. PICK h : Places(h, Within(s, S), s, S)
  BY WithinPlaces
<1>2. PICK i \in 1 .. Len(s), j \in 1 .. Len(s) : i < j /\ s[i] = x /\ s[j] = y
  BY DEF Precedes
<1>3. PICK a \in 1 .. Len(Within(s, S)) : h[a] = i
  BY <1>1, <1>2 DEF Places
<1>4. PICK b \in 1 .. Len(Within(s, S)) : h[b] = j
  BY <1>1, <1>2 DEF Places
<1>5. a < b
  <2> SUFFICES ASSUME b < a \/ a = b PROVE FALSE
    OBVIOUS
  <2>1. b < a => h[b] < h[a]
    BY <1>1 DEF Places
  <2> QED
    BY <1>2, <1>3, <1>4, <2>1
<1> QED
  BY <1>1, <1>2, <1>3, <1>4, <1>5 DEF Places, Precedes

\* What mergeInterceptors() makes of interceptors a and those, each once, of b.
Merging(m, a, b, T) ==
    /\ m \in Seq(T) /\ IsInjective(m) /\ ToSet(m) = ToSet(a) \cup ToSet(b)
    /\ \A x \in ToSet(a) \ ToSet(b), y \in ToSet(b) : Precedes(m, x, y)
    /\ \A x, y : Precedes(b, x, y) => Precedes(m, x, y)
    /\ IsInjective(a) =>
          \A x, y \in ToSet(a) \ ToSet(b) : Precedes(a, x, y) => Precedes(m, x, y)

LEMMA MergingIs ==
    ASSUME NEW T, NEW a \in Seq(T), NEW b \in Seq(T), IsInjective(b)
    PROVE  Merging(MergeInterceptors(a, b), a, b, T)
<1> DEFINE S == ToSet(a) \ ToSet(b)
           d == Distinct(a)
           w == Within(d, S)
           m == w \o b
<1>1. MergeInterceptors(a, b) = m
  <2>1. Distinct(b) = b
    BY DistinctIs
  <2> QED
    BY <2>1, Zenon DEF MergeInterceptors
<1>2. d \in Seq(T) /\ IsInjective(d) /\ ToSet(d) = ToSet(a) /\ (IsInjective(a) => d = a)
  BY DistinctIs
<1> HIDE DEF d
<1>3. w \in Seq(T) /\ IsInjective(w) /\ ToSet(w) = S
  BY <1>2, WithinType, WithinElements
<1>4. m \in Seq(T) /\ ToSet(m) = ToSet(a) \cup ToSet(b) /\ IsInjective(m)
  <2>1. ToSet(w) \cap ToSet(b) = {}
    BY <1>3
  <2> HIDE DEF w
  <2> QED
    BY <1>3, <2>1, ConcatOnce
<1>5. \A x \in S, y \in ToSet(b) : Precedes(m, x, y)
  <2> HIDE DEF w
  <2> QED
    BY <1>3, PrecedesConcat
<1>6. \A x, y : Precedes(b, x, y) => Precedes(m, x, y)
  <2> HIDE DEF w
  <2> QED
    BY <1>3, PrecedesConcat
<1>7. ASSUME IsInjective(a), NEW x \in S, NEW y \in S, Precedes(a, x, y) PROVE Precedes(m, x, y)
  <2>1. Precedes(w, x, y)
    BY <1>2, <1>7, PrecedesWithin
  <2> HIDE DEF w
  <2> QED
    BY <1>3, <2>1, PrecedesConcat
<1> HIDE DEF m
<1>8. Merging(m, a, b, T)
  BY <1>4, <1>5, <1>6, <1>7 DEF Merging
<1> QED
  BY <1>1, <1>8

\* The decorators from the k-th on name these; the last of them that names x is l.
NamedFrom(k, specs) == UNION {ToSet(specs[i]) : i \in k .. Len(specs)}
IsLast(l, x, specs) ==
    /\ l \in 1 .. Len(specs) /\ x \in ToSet(specs[l])
    /\ \A j \in l + 1 .. Len(specs) : x \notin ToSet(specs[j])

\* What they make together: each once, in the order of the last to name them.
Decoration(q, k, specs, T) ==
    /\ q \in Seq(T) /\ IsInjective(q) /\ ToSet(q) = NamedFrom(k, specs)
    /\ \A x, y \in NamedFrom(k, specs) : \A a, b \in 1 .. Len(specs) :
          IsLast(a, x, specs) /\ IsLast(b, y, specs) /\ a < b => Precedes(q, x, y)

LEMMA DecorationGrows ==
    ASSUME NEW T, NEW specs \in Seq(Seq(T)), NEW k \in 1 .. Len(specs), NEW q,
           Decoration(q, k + 1, specs, T)
    PROVE  Decoration(MergeInterceptors(specs[k], q), k, specs, T)
<1> DEFINE a == specs[k]
           m == MergeInterceptors(a, q)
<1>1. a \in Seq(T) /\ Len(specs) \in Nat /\ q \in Seq(T) /\ IsInjective(q)
  BY DEF Decoration
<1>2. Merging(m, a, q, T)
  BY <1>1, MergingIs
<1>3. ToSet(q) = NamedFrom(k + 1, specs)
  BY DEF Decoration
<1>4. NamedFrom(k, specs) = ToSet(a) \cup NamedFrom(k + 1, specs)
  <2>1. \A i \in k .. Len(specs) : i = k \/ i \in k + 1 .. Len(specs)
    BY <1>1
  <2>2. k \in k .. Len(specs) /\ \A i \in k + 1 .. Len(specs) : i \in k .. Len(specs)
    BY <1>1
  <2> QED
    BY <2>1, <2>2 DEF NamedFrom
<1> HIDE DEF m
<1>5. ASSUME NEW x \in NamedFrom(k, specs), NEW y \in NamedFrom(k, specs),
             NEW i \in 1 .. Len(specs), NEW j \in 1 .. Len(specs),
             IsLast(i, x, specs), IsLast(j, y, specs), i < j
      PROVE  Precedes(m, x, y)
  <2>1. CASE y \in ToSet(q)
    <3>1. CASE x \in ToSet(q)
      <4>1. Precedes(q, x, y)
        BY <1>3, <1>5, <2>1, <3>1 DEF Decoration
      <4> QED
        BY <1>2, <4>1 DEF Merging
    <3>2. CASE x \notin ToSet(q)
      <4>1. x \in ToSet(a) \ ToSet(q)
        BY <1>3, <1>4, <3>2
      <4> QED
        BY <1>2, <2>1, <4>1 DEF Merging
    <3> QED
      BY <3>1, <3>2
  <2>2. CASE y \notin ToSet(q)
    <3>1. \A l \in k + 1 .. Len(specs) : y \notin ToSet(specs[l])
      BY <1>3, <2>2 DEF NamedFrom
    <3>2. j <= k
      BY <1>1, <1>5, <3>1 DEF IsLast
    <3>3. i < k
      BY <1>1, <1>5, <3>2
    <3>4. PICK l \in k .. Len(specs) : x \in ToSet(specs[l])
      BY DEF NamedFrom
    <3>5. l \in i + 1 .. Len(specs)
      BY <1>1, <3>3
    <3> QED
      BY <1>5, <3>4, <3>5 DEF IsLast
  <2> QED
    BY <2>1, <2>2
<1>6. m \in Seq(T) /\ IsInjective(m) /\ ToSet(m) = NamedFrom(k, specs)
  BY <1>2, <1>3, <1>4 DEF Merging
<1>7. Decoration(m, k, specs, T)
  BY <1>5, <1>6 DEF Decoration
<1> QED
  BY <1>7 DEF m

LEMMA DecoratedIs ==
    ASSUME NEW T, NEW specs \in Seq(Seq(T))
    PROVE  Decoration(Decorated(specs), 1, specs, T)
<1> DEFINE N == Len(specs)
           V == {q \in Seq(T) : IsInjective(q)}
           step == [n \in 1 .. N |-> [q \in V |-> MergeInterceptors(specs[N + 1 - n], q)]]
           Sol(f) == f = [n \in 0 .. N |->
                            IF n = 0 THEN <<>>
                            ELSE MergeInterceptors(specs[N + 1 - n], f[n - 1])]
           g == CHOOSE h : h = [n \in 0 .. N |->
                            IF n = 0 THEN <<>>
                            ELSE MergeInterceptors(specs[N + 1 - n], h[n - 1])]
<1>1. N \in Nat /\ \A n \in 1 .. N : N + 1 - n \in 1 .. N /\ specs[N + 1 - n] \in Seq(T)
  OBVIOUS
<1>2. <<>> \in V /\ ToSet(<<>>) = {}
  BY DEF IsInjective, ToSet
<1>3. \A a \in Seq(T), q \in V : MergeInterceptors(a, q) \in V
  BY MergingIs DEF Merging
<1>4. step \in [1 .. N -> [V -> V]]
  <2>1. \A n \in 1 .. N : [q \in V |-> MergeInterceptors(specs[N + 1 - n], q)] \in [V -> V]
    BY <1>1, <1>3
  <2> QED
    BY <2>1
<1>5. \E f : Recursion(f, V, <<>>, N, step)
  <2> HIDE DEF step, V, N
  <2> QED
    BY <1>1, <1>2, <1>4, RecursionExists, Zenon
<1>6. PICK f \in [0 .. N -> V] : f[0] = <<>> /\ \A n \in 1 .. N : f[n] = step[n][f[n - 1]]
  BY <1>5, Zenon DEF Recursion
<1>7. \A n \in 1 .. N : f[n] = MergeInterceptors(specs[N + 1 - n], f[n - 1])
  <2>1. \A n \in 1 .. N : n - 1 \in 0 .. N /\ f[n - 1] \in V
    <3> HIDE DEF V
    <3>1. \A n \in 1 .. N : n - 1 \in 0 .. N
      BY <1>1
    <3> QED
      BY <3>1
  <2>2. \A n \in 1 .. N, q \in V : step[n][q] = MergeInterceptors(specs[N + 1 - n], q)
    OBVIOUS
  <2> HIDE DEF step, V
  <2> QED
    BY <1>6, <2>1, <2>2
<1>8. Sol(f)
  <2>1. \A n \in 0 .. N : n = 0 \/ n \in 1 .. N
    BY <1>1
  <2>2. \A n \in 0 .. N :
           f[n] = IF n = 0 THEN <<>> ELSE MergeInterceptors(specs[N + 1 - n], f[n - 1])
    BY <1>6, <1>7, <2>1, Zenon
  <2> QED
    BY <2>2
<1>9. Sol(g)
  <2> HIDE <1>6, <1>7
  <2> QED
    BY <1>8, Zenon
<1>10. Decorated(specs) = g[N]
  BY Zenon DEF Decorated
<1> HIDE DEF g
<1>11. g[0] = <<>> /\ \A n \in 1 .. N : g[n] = MergeInterceptors(specs[N + 1 - n], g[n - 1])
  <2>1. \A n \in 0 .. N :
           g[n] = IF n = 0 THEN <<>> ELSE MergeInterceptors(specs[N + 1 - n], g[n - 1])
    BY <1>9, Zenon
  <2>2. 0 \in 0 .. N /\ \A n \in 1 .. N : n \in 0 .. N /\ n # 0
    BY <1>1
  <2> QED
    BY <2>1, <2>2, Zenon
<1> HIDE DEF Sol, step
<1> DEFINE G == {n \in Nat : n <= N => Decoration(g[n], N + 1 - n, specs, T)}
<1>12. 0 \in G
  <2>1. NamedFrom(N + 1, specs) = {}
    BY <1>1 DEF NamedFrom
  <2>2. Decoration(<<>>, N + 1, specs, T)
    BY <1>2, <2>1 DEF Decoration
  <2>3. N + 1 - 0 = N + 1
    BY <1>1
  <2> QED
    BY <1>11, <2>2, <2>3
<1>13. ASSUME NEW n \in Nat, n \in G PROVE n + 1 \in G
  <2> SUFFICES ASSUME n + 1 <= N PROVE Decoration(g[n + 1], N + 1 - (n + 1), specs, T)
    OBVIOUS
  <2> DEFINE k == N + 1 - (n + 1)
  <2>1. k \in 1 .. N /\ k + 1 = N + 1 - n /\ n + 1 \in 1 .. N /\ (n + 1) - 1 = n /\ n <= N
    BY <1>1
  <2>2. Decoration(g[n], k + 1, specs, T)
    BY <1>13, <2>1
  <2>3. g[n + 1] = MergeInterceptors(specs[k], g[n])
    BY <1>11, <2>1
  <2> HIDE DEF k
  <2> QED
    BY <2>1, <2>2, <2>3, DecorationGrows
<1>14. N \in G
  <2> HIDE DEF G
  <2> QED
    BY <1>1, <1>12, <1>13, Induction
<1>15. N + 1 - N = 1
  BY <1>1
<1> QED
  BY <1>1, <1>10, <1>14, <1>15

\* What getGlobalInterceptorBindingKeys() finds.
Globals(g, bindings, order, source) ==
    /\ IsInjective(g)
    /\ ToSet(g) = {b.key : b \in {x \in ToSet(bindings) : ApplicableTo(x, source)}}
    /\ \A i, j \in 1 .. Len(bindings) :
          (/\ ApplicableTo(bindings[i], source) /\ ApplicableTo(bindings[j], source)
           /\ \/ Ahead(bindings[i].group, bindings[j].group, order)
              \/ bindings[i].group = bindings[j].group /\ i < j)
          => Precedes(g, bindings[i].key, bindings[j].key)

\* A binding with a key and a group.
BindingsWith(keys, B) == \A b \in B : b.key \in keys /\ b.group \in Nat

LEMMA GlobalsAre ==
    ASSUME NEW keys, NEW B, BindingsWith(keys, B), NEW s \in Seq(B), OnceBound(s),
           NEW order \in Seq(Nat), NEW source
    PROVE  /\ GlobalKeys(s, order, source) \in Seq(keys)
           /\ Globals(GlobalKeys(s, order, source), s, order, source)
<1> DEFINE A == {b \in ToSet(s) : ApplicableTo(b, source)}
           applied == Within(s, A)
           sorted == SortByGroup(applied, order)
           g == GlobalKeys(s, order, source)
<1>1. /\ DOMAIN s = 1 .. Len(s) /\ Len(s) \in Nat
      /\ \A i \in 1 .. Len(s) : s[i] \in B /\ s[i].key \in keys /\ s[i].group \in Nat
  BY DEF BindingsWith
<1>2. g = [i \in 1 .. Len(sorted) |-> sorted[i].key]
  BY Zenon DEF GlobalKeys
<1>3. \A i \in 1 .. Len(s) : s[i] \in A <=> ApplicableTo(s[i], source)
  BY <1>1 DEF ToSet
<1> HIDE DEF A, g
<1>4. applied \in Seq(B)
  BY WithinType
<1>5. PICK h : Places(h, applied, s, A)
  BY WithinPlaces
<1> HIDE DEF applied
<1>6. \A x \in B : x.group \in Nat
  BY DEF BindingsWith
<1>7. PICK f : Sorting(f, sorted, applied, SortedBy(applied, order), B)
  BY <1>4, <1>6, SortingIs
<1>8. \A i, j \in 1 .. Len(applied) :
         <<i, j>> \in SortedBy(applied, order) <=>
            \/ Ahead(applied[i].group, applied[j].group, order)
            \/ applied[i].group = applied[j].group /\ i < j
  BY <1>4, <1>6, SortOrders
<1>9. /\ Len(applied) \in Nat /\ \A a \in 1 .. Len(applied) : applied[a] \in B
      /\ h \in [1 .. Len(applied) -> 1 .. Len(s)]
      /\ \A a, b \in 1 .. Len(applied) : a < b => h[a] < h[b]
      /\ \A a \in 1 .. Len(applied) : applied[a] = s[h[a]] /\ s[h[a]] \in A
      /\ \A i \in 1 .. Len(s) : s[i] \in A => \E a \in 1 .. Len(applied) : h[a] = i
  BY <1>4, <1>5 DEF Places
<1> HIDE DEF sorted
<1>10. /\ sorted \in Seq(B) /\ Len(sorted) = Len(applied)
       /\ f \in [1 .. Len(applied) -> 1 .. Len(applied)]
       /\ \A a, b \in 1 .. Len(applied) :
             (\/ Ahead(applied[a].group, applied[b].group, order)
              \/ applied[a].group = applied[b].group /\ a < b) => f[a] < f[b]
       /\ \A a \in 1 .. Len(applied) : sorted[f[a]] = applied[a]
       /\ \A p \in 1 .. Len(applied) : \E a \in 1 .. Len(applied) : f[a] = p
  BY <1>7, <1>8 DEF Sorting
<1>11. \A p \in 1 .. Len(applied) : g[p] = sorted[p].key /\ sorted[p] \in B /\ g[p] \in keys
  BY <1>2, <1>10 DEF BindingsWith
<1>12. g \in Seq(keys) /\ Len(g) = Len(applied) /\ DOMAIN g = 1 .. Len(applied)
  BY <1>2, <1>9, <1>10, <1>11
\* Where the place p of g comes from.
<1>13. \A p \in 1 .. Len(applied) : \E a \in 1 .. Len(applied) :
          f[a] = p /\ h[a] \in 1 .. Len(s) /\ g[p] = s[h[a]].key /\ s[h[a]] \in A
  <2> SUFFICES ASSUME NEW p \in 1 .. Len(applied)
               PROVE  \E a \in 1 .. Len(applied) :
                         f[a] = p /\ h[a] \in 1 .. Len(s) /\ g[p] = s[h[a]].key /\ s[h[a]] \in A
    OBVIOUS
  <2> DEFINE places == 1 .. Len(applied)
             found == 1 .. Len(s)
  <2>1. PICK a \in places : f[a] = p
    BY <1>10
  <2>2. sorted[f[a]] = applied[a] /\ applied[a] = s[h[a]] /\ s[h[a]] \in A
    BY <1>9, <1>10
  <2>3. g[p] = sorted[p].key
    BY <1>11
  <2>4. h \in [places -> found]
    BY <1>9
  <2> HIDE DEF places, found
  <2>5. h[a] \in found
    BY <2>4
  <2>6. g[p] = s[h[a]].key
    BY <2>1, <2>2, <2>3
  <2> QED
    BY <2>1, <2>2, <2>5, <2>6 DEF places, found
<1>14. IsInjective(g)
  <2> SUFFICES ASSUME NEW p \in 1 .. Len(applied), NEW q \in 1 .. Len(applied), g[p] = g[q]
               PROVE  p = q
    BY <1>12 DEF IsInjective
  <2>1. PICK a \in 1 .. Len(applied) : f[a] = p /\ h[a] \in 1 .. Len(s) /\ g[p] = s[h[a]].key
    BY <1>13
  <2>2. PICK b \in 1 .. Len(applied) : f[b] = q /\ h[b] \in 1 .. Len(s) /\ g[q] = s[h[b]].key
    BY <1>13
  <2>3. h[a] = h[b]
    BY <1>1, <2>1, <2>2 DEF OnceBound
  <2>4. ~(a < b) /\ ~(b < a)
    <3>1. (a < b => h[a] < h[b]) /\ (b < a => h[b] < h[a])
      BY <1>9
    <3> QED
      BY <2>1, <2>2, <2>3, <3>1
  <2>5. a = b
    BY <1>9, <2>4, a \in Nat, b \in Nat
  <2> QED
    BY <2>1, <2>2, <2>5
<1>15. \A i \in 1 .. Len(s) : s[i] \in A => \E a \in 1 .. Len(applied) :
          h[a] = i /\ f[a] \in 1 .. Len(applied) /\ g[f[a]] = s[i].key
  <2> SUFFICES ASSUME NEW i \in 1 .. Len(s), s[i] \in A
               PROVE  \E a \in 1 .. Len(applied) :
                         h[a] = i /\ f[a] \in 1 .. Len(applied) /\ g[f[a]] = s[i].key
    OBVIOUS
  <2> DEFINE places == 1 .. Len(applied)
  <2>1. PICK a \in places : h[a] = i
    BY <1>9
  <2>2. sorted[f[a]] = applied[a] /\ applied[a] = s[h[a]]
    BY <1>9, <1>10
  <2>3. f \in [places -> places] /\ \A p \in places : g[p] = sorted[p].key
    BY <1>10, <1>11
  <2> HIDE DEF places
  <2>4. f[a] \in places
    BY <2>3
  <2>5. g[f[a]] = s[i].key
    BY <2>1, <2>2, <2>3, <2>4
  <2> QED
    BY <2>1, <2>4, <2>5 DEF places
<1>16. ToSet(g) = {b.key : b \in {x \in ToSet(s) : ApplicableTo(x, source)}}
  <2>1. \A p \in 1 .. Len(applied) : \E i \in 1 .. Len(s) : g[p] = s[i].key /\ s[i] \in A
    BY <1>13
  <2>2. \A i \in 1 .. Len(s) : s[i] \in A => \E p \in 1 .. Len(applied) : g[p] = s[i].key
    BY <1>15
  <2>3. ToSet(g) = {g[p] : p \in 1 .. Len(applied)} /\ ToSet(s) = {s[i] : i \in 1 .. Len(s)}
    BY <1>1, <1>12 DEF ToSet
  <2>4. ToSet(g) \subseteq {b.key : b \in A}
    BY <2>1, <2>3
  <2>5. {b.key : b \in A} \subseteq ToSet(g)
    BY <2>2, <2>3 DEF A
  <2> QED
    BY <2>4, <2>5 DEF A
<1>17. ASSUME NEW i \in 1 .. Len(s), NEW j \in 1 .. Len(s), s[i] \in A, s[j] \in A,
              \/ Ahead(s[i].group, s[j].group, order)
              \/ s[i].group = s[j].group /\ i < j
       PROVE  Precedes(g, s[i].key, s[j].key)
  <2>1. PICK a \in 1 .. Len(applied) :
           h[a] = i /\ f[a] \in 1 .. Len(applied) /\ g[f[a]] = s[i].key
    BY <1>15, <1>17
  <2>2. PICK b \in 1 .. Len(applied) :
           h[b] = j /\ f[b] \in 1 .. Len(applied) /\ g[f[b]] = s[j].key
    BY <1>15, <1>17
  <2>3. applied[a] = s[i] /\ applied[b] = s[j]
    BY <1>9, <2>1, <2>2
  <2>4. i < j => a < b
    <3> SUFFICES ASSUME i < j, b < a \/ a = b PROVE FALSE
      BY <1>9
    <3>1. h[b] < h[a] \/ h[b] = h[a]
      BY <1>9
    <3> QED
      BY <1>1, <2>1, <2>2, <3>1
  <2>5. f[a] < f[b]
    BY <1>10, <1>17, <2>3, <2>4
  <2> QED
    BY <1>12, <2>1, <2>2, <2>5 DEF Precedes
<1>18. Globals(g, s, order, source)
  BY <1>3, <1>14, <1>16, <1>17 DEF Globals
<1> QED
  BY <1>12, <1>18 DEF g

\* The last of the decorators that name x.
LEMMA LastExists ==
    ASSUME NEW T, NEW specs \in Seq(Seq(T)), NEW x \in NamedFrom(1, specs)
    PROVE  \E l : IsLast(l, x, specs)
<1> DEFINE N == Len(specs)
           I == {i \in 1 .. N : x \in ToSet(specs[i])}
<1>1. N \in Nat
  OBVIOUS
<1>2. PICK i \in 1 .. N : x \in ToSet(specs[i])
  BY DEF NamedFrom
<1>3. I # {} /\ I \in SUBSET (1 .. N)
  <2>1. i \in I
    BY <1>2
  <2> QED
    BY <2>1
<1>4. PICK l \in I : \A j \in I : j <= l
  <2> HIDE DEF I, N
  <2> QED
    BY <1>1, <1>3, GreatestElement
<1>5. \A j \in l + 1 .. N : x \notin ToSet(specs[j])
  BY <1>1, <1>4
<1> QED
  BY <1>4, <1>5 DEF IsLast

\* What loadInterceptors() makes of the global interceptors and of those of the decorators.
Loading(q, g, m, onClass, onMethod, T) ==
    /\ q \in Seq(T) /\ IsInjective(q)
    /\ ToSet(m) = NamedFrom(1, onClass) \cup NamedFrom(1, onMethod)
    /\ ToSet(q) = ToSet(g) \cup ToSet(m)
    /\ \A x \in ToSet(g) \ ToSet(m), y \in ToSet(m) : Precedes(q, x, y)
    /\ \A x \in NamedFrom(1, onClass) \ NamedFrom(1, onMethod), y \in NamedFrom(1, onMethod) :
          Precedes(q, x, y)
    /\ \A x, y \in NamedFrom(1, onMethod) : \A a, b \in 1 .. Len(onMethod) :
          IsLast(a, x, onMethod) /\ IsLast(b, y, onMethod) /\ a < b => Precedes(q, x, y)
    /\ \A x, y \in ToSet(g) \ ToSet(m) : Precedes(g, x, y) => Precedes(q, x, y)

LEMMA LoadingIs ==
    ASSUME NEW T, NEW g \in Seq(T), IsInjective(g),
           NEW onClass \in Seq(Seq(T)), NEW onMethod \in Seq(Seq(T))
    PROVE  \E m : Loading(LoadInterceptors(g, onClass, onMethod), g, m, onClass, onMethod, T)
<1> DEFINE c == Decorated(onClass)
           d == Decorated(onMethod)
           m == MergeInterceptors(c, d)
           q == MergeInterceptors(g, m)
<1>1. q = LoadInterceptors(g, onClass, onMethod)
  BY Zenon DEF LoadInterceptors
<1>2. Decoration(c, 1, onClass, T) /\ Decoration(d, 1, onMethod, T)
  BY DecoratedIs, Zenon
<1> HIDE DEF c, d
<1>3. /\ c \in Seq(T) /\ ToSet(c) = NamedFrom(1, onClass)
      /\ d \in Seq(T) /\ IsInjective(d) /\ ToSet(d) = NamedFrom(1, onMethod)
      /\ \A x, y \in NamedFrom(1, onMethod) : \A a, b \in 1 .. Len(onMethod) :
          IsLast(a, x, onMethod) /\ IsLast(b, y, onMethod) /\ a < b => Precedes(d, x, y)
  BY <1>2, Zenon DEF Decoration
<1>4. Merging(m, c, d, T)
  BY <1>3, MergingIs, Zenon
<1> HIDE DEF m
<1>5. m \in Seq(T) /\ IsInjective(m)
  BY <1>4 DEF Merging
<1>6. Merging(q, g, m, T)
  BY <1>5, MergingIs, Zenon
<1> HIDE DEF q
<1>7. /\ ToSet(m) = ToSet(c) \cup ToSet(d)
      /\ \A x \in ToSet(c) \ ToSet(d), y \in ToSet(d) : Precedes(m, x, y)
      /\ \A x, y : Precedes(d, x, y) => Precedes(m, x, y)
  BY <1>4 DEF Merging
<1>8. /\ q \in Seq(T) /\ IsInjective(q) /\ ToSet(q) = ToSet(g) \cup ToSet(m)
      /\ \A x \in ToSet(g) \ ToSet(m), y \in ToSet(m) : Precedes(q, x, y)
      /\ \A x, y : Precedes(m, x, y) => Precedes(q, x, y)
      /\ \A x, y \in ToSet(g) \ ToSet(m) : Precedes(g, x, y) => Precedes(q, x, y)
  BY <1>6 DEF Merging
<1>9. Loading(q, g, m, onClass, onMethod, T)
  BY <1>3, <1>7, <1>8, Zenon DEF Loading
<1> QED
  BY <1>1, <1>9

\* All of the decorators.
LEMMA NamedAre ==
    ASSUME NEW T, NEW specs \in Seq(Seq(T))
    PROVE  NamedFrom(1, specs) = UNION {ToSet(spec) : spec \in ToSet(specs)}
<1>1. ToSet(specs) = {specs[i] : i \in 1 .. Len(specs)}
  BY DEF ToSet
<1> QED
  BY <1>1, Zenon DEF NamedFrom

\* The groups of a chain are as GroupOrderKept has them.
LEMMA InterceptorsInOrder ==
    ASSUME NEW keys, NEW sources, NEW c \in InterceptedCalls(keys, sources)
    PROVE  /\ EachOnce(c.bindings, c.order, c.source, c.onClass, c.onMethod)
           /\ InnermostLevel(c.bindings, c.order, c.source, c.onClass, c.onMethod)
           /\ GroupOrderKept(c.bindings, c.order, c.source, c.onClass, c.onMethod)
<1> DEFINE B == [key : keys, group : Nat, sources : SUBSET sources]
           s == c.bindings
           order == c.order
           source == c.source
           onClass == c.onClass
           onMethod == c.onMethod
           g == GlobalKeys(s, order, source)
           q == LoadInterceptors(g, onClass, onMethod)
           method == NamedFrom(1, onMethod)
           class == NamedFrom(1, onClass)
<1>1. /\ s \in Seq(B) /\ OnceBound(s) /\ order \in Seq(Nat)
      /\ onClass \in Seq(Seq(keys)) /\ onMethod \in Seq(Seq(keys))
  BY DEF InterceptedCalls
<1>2. BindingsWith(keys, B)
  BY DEF BindingsWith
<1> HIDE DEF B
<1>3. g \in Seq(keys) /\ Globals(g, s, order, source)
  BY <1>1, <1>2, GlobalsAre, Zenon
<1>4. IsInjective(g)
  BY <1>3 DEF Globals
<1>5. PICK m : Loading(q, g, m, onClass, onMethod, keys)
  BY <1>1, <1>3, <1>4, LoadingIs, Zenon
<1>6. /\ method = UNION {ToSet(spec) : spec \in ToSet(onMethod)}
      /\ class = UNION {ToSet(spec) : spec \in ToSet(onClass)}
  BY <1>1, NamedAre, Zenon
<1>7. class \cup method = UNION {ToSet(spec) : spec \in ToSet(onClass) \cup ToSet(onMethod)}
  <2> HIDE DEF class, method
  <2> QED
    BY <1>6
<1>8. ToSet(g) = {b.key : b \in {x \in ToSet(s) : ApplicableTo(x, source)}}
  BY <1>3 DEF Globals
<1> HIDE DEF g, q, method, class
<1>9. /\ q \in Seq(keys) /\ IsInjective(q)
      /\ ToSet(m) = class \cup method /\ ToSet(q) = ToSet(g) \cup ToSet(m)
      /\ \A x \in ToSet(g) \ ToSet(m), y \in ToSet(m) : Precedes(q, x, y)
      /\ \A x \in class \ method, y \in method : Precedes(q, x, y)
      /\ \A x, y \in method : \A a, b \in 1 .. Len(onMethod) :
          IsLast(a, x, onMethod) /\ IsLast(b, y, onMethod) /\ a < b => Precedes(q, x, y)
      /\ \A x, y \in ToSet(g) \ ToSet(m) : Precedes(g, x, y) => Precedes(q, x, y)
  BY <1>5 DEF Loading, class, method
<1>10. EachOnce(s, order, source, onClass, onMethod)
  <2>1. {b.key : b \in {x \in ToSet(s) : ApplicableTo(x, source)}} =
           {b.key : b \in {x \in ToSet(s) :
                source = "unknown" \/ x.sources = {} \/ source \in x.sources}}
    BY Zenon DEF ApplicableTo
  <2>2. ToSet(q) =
             {b.key : b \in {x \in ToSet(s) :
                source = "unknown" \/ x.sources = {} \/ source \in x.sources}}
             \cup UNION {ToSet(spec) : spec \in ToSet(onClass) \cup ToSet(onMethod)}
    BY <1>7, <1>8, <1>9, <2>1, Zenon
  <2> QED
    BY <1>9, <2>2, Zenon DEF EachOnce, q, g
<1>11. InnermostLevel(s, order, source, onClass, onMethod)
  <2> DEFINE last(x, specs) == CHOOSE i \in 1..Len(specs) :
                Contains(specs[i], x) /\ \A j \in (i + 1)..Len(specs) : ~Contains(specs[j], x)
  <2>1. ASSUME NEW x \in ToSet(q), NEW y \in ToSet(q),
               (y \in method /\ x \notin method)
               \/ (y \in class \ method /\ x \notin method \cup (class \ method))
        PROVE  Precedes(q, x, y)
    <3>1. CASE y \in method /\ x \notin method /\ x \in class
      BY <1>9, <3>1, Zenon
    <3>2. CASE y \in class \cup method /\ x \notin class \cup method
      <4>1. y \in ToSet(m) /\ x \in ToSet(g) \ ToSet(m)
        BY <1>9, <2>1, <3>2, Zenon
      <4> QED
        BY <1>9, <4>1, Zenon
    <3> QED
      BY <2>1, <3>1, <3>2
  <2>2. ASSUME NEW x \in method PROVE IsLast(last(x, onMethod), x, onMethod)
    <3> DEFINE N == Len(onMethod)
    <3>1. PICK l : IsLast(l, x, onMethod)
      BY <1>1, LastExists, Zenon DEF method
    <3>2. N \in Nat /\ \A i \in 1 .. N : onMethod[i] \in Seq(keys)
      BY <1>1
    <3>3. \A i \in 1 .. N : Contains(onMethod[i], x) <=> x \in ToSet(onMethod[i])
      BY <3>2, ContainsIs, Zenon
    <3>4. \A i \in 1 .. N : \A j \in (i + 1) .. N : j \in 1 .. N
      BY <3>2
    <3> HIDE DEF N
    <3>5. \A i \in 1 .. N :
             (Contains(onMethod[i], x) /\ \A j \in (i + 1) .. N : ~Contains(onMethod[j], x))
             <=> IsLast(i, x, onMethod)
      BY <3>3, <3>4, Zenon DEF IsLast, N
    <3>6. l \in 1 .. N
      BY <3>1 DEF IsLast, N
    <3> DEFINE P(i) == Contains(onMethod[i], x) /\ \A j \in (i + 1) .. N : ~Contains(onMethod[j], x)
               k == CHOOSE i \in 1 .. N : P(i)
    <3>7. k \in 1 .. N /\ P(k)
      <4>1. P(l)
        BY <3>1, <3>5, <3>6, Zenon
      <4> QED
        BY <3>6, <4>1, Zenon
    <3>8. k = last(x, onMethod)
      BY Zenon DEF N
    <3> QED
      BY <3>5, <3>7, <3>8, Zenon
  <2>3. ASSUME NEW x \in method, NEW y \in method, last(x, onMethod) < last(y, onMethod)
        PROVE  Precedes(q, x, y)
    <3>1. IsLast(last(x, onMethod), x, onMethod) /\ IsLast(last(y, onMethod), y, onMethod)
      BY <2>2
    <3> HIDE DEF last
    <3>2. last(x, onMethod) \in 1 .. Len(onMethod) /\ last(y, onMethod) \in 1 .. Len(onMethod)
      BY <3>1, Zenon DEF IsLast
    <3> QED
      BY <1>9, <2>3, <3>1, <3>2, Zenon
  <2>4. /\ \A x, y \in ToSet(q) :
             (y \in method /\ x \notin method)
             \/ (y \in class \ method /\ x \notin method \cup (class \ method))
                => Precedes(q, x, y)
        /\ \A x, y \in method : last(x, onMethod) < last(y, onMethod) => Precedes(q, x, y)
    BY <2>1, <2>3, Zenon
  <2> DEFINE M == UNION {ToSet(spec) : spec \in ToSet(onMethod)}
             C == (UNION {ToSet(spec) : spec \in ToSet(onClass)}) \ M
  <2>5. M = method /\ C = class \ method
    BY <1>6, Zenon
  <2>6. /\ \A x, y \in ToSet(q) :
             (y \in M /\ x \notin M) \/ (y \in C /\ x \notin M \cup C) => Precedes(q, x, y)
        /\ \A x, y \in M : last(x, onMethod) < last(y, onMethod) => Precedes(q, x, y)
    <3> HIDE DEF M, C, last
    <3> QED
      BY <2>4, <2>5
  <2> QED
    BY <2>6, Zenon DEF InnermostLevel, q, g
<1>12. GroupOrderKept(s, order, source, onClass, onMethod)
  <2>1. ASSUME NEW i \in 1 .. Len(s), s[i].key \in ToSet(q) \ (class \cup method)
        PROVE  s[i].key \in ToSet(g) \ ToSet(m) /\ ApplicableTo(s[i], source)
    <3>1. s[i].key \in ToSet(g) \ ToSet(m)
      BY <1>9, <2>1, Zenon
    <3>2. PICK b \in ToSet(s) : ApplicableTo(b, source) /\ b.key = s[i].key
      BY <1>8, <3>1
    <3>3. DOMAIN s = 1 .. Len(s)
      BY <1>1
    <3>4. PICK k \in 1 .. Len(s) : b = s[k]
      BY <3>2, <3>3 DEF ToSet
    <3>5. k = i
      BY <1>1, <3>2, <3>3, <3>4 DEF OnceBound
    <3> QED
      BY <3>1, <3>2, <3>4, <3>5
  <2>2. ASSUME NEW i \in 1 .. Len(s), NEW j \in 1 .. Len(s),
               s[i].key \in ToSet(q) \ (class \cup method),
               s[j].key \in ToSet(q) \ (class \cup method),
               Ahead(s[i].group, s[j].group, order) \/ (s[i].group = s[j].group /\ i < j)
        PROVE  Precedes(q, s[i].key, s[j].key)
    <3>1. /\ s[i].key \in ToSet(g) \ ToSet(m) /\ ApplicableTo(s[i], source)
          /\ s[j].key \in ToSet(g) \ ToSet(m) /\ ApplicableTo(s[j], source)
      BY <2>1, <2>2
    <3>2. Precedes(g, s[i].key, s[j].key)
      BY <1>3, <2>2, <3>1 DEF Globals
    <3> QED
      BY <1>9, <3>1, <3>2
  <2>3. \A i, j \in 1 .. Len(s) :
          (/\ {s[i].key, s[j].key} \subseteq ToSet(q) \ (class \cup method)
           /\ Ahead(s[i].group, s[j].group, order) \/ (s[i].group = s[j].group /\ i < j))
          => Precedes(q, s[i].key, s[j].key)
    BY <2>2
  <2> QED
    BY <1>7, <2>3, Zenon DEF GroupOrderKept, Ahead, q, g
<1> QED
  BY <1>10, <1>11, <1>12

---------------------------------------------------------------------------
(* The order of middleware *)

\* The ends of edges: the groups that toposort is asked to order.
Ends(edges) == UNION {{e[1], e[2]} : e \in edges}

\* Each group in the order has a place, and no other.
LEMMA GroupsSorted ==
    ASSUME NEW edges, IsFiniteSet(Ends(edges)), NEW order \in SortedGroups(edges)
    PROVE  /\ order \in Seq(Ends(edges)) /\ ToSet(order) = Ends(edges)
           /\ \A e \in edges : IndexOf(order, e[1]) < IndexOf(order, e[2])
<1> DEFINE S == Ends(edges)
           n == Cardinality(S)
<1>1. n \in Nat
  BY FS_CardinalityType
<1>2. /\ order \in [1 .. n -> S]
      /\ \A i, j \in 1 .. n : i # j => order[i] # order[j]
      /\ \A e \in edges : IndexOf(order, e[1]) < IndexOf(order, e[2])
  BY Zenon DEF SortedGroups, SetToSeqs, Ends
<1> HIDE DEF S, n
<1>3. order \in Seq(S) /\ DOMAIN order = 1 .. n
  BY <1>1, <1>2
<1>4. order \in Injection(1 .. n, S)
  BY <1>2, <1>3 DEF Injection, IsInjective
<1>5. Cardinality(1 .. n) = n /\ IsFiniteSet(1 .. n)
  BY <1>1, FiniteInterval
<1>6. order \in Surjection(1 .. n, S)
  <2>1. IsFiniteSet(S) /\ Cardinality(1 .. n) = Cardinality(S)
    BY <1>5 DEF S, n
  <2> QED
    BY <1>4, <2>1, FS_Injection
<1>7. \A g \in S : \E i \in 1 .. n : order[i] = g
  BY <1>6 DEF Surjection
<1>8. ToSet(order) = S
  BY <1>2, <1>3, <1>7 DEF ToSet
<1> QED
  BY <1>2, <1>3, <1>8 DEF S

\* A sequence has finitely many elements.
LEMMA ElementsFinite ==
    ASSUME NEW T, NEW s \in Seq(T)
    PROVE  IsFiniteSet(ToSet(s))
<1>1. Len(s) \in Nat /\ DOMAIN s = 1 .. Len(s)
  OBVIOUS
<1>2. s \in Surjection(1 .. Len(s), ToSet(s))
  <2>1. s = [i \in 1 .. Len(s) |-> s[i]]
    BY <1>1
  <2>2. ToSet(s) = {s[i] : i \in 1 .. Len(s)}
    BY <1>1, Zenon DEF ToSet
  <2> QED
    BY <2>1, <2>2 DEF Surjection
<1>3. IsFiniteSet(1 .. Len(s))
  BY <1>1, FiniteInterval
<1> QED
  BY <1>2, <1>3, FS_Surjection

\* A binding of a middleware.
Middleware(b) ==
    /\ b.group \in Nat /\ b.upstream \subseteq Nat /\ b.downstream \subseteq Nat
    /\ IsFiniteSet(b.upstream) /\ IsFiniteSet(b.downstream)

Consecutive(o) == {<<o[i], o[i + 1]>> : i \in 1 .. (Len(o) - 1)}

\* The edges, whose ends are groups of a binding or of the options.
EdgesAre(edges, s, o) ==
    \A e : e \in edges <=>
              \/ \E i \in 1 .. Len(s) :
                    \/ \E d \in s[i].upstream : e = <<d, s[i].group>>
                    \/ \E d \in s[i].downstream : e = <<s[i].group, d>>
              \/ \E i \in 1 .. (Len(o) - 1) : e = <<o[i], o[i + 1]>>

LEMMA EdgeCases ==
    ASSUME NEW T, NEW s \in Seq(T), NEW o \in Seq(Nat)
    PROVE  EdgesAre(Edges(s, o), s, o)
<1> SUFFICES ASSUME NEW e
             PROVE  e \in Edges(s, o) <=>
              \/ \E i \in 1 .. Len(s) :
                    \/ \E d \in s[i].upstream : e = <<d, s[i].group>>
                    \/ \E d \in s[i].downstream : e = <<s[i].group, d>>
              \/ \E i \in 1 .. (Len(o) - 1) : e = <<o[i], o[i + 1]>>
  BY Zenon DEF EdgesAre
<1> DEFINE up(b) == {<<d, b.group>> : d \in b.upstream}
           down(b) == {<<b.group, d>> : d \in b.downstream}
<1>1. Edges(s, o) = (UNION {up(b) : b \in ToSet(s)})
                     \cup (UNION {down(b) : b \in ToSet(s)}) \cup Consecutive(o)
  BY Zenon DEF Edges, Consecutive
<1>2. \A b : e \in up(b) <=> \E d \in b.upstream : e = <<d, b.group>>
  OBVIOUS
<1>3. \A b : e \in down(b) <=> \E d \in b.downstream : e = <<b.group, d>>
  OBVIOUS
<1>4. e \in Consecutive(o) <=> \E i \in 1 .. (Len(o) - 1) : e = <<o[i], o[i + 1]>>
  BY Zenon DEF Consecutive
<1> HIDE DEF up, down
<1>5. ToSet(s) = {s[i] : i \in 1 .. Len(s)}
  BY DEF ToSet
<1>6. e \in UNION {up(b) : b \in ToSet(s)} <=> \E i \in 1 .. Len(s) : e \in up(s[i])
  BY <1>5
<1>7. e \in UNION {down(b) : b \in ToSet(s)} <=> \E i \in 1 .. Len(s) : e \in down(s[i])
  BY <1>5
<1>8. e \in Edges(s, o) <=> \/ e \in UNION {up(b) : b \in ToSet(s)}
                           \/ e \in UNION {down(b) : b \in ToSet(s)}
                           \/ e \in Consecutive(o)
  BY <1>1, Zenon
<1> QED
  BY <1>2, <1>3, <1>4, <1>6, <1>7, <1>8, Zenon

\* There are finitely many ends.
LEMMA EndsFinite ==
    ASSUME NEW T, NEW s \in Seq(T), NEW o \in Seq(Nat), \A b \in T : Middleware(b)
    PROVE  /\ IsFiniteSet(Ends(Edges(s, o)))
           /\ Ends(Edges(s, o)) \subseteq Nat
<1> DEFINE F == [i \in 1 .. Len(s) |-> {s[i].group} \cup (s[i].upstream \cup s[i].downstream)]
           G == ToSet(F)
<1>1. Len(s) \in Nat /\ \A i \in 1 .. Len(s) : Middleware(s[i])
  OBVIOUS
<1>2. \A i \in 1 .. Len(s) : IsFiniteSet(F[i]) /\ F[i] \subseteq Nat
  <2> SUFFICES ASSUME NEW i \in 1 .. Len(s)
               PROVE  IsFiniteSet({s[i].group} \cup (s[i].upstream \cup s[i].downstream))
                      /\ F[i] \subseteq Nat
    OBVIOUS
  <2>1. IsFiniteSet({s[i].group}) /\ IsFiniteSet(s[i].upstream) /\ IsFiniteSet(s[i].downstream)
    BY <1>1, FS_Singleton DEF Middleware
  <2>2. IsFiniteSet(s[i].upstream \cup s[i].downstream)
    BY <2>1, FS_Union
  <2> QED
    BY <1>1, <2>1, <2>2, FS_Union DEF Middleware
<1>3. F \in Seq(SUBSET Nat) /\ DOMAIN F = 1 .. Len(s)
  <2>1. F \in [1 .. Len(s) -> SUBSET Nat] /\ DOMAIN F = 1 .. Len(s)
    <3>1. DOMAIN F = 1 .. Len(s) /\ F = [i \in 1 .. Len(s) |-> F[i]]
      OBVIOUS
    <3> HIDE DEF F
    <3> QED
      BY <1>2, <3>1
  <2> HIDE DEF F
  <2> DEFINE n == Len(s)
  <2>2. n \in Nat /\ F \in [1 .. n -> SUBSET Nat]
    BY <1>1, <2>1
  <2> HIDE DEF n
  <2>3. F \in Seq(SUBSET Nat)
    BY <2>2
  <2> QED
    BY <2>1, <2>3
<1>4. IsFiniteSet(G)
  BY <1>3, ElementsFinite
<1>5. \A g \in G : IsFiniteSet(g) /\ g \subseteq Nat
  <2> HIDE DEF F
  <2> QED
    BY <1>2, <1>3 DEF ToSet
<1>6. IsFiniteSet(UNION G) /\ (UNION G) \subseteq Nat
  <2> HIDE DEF G
  <2> QED
    BY <1>4, <1>5, FS_UNION
<1>7. IsFiniteSet(ToSet(o)) /\ ToSet(o) \subseteq Nat
  BY ElementsFinite DEF ToSet
<1>8. \A i \in 1 .. Len(s) : F[i] \subseteq UNION G
  <2> HIDE DEF F
  <2> QED
    BY <1>3 DEF ToSet
<1>9. \A i \in 1 .. Len(s) : /\ s[i].group \in UNION G
                            /\ s[i].upstream \subseteq UNION G /\ s[i].downstream \subseteq UNION G
  <2>1. \A i \in 1 .. Len(s) : /\ s[i].group \in F[i]
                              /\ s[i].upstream \subseteq F[i] /\ s[i].downstream \subseteq F[i]
    OBVIOUS
  <2> HIDE DEF F, G
  <2> QED
    BY <1>8, <2>1, Zenon
<1>10. \A i \in 1 .. (Len(o) - 1) : o[i] \in ToSet(o) /\ o[i + 1] \in ToSet(o)
  BY DEF ToSet
<1>11. \A e \in Edges(s, o) : e[1] \in (UNION G) \cup ToSet(o) /\ e[2] \in (UNION G) \cup ToSet(o)
  <2> SUFFICES ASSUME NEW e \in Edges(s, o)
               PROVE  e[1] \in (UNION G) \cup ToSet(o) /\ e[2] \in (UNION G) \cup ToSet(o)
    OBVIOUS
  <2> HIDE DEF F, G
  <2>1. CASE \E i \in 1 .. Len(s) : \E d \in s[i].upstream : e = <<d, s[i].group>>
    BY <1>9, <2>1
  <2>2. CASE \E i \in 1 .. Len(s) : \E d \in s[i].downstream : e = <<s[i].group, d>>
    BY <1>9, <2>2
  <2>3. CASE \E i \in 1 .. (Len(o) - 1) : e = <<o[i], o[i + 1]>>
    BY <1>10, <2>3
  <2>4. \/ \E i \in 1 .. Len(s) :
              \/ \E d \in s[i].upstream : e = <<d, s[i].group>>
              \/ \E d \in s[i].downstream : e = <<s[i].group, d>>
        \/ \E i \in 1 .. (Len(o) - 1) : e = <<o[i], o[i + 1]>>
    <3>1. EdgesAre(Edges(s, o), s, o)
      BY EdgeCases
    <3> QED
      BY <3>1, Zenon DEF EdgesAre
  <2> QED
    BY <2>1, <2>2, <2>3, <2>4
<1> HIDE DEF F, G
<1>12. Ends(Edges(s, o)) \subseteq (UNION G) \cup ToSet(o)
  BY <1>11 DEF Ends
<1>13. IsFiniteSet((UNION G) \cup ToSet(o))
  BY <1>6, <1>7, FS_Union
<1> QED
  BY <1>6, <1>7, <1>12, <1>13, FS_Subset

\* A group that precedes another in the order comes first in it.
LEMMA ConsecutiveOrder ==
    ASSUME NEW o \in Seq(Nat), NEW order \in Seq(Nat),
           \A e \in Consecutive(o) : IndexOf(order, e[1]) < IndexOf(order, e[2]),
           NEW g, NEW h, Precedes(o, g, h)
    PROVE  IndexOf(order, g) < IndexOf(order, h)
<1>1. PICK i \in 1 .. Len(o), j \in 1 .. Len(o) : i < j /\ o[i] = g /\ o[j] = h
  BY DEF Precedes
<1> DEFINE x == [k \in 1 .. Len(o) |-> IndexOf(order, o[k])]
           S == {d \in Nat : i + d + 1 \in 1 .. Len(o) => x[i] < x[i + d + 1]}
<1>2. \A k \in 1 .. Len(o) : IndexOf(order, o[k]) \in Nat
  BY IndexIs
<1>3. \A k \in 1 .. Len(o) - 1 : IndexOf(order, o[k]) < IndexOf(order, o[k + 1])
  <2> SUFFICES ASSUME NEW k \in 1 .. Len(o) - 1
               PROVE  IndexOf(order, o[k]) < IndexOf(order, o[k + 1])
    OBVIOUS
  <2>1. <<o[k], o[k + 1]>> \in Consecutive(o)
    BY DEF Consecutive
  <2>2. IndexOf(order, <<o[k], o[k + 1]>>[1]) < IndexOf(order, <<o[k], o[k + 1]>>[2])
    BY <2>1, Zenon
  <2>3. <<o[k], o[k + 1]>>[1] = o[k] /\ <<o[k], o[k + 1]>>[2] = o[k + 1]
    OBVIOUS
  <2> QED
    BY <2>2, <2>3, Zenon
<1>4. \A k \in 1 .. Len(o) : x[k] = IndexOf(order, o[k]) /\ x[k] \in Nat
  BY <1>2
<1>5. \A k \in 1 .. Len(o) - 1 : x[k] < x[k + 1]
  <2> SUFFICES ASSUME NEW k \in 1 .. Len(o) - 1 PROVE x[k] < x[k + 1]
    OBVIOUS
  <2>1. k \in 1 .. Len(o) /\ k + 1 \in 1 .. Len(o)
    OBVIOUS
  <2>2. x[k] = IndexOf(order, o[k]) /\ x[k + 1] = IndexOf(order, o[k + 1])
    BY <1>4, <2>1, Zenon
  <2> QED
    BY <1>3, <2>2
<1> HIDE DEF x
<1>6. Len(o) \in Nat
  OBVIOUS
<1>7. 0 \in S
  <2> SUFFICES ASSUME i + 0 + 1 \in 1 .. Len(o) PROVE x[i] < x[i + 0 + 1]
    OBVIOUS
  <2>1. i + 0 + 1 = i + 1 /\ i \in 1 .. Len(o) - 1
    BY <1>6
  <2> QED
    BY <1>5, <2>1
<1>8. ASSUME NEW d \in Nat, d \in S PROVE d + 1 \in S
  <2> SUFFICES ASSUME i + (d + 1) + 1 \in 1 .. Len(o) PROVE x[i] < x[i + (d + 1) + 1]
    OBVIOUS
  <2> DEFINE k == i + d + 1
  <2>1. k \in 1 .. Len(o) - 1 /\ k \in 1 .. Len(o) /\ i + (d + 1) + 1 = k + 1 /\ k + 1 \in 1 .. Len(o)
    BY <1>6
  <2>2. x[i] < x[k]
    BY <1>8, <2>1
  <2> HIDE DEF k
  <2>3. x[k] < x[k + 1]
    BY <1>5, <2>1
  <2>4. x[i] \in Nat /\ x[k] \in Nat /\ x[k + 1] \in Nat
    BY <1>4, <2>1
  <2>5. x[i] < x[k + 1]
    BY <2>2, <2>3, <2>4
  <2> QED
    BY <2>1, <2>5, Zenon
<1>9. j - i - 1 \in S
  <2>1. j - i - 1 \in Nat
    BY <1>1, <1>6
  <2> HIDE DEF S
  <2> QED
    BY <1>7, <1>8, <2>1, Induction
<1>10. i + (j - i - 1) + 1 = j
  BY <1>6
<1>11. x[i] < x[j]
  BY <1>9, <1>10
<1> QED
  BY <1>1, <1>4, <1>11

\* What buildMiddlewareKeys() makes of a group that is ahead.
LEMMA KeysSorted ==
    ASSUME NEW T, NEW s \in Seq(T), \A x \in T : x.group \in Nat, NEW order \in Seq(Nat),
           NEW i \in 1 .. Len(s), NEW j \in 1 .. Len(s),
           \/ Ahead(s[i].group, s[j].group, order)
           \/ s[i].group = s[j].group /\ i < j
    PROVE  Precedes(MiddlewareKeys(s, order), s[i].key, s[j].key)
<1> DEFINE t == SortByGroup(s, order)
           keys == [p \in 1 .. Len(t) |-> t[p].key]
<1>1. PICK f : Sorting(f, t, s, SortedBy(s, order), T)
  BY SortingIs
<1>2. <<i, j>> \in SortedBy(s, order)
  BY SortOrders
<1>3. keys = MiddlewareKeys(s, order)
  BY Zenon DEF MiddlewareKeys
<1> HIDE DEF t
<1>4. /\ Len(t) = Len(s) /\ f[i] \in 1 .. Len(s) /\ f[j] \in 1 .. Len(s) /\ f[i] < f[j]
      /\ t[f[i]] = s[i] /\ t[f[j]] = s[j] /\ Len(s) \in Nat
  <2> DEFINE N == 1 .. Len(s)
  <2>1. /\ Len(t) = Len(s) /\ f \in [N -> N] /\ i \in N /\ j \in N
        /\ \A p, q \in N : <<p, q>> \in SortedBy(s, order) => f[p] < f[q]
        /\ \A p \in N : t[f[p]] = s[p]
    BY <1>1 DEF Sorting
  <2> HIDE DEF N
  <2>2. f[i] \in N /\ f[j] \in N /\ f[i] < f[j] /\ t[f[i]] = s[i] /\ t[f[j]] = s[j]
    BY <1>2, <2>1
  <2> QED
    BY <2>1, <2>2 DEF N
<1>5. Len(keys) = Len(s) /\ keys[f[i]] = s[i].key /\ keys[f[j]] = s[j].key
  BY <1>4
<1> HIDE DEF keys
<1>6. Precedes(keys, s[i].key, s[j].key)
  BY <1>4, <1>5 DEF Precedes
<1> QED
  BY <1>3, <1>6

\* Whatever order toposort chooses.
LEMMA MiddlewareSorted ==
    ASSUME NEW keys, NEW c \in MiddlewareChains(keys)
    PROVE  MiddlewareInOrder(c.bindings, c.orderedGroups)
<1> DEFINE B == [key : keys, group : Nat, sources : {{}},
                 upstream : {d \in SUBSET Nat : IsFiniteSet(d)},
                 downstream : {d \in SUBSET Nat : IsFiniteSet(d)}]
           s == c.bindings
           o == c.orderedGroups
           edges == Edges(s, o)
           ordered == Len(o) > 1
           named(g) == \/ \E b \in ToSet(s) :
                           \/ g \in b.upstream \cup b.downstream
                           \/ g = b.group /\ b.upstream \cup b.downstream # {}
                       \/ ordered /\ Contains(o, g)
<1>1. s \in Seq(B) /\ o \in Seq(Nat)
  BY DEF MiddlewareChains
<1>2. \A b \in B : Middleware(b) /\ b.group \in Nat
  BY DEF Middleware
<1> HIDE DEF B
<1>3. IsFiniteSet(Ends(edges)) /\ Ends(edges) \subseteq Nat
  BY <1>1, <1>2, EndsFinite
<1>4. /\ ToSet(s) = {s[i] : i \in 1 .. Len(s)} /\ Len(s) \in Nat
      /\ \A i \in 1 .. Len(s) : s[i] \in B /\ s[i].group \in Nat /\ s[i] \in ToSet(s)
  BY <1>1, <1>2 DEF ToSet
<1>5. \A e : e \in edges <=>
              \/ \E i \in 1 .. Len(s) :
                    \/ \E d \in s[i].upstream : e = <<d, s[i].group>>
                    \/ \E d \in s[i].downstream : e = <<s[i].group, d>>
              \/ \E i \in 1 .. (Len(o) - 1) : e = <<o[i], o[i + 1]>>
  <2>1. EdgesAre(edges, s, o)
    BY <1>1, EdgeCases
  <2> QED
    BY <2>1, Zenon DEF EdgesAre
<1>6. Len(o) \in Nat /\ \A g : Contains(o, g) <=> \E i \in 1 .. Len(o) : o[i] = g
  BY <1>1 DEF Contains
<1> HIDE DEF edges
<1>7. \A e \in edges : e[1] \in Ends(edges) /\ e[2] \in Ends(edges)
  BY DEF Ends
\* The groups that somebody orders are the ends of the edges.
<1>8. ASSUME NEW g, named(g) PROVE g \in Ends(edges)
  <2>1. CASE \E b \in ToSet(s) : g \in b.upstream
    <3>1. PICK i \in 1 .. Len(s) : g \in s[i].upstream
      BY <1>4, <2>1
    <3>2. <<g, s[i].group>> \in edges
      BY <1>5, <3>1, Zenon
    <3> QED
      BY <1>7, <3>2
  <2>2. CASE \E b \in ToSet(s) : g \in b.downstream
    <3>1. PICK i \in 1 .. Len(s) : g \in s[i].downstream
      BY <1>4, <2>2
    <3>2. <<s[i].group, g>> \in edges
      BY <1>5, <3>1, Zenon
    <3> QED
      BY <1>7, <3>2
  <2>3. CASE \E b \in ToSet(s) : g = b.group /\ b.upstream # {}
    <3>1. PICK i \in 1 .. Len(s) : \E d \in s[i].upstream : g = s[i].group
      BY <1>4, <2>3
    <3>3. PICK d \in s[i].upstream : g = s[i].group
      BY <3>1
    <3>2. <<d, g>> \in edges
      BY <3>3, <1>5, <3>1, Zenon
    <3> QED
      BY <1>7, <3>2
  <2>4. CASE \E b \in ToSet(s) : g = b.group /\ b.downstream # {}
    <3>1. PICK i \in 1 .. Len(s) : \E d \in s[i].downstream : g = s[i].group
      BY <1>4, <2>4
    <3>3. PICK d \in s[i].downstream : g = s[i].group
      BY <3>1
    <3>2. <<g, d>> \in edges
      BY <3>3, <1>5, <3>1, Zenon
    <3> QED
      BY <1>7, <3>2
  <2>5. CASE ordered /\ Contains(o, g)
    <3>1. PICK i \in 1 .. Len(o) : o[i] = g
      BY <1>6, <2>5
    <3>2. CASE i = 1
      <4>1. <<o[1], o[1 + 1]>> \in edges
        BY <1>5, <1>6, <2>5, 1 \in 1 .. (Len(o) - 1), Zenon
      <4> QED
        BY <1>7, <3>1, <3>2, <4>1
    <3>3. CASE i # 1
      <4>1. i - 1 \in 1 .. (Len(o) - 1) /\ (i - 1) + 1 = i
        BY <1>6, <3>3
      <4>2. <<o[i - 1], o[(i - 1) + 1]>> \in edges
        BY <1>5, <4>1, Zenon
      <4> QED
        BY <1>7, <3>1, <4>1, <4>2
    <3> QED
      BY <3>2, <3>3
  <2>6. \/ \E b \in ToSet(s) : g \in b.upstream
        \/ \E b \in ToSet(s) : g \in b.downstream
        \/ \E b \in ToSet(s) : g = b.group /\ b.upstream # {}
        \/ \E b \in ToSet(s) : g = b.group /\ b.downstream # {}
        \/ ordered /\ Contains(o, g)
    BY <1>8
  <2> QED
    BY <2>1, <2>2, <2>3, <2>4, <2>5, <2>6, Zenon
<1>9. ASSUME NEW g \in Ends(edges) PROVE named(g)
  <2>1. PICK e \in edges : g = e[1] \/ g = e[2]
    BY DEF Ends
  <2>2. CASE \E i \in 1 .. Len(s) : \E d \in s[i].upstream : e = <<d, s[i].group>>
    <3>1. PICK i \in 1 .. Len(s) : \E d \in s[i].upstream : e = <<d, s[i].group>>
      BY <2>2
    <3>3. PICK d \in s[i].upstream : e = <<d, s[i].group>>
      BY <3>1
    <3>2. g = d \/ g = s[i].group
      BY <2>1, <3>3
    <3> QED
      BY <1>4, <3>2
  <2>3. CASE \E i \in 1 .. Len(s) : \E d \in s[i].downstream : e = <<s[i].group, d>>
    <3>1. PICK i \in 1 .. Len(s) : \E d \in s[i].downstream : e = <<s[i].group, d>>
      BY <2>3
    <3>3. PICK d \in s[i].downstream : e = <<s[i].group, d>>
      BY <3>1
    <3>2. g = d \/ g = s[i].group
      BY <2>1, <3>3
    <3> QED
      BY <1>4, <3>2
  <2>4. CASE \E i \in 1 .. (Len(o) - 1) : e = <<o[i], o[i + 1]>>
    <3>1. PICK i \in 1 .. (Len(o) - 1) : e = <<o[i], o[i + 1]>>
      BY <2>4
    <3>2. i \in 1 .. Len(o) /\ i + 1 \in 1 .. Len(o) /\ ordered
      BY <1>6
    <3>3. g = o[i] \/ g = o[i + 1]
      BY <2>1, <3>1
    <3> QED
      BY <1>6, <3>2, <3>3
  <2> QED
    BY <1>5, <2>2, <2>3, <2>4, Zenon
<1> HIDE DEF named
<1>10. ASSUME NEW order \in SortedGroups(edges), NEW i \in 1 .. Len(s), NEW j \in 1 .. Len(s),
              \/ s[i].group \in s[j].upstream \/ s[j].group \in s[i].downstream
              \/ ordered /\ Precedes(o, s[i].group, s[j].group)
              \/ s[i].group = s[j].group /\ i < j
              \/ ~named(s[i].group) /\ named(s[j].group)
       PROVE  Precedes(MiddlewareKeys(s, order), s[i].key, s[j].key)
  <2> DEFINE g == s[i].group
             h == s[j].group
  <2>1. /\ order \in Seq(Ends(edges)) /\ ToSet(order) = Ends(edges)
        /\ \A e \in edges : IndexOf(order, e[1]) < IndexOf(order, e[2])
    BY <1>3, GroupsSorted
  <2>2. order \in Seq(Nat)
    BY <1>3, <2>1
  <2>3. \A a, b : <<a, b>> \in edges => IndexOf(order, a) < IndexOf(order, b)
    <3> SUFFICES ASSUME NEW a, NEW b, <<a, b>> \in edges
                 PROVE  IndexOf(order, a) < IndexOf(order, b)
      OBVIOUS
    <3>1. IndexOf(order, <<a, b>>[1]) < IndexOf(order, <<a, b>>[2])
      BY <2>1, Zenon
    <3>2. <<a, b>>[1] = a /\ <<a, b>>[2] = b
      OBVIOUS
    <3> QED
      BY <3>1, <3>2, Zenon
  <2>4. CASE g \in s[j].upstream \/ h \in s[i].downstream
    <3>1. <<g, h>> \in edges
      BY <1>5, <2>4, Zenon
    <3>2. Ahead(g, h, order)
      BY <2>3, <3>1, Zenon DEF Ahead
    <3> QED
      BY <1>1, <1>2, <2>2, <3>2, KeysSorted
  <2>5. CASE Precedes(o, g, h)
    <3>1. \A e \in Consecutive(o) : e \in edges
      BY <1>5, Zenon DEF Consecutive
    <3>2. \A e \in Consecutive(o) : IndexOf(order, e[1]) < IndexOf(order, e[2])
      BY <2>1, <3>1, Zenon
    <3>3. IndexOf(order, g) < IndexOf(order, h)
      BY <1>1, <2>2, <2>5, <3>2, ConsecutiveOrder, Zenon
    <3>4. Ahead(g, h, order)
      BY <3>3, Zenon DEF Ahead
    <3> QED
      BY <1>1, <1>2, <2>2, <3>4, KeysSorted
  <2>6. CASE g = h /\ i < j
    BY <1>1, <1>2, <2>2, <2>6, KeysSorted
  <2>7. CASE ~named(g) /\ named(h)
    <3>1. h \in ToSet(order) /\ g \notin ToSet(order)
      BY <1>8, <1>9, <2>1, <2>7, Zenon
    <3>2. IndexOf(order, h) # 0 /\ IndexOf(order, g) = 0 /\ IndexOf(order, h) \in Nat
      BY <2>2, <3>1, IndexIs, Zenon
    <3>3. IndexOf(order, g) < IndexOf(order, h)
      BY <3>2
    <3>4. Ahead(g, h, order)
      BY <3>3, Zenon DEF Ahead
    <3> QED
      BY <1>1, <1>2, <2>2, <3>4, KeysSorted
  <2> QED
    BY <1>10, <2>4, <2>5, <2>6, <2>7
<1>11. \A order \in SortedGroups(edges) : \A i, j \in 1 .. Len(s) :
              (\/ s[i].group \in s[j].upstream \/ s[j].group \in s[i].downstream
               \/ ordered /\ Precedes(o, s[i].group, s[j].group)
               \/ s[i].group = s[j].group /\ i < j
               \/ ~named(s[i].group) /\ named(s[j].group))
              => Precedes(MiddlewareKeys(s, order), s[i].key, s[j].key)
  BY <1>10, Zenon
<1> QED
  BY <1>11, Zenon DEF MiddlewareInOrder, named, edges

\* loadInterceptors() gives a call each of its interceptors once, at the innermost level that
\* names it and in the order of the groups; a chain of middleware runs each after its upstream
\* and before its downstream groups, whatever else toposort decides.
THEOREM ChainsAreInOrder ==
    ASSUME NEW keys, NEW sources,
           subject = "interceptors" => input \in InterceptedCalls(keys, sources),
           subject = "middleware" => input \in MiddlewareChains(keys)
    PROVE  ChainsInOrder
<1>1. ASSUME subject = "interceptors"
      PROVE  /\ EachOnce(input.bindings, input.order, input.source, input.onClass,
                         input.onMethod)
             /\ InnermostLevel(input.bindings, input.order, input.source, input.onClass,
                               input.onMethod)
             /\ GroupOrderKept(input.bindings, input.order, input.source, input.onClass,
                               input.onMethod)
  BY <1>1, InterceptorsInOrder, Zenon
<1>2. ASSUME subject = "middleware"
      PROVE  MiddlewareInOrder(input.bindings, input.orderedGroups)
  BY <1>2, MiddlewareSorted, Zenon
<1> QED
  BY <1>1, <1>2, Zenon DEF ChainsInOrder
=============================================================================

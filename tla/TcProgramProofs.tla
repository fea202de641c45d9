-------------------------- MODULE TcProgramProofs --------------------------
(***************************************************************************)
(* Proofs about the start and the end of a program (TcProgram), for any    *)
(* number of signals and of init functions.                                *)
(***************************************************************************)
EXTENDS TcProgram, SequenceTheorems, TLAPS

(* Where main is until it says that the init functions have ended, where   *)
(* only main is, where only a handler is, and where a shutdown is.         *)
Pre      == {"start", "test", "local", "init", "setLock", "set"}
MainOnly == Pre \union {"wait", "body"}
Admitted == {"signalLock", "signalTest"}
HandlerOnly == Admitted \union {"none", "initTest", "initTested", "done"}
Shutting == {"uninit", "uninitTest", "uninitSet", "exitWait", "walkLock", "walk"}

(* The shape of the state, with what the labels say of the counters.       *)
Shape ==
    /\ TypeOK
    /\ \A i, j \in 1 .. Len(stack) : stack[i] = stack[j] => i = j
    /\ \A i, j \in 1 .. 3 : order[i] = order[j] => i = j
    /\ pc["main"] \notin HandlerOnly
    /\ \A s \in Signal : pc[s] \notin MainOnly /\ (host[s] = "none" <=> pc[s] = "none")
    /\ \A s \in early : host[s] # "none"
    /\ pc["main"] \in {"start", "test"} => locals = 0
    /\ pc["main"] \in {"start", "test", "local"} => inits = 0
    /\ pc["main"] = "local" => locals < NLocal
    /\ pc["main"] = "init" => inits < NInit
    /\ \A a \in Actor : pc[a] = "walk" => walk[a] >= 1

(* A handler gets to the shutdown only before the init functions have      *)
(* ended, and main only after its threads were told to leave.              *)
Order ==
    /\ initFlag <=> pc["main"] \notin Pre
    /\ \A s \in Signal : pc[s] \in Admitted \union Shutting => s \in early
    /\ early = {} =>
           /\ pc["main"] \in {"walkLock", "walk"} => exitFlag
           /\ \A u \in Uninit : calls[u] > 0 => exitFlag /\ pc["main"] \in {"walk", "out"}

(* No thread of a pool ran a handler that was admitted.                    *)
Regular == \A s \in early : host[s] # "other"

(* One actor at most is in the shutdown, and what the walk has not come to *)
(* has not been called.                                                    *)
Once ==
    /\ \A a \in Actor : pc[a] \in {"exitWait", "walkLock", "walk"} => uninitFlag
    /\ \A s \in early : pc[s] # "done" => pc["main"] \in Pre
    /\ \A s \in Signal : pc[s] \in Shutting => signalFlag
    /\ \A s, t \in Signal : pc[s] \in Shutting /\ pc[t] \in Shutting => s = t
    /\ ~uninitFlag => \A u \in Uninit : calls[u] = 0
    /\ \A a \in Actor : pc[a] = "uninitSet" => ~uninitFlag
    /\ \A a \in Actor : pc[a] \in {"exitWait", "walkLock"} => \A u \in Uninit : calls[u] = 0
    /\ \A a \in Actor : pc[a] = "walk" => \A j \in walk[a] .. 3 : calls[order[j]] = 0
    /\ \A u \in Uninit : calls[u] <= 1

Inv == Shape /\ Order /\ (Regular => Once)

-----------------------------------------------------------------------------
LEMMA InitInv == Init => Inv
<1> SUFFICES ASSUME Init PROVE Inv
  OBVIOUS
<1> USE ProgramAssumption
<1>1. Shape
  <2>1. /\ pc \in [Actor -> Label]
        /\ pc["main"] = "start" /\ \A s \in Signal : pc[s] = "none"
    BY DEF Init, Actor, Label
  <2>2. order \in [1 .. 3 -> Uninit] /\ \A i, j \in 1 .. 3 : order[i] = order[j] => i = j
    BY DEF Init
  <2>3. stack \in Seq(Signal) /\ Len(stack) = 0
    BY DEF Init
  <2>4. /\ host \in [Signal -> {"none", "main", "other"}]
        /\ lock \in [Mutex -> Actor \union {None}]
        /\ walk \in [Actor -> 0 .. 3] /\ calls \in [Uninit -> Nat]
        /\ inits = 0 /\ inits \in 0 .. NInit /\ locals = 0 /\ locals \in 0 .. NLocal
        /\ \A s \in Signal : host[s] = "none"
    BY DEF Init
  <2>5. \A s \in Signal :
            (\E i \in 1 .. Len(stack) : stack[i] = s) <=> (host[s] = "main" /\ pc[s] # "done")
    <3>1. \A i \in 1 .. Len(stack) : FALSE
      BY <2>3
    <3>2. \A s \in Signal : host[s] # "main"
      BY <2>4
    <3>3. QED
      BY <3>1, <3>2, Zenon
  <2>6. /\ process = "up" /\ early = {}
        /\ initFlag = FALSE /\ uninitFlag = FALSE /\ signalFlag = FALSE /\ exitFlag = FALSE
        /\ expired = FALSE /\ interrupted = FALSE /\ ticking = FALSE /\ timed = FALSE
    BY DEF Init
  <2>7. TypeOK
    BY <2>1, <2>2, <2>3, <2>4, <2>5, <2>6 DEF TypeOK
  <2>8. QED
    BY <2>1, <2>2, <2>3, <2>4, <2>6, <2>7 DEF Shape, Actor, Pre, MainOnly, HandlerOnly, Admitted
<1>2. Order
  BY DEF Init, Order, Actor, Uninit, Pre, Admitted, Shutting
<1>3. Once
  <2>1. \A a \in Actor : pc[a] \in {"start", "none"}
    BY DEF Init
  <2>2. \A u \in Uninit : calls[u] = 0
    BY Zenon DEF Init
  <2>3. early = {}
    BY DEF Init
  <2>4. QED
    BY <2>1, <2>2, <2>3 DEF Once, Actor, Shutting
<1>4. QED
  BY <1>1, <1>2, <1>3 DEF Inv

(* main runs only while no handler has interrupted it.                     *)
LEMMA MainRuns ==
    ASSUME Shape, NEW label, At("main", label)
    PROVE  stack = <<>> /\ \A s \in Signal : host[s] = "main" => pc[s] = "done"
<1>1. Top = "main"
  BY DEF At
<1>2. stack = <<>>
  <2> SUFFICES ASSUME stack # <<>> PROVE FALSE
    OBVIOUS
  <2>1. stack \in Seq(Signal)
    BY DEF Shape, TypeOK
  <2>2. stack[Len(stack)] \in Signal
    BY <2>1
  <2>3. QED
    BY <1>1, <2>2, ProgramAssumption DEF Top
<1>3. Len(stack) = 0
  BY <1>2
<1>4. QED
  BY <1>2, <1>3 DEF Shape, TypeOK


(* Every step keeps the order. *)
LEMMA OrderStep ==
    ASSUME Inv, [Next]_vars
    PROVE  Order'
<1> USE ProgramAssumption DEF Actor, Admitted, HandlerOnly, Inv, MainOnly, Order, Pre, Shape,
                              Shutting, TypeOK, Uninit, flags, signalVars, walkVars, setupVars
<1>1. CASE InitLock
  BY <1>1 DEF InitLock, At, GoTo, Lock
<1>2. CASE InitTest
  BY <1>2 DEF InitTest, At, GoTo, Unlock
<1>3. CASE SetLock
  BY <1>3 DEF SetLock, At, GoTo, Lock
<1>4. CASE SetFlag
  BY <1>4 DEF SetFlag, At, GoTo, Unlock
<1>5. ASSUME NEW ok \in BOOLEAN, NEW sets \in BOOLEAN, InitCall(ok, sets) PROVE Order'
  BY <1>5 DEF InitCall, At, GoTo
<1>6. CASE WaitPanic
  BY <1>6 DEF WaitPanic, At
<1>7. CASE WaitInterrupted
  BY <1>7 DEF WaitInterrupted, At, GoTo
<1>8. CASE WaitReturn
  BY <1>8 DEF WaitReturn, At, GoTo
<1>9. CASE LoopExpired
  BY <1>9 DEF LoopExpired, At, GoTo, ExitWait
<1>10. CASE LoopExit
  BY <1>10 DEF LoopExit, At, GoTo
<1>11. CASE LoopAgain
  BY <1>11 DEF LoopAgain, At, GoTo
<1>12. CASE End
  BY <1>12 DEF End, At
<1>13. ASSUME NEW a \in Actor, UninitLock(a) PROVE Order'
  BY <1>13 DEF UninitLock, At, GoTo, Lock
<1>14. ASSUME NEW a \in Actor, UninitTest(a) PROVE Order'
  BY <1>14 DEF UninitTest, At, GoTo, Unlock
<1>15. ASSUME NEW a \in Actor, UninitSet(a) PROVE Order'
  BY <1>15 DEF UninitSet, At, GoTo
<1>16. ASSUME NEW a \in Actor, UninitExitWait(a) PROVE Order'
  BY <1>16 DEF UninitExitWait, At, GoTo, ExitWait
<1>17. ASSUME NEW a \in Actor, WalkLock(a) PROVE Order'
  BY <1>17 DEF WalkLock, At, GoTo, Lock
<1>18. ASSUME NEW a \in Actor, NEW ok \in BOOLEAN, WalkCall(a, ok) PROVE Order'
  BY <1>18 DEF WalkCall, At, GoTo, Unlock
<1>19. ASSUME NEW s \in Signal, HandleInitLock(s) PROVE Order'
  BY <1>19 DEF HandleInitLock, At, GoTo, Lock
<1>20. ASSUME NEW s \in Signal, HandleInitTest(s) PROVE Order'
  BY <1>20 DEF HandleInitTest, At, GoTo, Unlock
<1>21. ASSUME NEW s \in Signal, HandleSignalLock(s) PROVE Order'
  BY <1>21 DEF HandleSignalLock, At, GoTo, Lock
<1>22. ASSUME NEW s \in Signal, HandleSignal(s) PROVE Order'
  BY <1>22 DEF HandleSignal, At, GoTo, Unlock
<1>23. ASSUME NEW s \in Signal, HandleReturn(s) PROVE Order'
  BY <1>23 DEF HandleReturn, At, GoTo
<1>24. ASSUME NEW s \in Signal, DeliverMain(s) PROVE Order'
  BY <1>24 DEF DeliverMain, GoTo
<1>25. ASSUME NEW s \in Signal, DeliverOther(s) PROVE Order'
  BY <1>25 DEF DeliverOther, GoTo
<1>26. CASE Tick
  BY <1>26 DEF Tick
<1>27. CASE UNCHANGED vars
  BY <1>27 DEF vars
<1>28. ASSUME NEW ok \in BOOLEAN, LocalCall(ok) PROVE Order'
  BY <1>28 DEF LocalCall, At, GoTo
<1> HIDE DEF Inv, Shape, Order, TypeOK
<1>29. QED
  BY <1>1, <1>2, <1>3, <1>4, <1>5, <1>6, <1>7, <1>8, <1>9, <1>10, <1>11, <1>12, <1>13,
     <1>14, <1>15, <1>16, <1>17, <1>18, <1>19, <1>20, <1>21, <1>22, <1>23, <1>24,
     <1>25, <1>26, <1>27, <1>28
     DEF Next, MainStep, UninitStep, HandleStep


(* Every step keeps the shape. *)
LEMMA ShapeStep ==
    ASSUME Inv, [Next]_vars
    PROVE  Shape'
<1> USE ProgramAssumption DEF Actor, Admitted, HandlerOnly, Inv, MainOnly, Pre, Shape, TypeOK,
                              setupVars
<1>1. CASE InitLock
  BY <1>1
  DEF InitLock, At, GoTo, Lock, Uninit, Mutex, Shutting, signalVars, walkVars, flags, Label
<1>2. CASE InitTest
  BY <1>2
  DEF InitTest, At, GoTo, Unlock, Uninit, Mutex, Shutting, signalVars, walkVars, flags, Label
<1>3. CASE SetLock
  BY <1>3 DEF SetLock, At, GoTo, Lock, Uninit, Mutex, Shutting, signalVars, walkVars, flags, Label
<1>4. CASE SetFlag
  BY <1>4 DEF SetFlag, At, GoTo, Unlock, Uninit, Mutex, Shutting, signalVars, walkVars, Label
<1>5. ASSUME NEW ok \in BOOLEAN, NEW sets \in BOOLEAN, InitCall(ok, sets) PROVE Shape'
  BY <1>5 DEF InitCall, At, GoTo, Uninit, Mutex, Shutting, signalVars, flags, Label
<1>6. CASE WaitPanic
  BY <1>6 DEF WaitPanic, At, Uninit, Mutex, Shutting, signalVars, walkVars, flags, Label
<1>7. CASE WaitInterrupted
  BY <1>7
  DEF WaitInterrupted, At, GoTo, Uninit, Mutex, Shutting, signalVars, walkVars, flags, Label
<1>8. CASE WaitReturn
  BY <1>8 DEF WaitReturn, At, GoTo, Uninit, Mutex, Shutting, signalVars, walkVars, flags, Label
<1>9. CASE LoopExpired
  <2>1. CASE calls["thread"] > 0
    BY <1>9, <2>1
    DEF LoopExpired, ExitWait, At, Uninit, Mutex, Shutting, signalVars, walkVars, Label
  <2>2. CASE ~(calls["thread"] > 0)
    BY <1>9, <2>2
    DEF LoopExpired, ExitWait, At, GoTo, Uninit, Mutex, Shutting, signalVars, walkVars, Label
  <2>3. QED
    BY <2>1, <2>2
<1>10. CASE LoopExit
  BY <1>10 DEF LoopExit, At, GoTo, Uninit, Mutex, Shutting, signalVars, walkVars, flags, Label
<1>11. CASE LoopAgain
  BY <1>11 DEF LoopAgain, At, GoTo, Uninit, Mutex, Shutting, signalVars, walkVars, flags, Label
<1>12. CASE End
  BY <1>12 DEF End, At, Uninit, Mutex, Shutting, signalVars, walkVars, flags, Label
<1>13. ASSUME NEW a \in Actor, UninitLock(a) PROVE Shape'
  BY <1>13
  DEF UninitLock, At, GoTo, Lock, Uninit, Mutex, Shutting, signalVars, walkVars, flags, Label
<1>14. ASSUME NEW a \in Actor, UninitTest(a) PROVE Shape'
  BY <1>14
  DEF UninitTest, At, GoTo, Unlock, Uninit, Mutex, Shutting, signalVars, walkVars, flags, Label
<1>15. ASSUME NEW a \in Actor, UninitSet(a) PROVE Shape'
  BY <1>15 DEF UninitSet, At, GoTo, Uninit, Mutex, Shutting, signalVars, walkVars, Label
<1>16. ASSUME NEW a \in Actor, UninitExitWait(a) PROVE Shape'
  <2>1. CASE calls["thread"] > 0
    BY <1>16, <2>1
    DEF UninitExitWait, ExitWait, At, Uninit, Mutex, Shutting, signalVars, walkVars, Label
  <2>2. CASE ~(calls["thread"] > 0)
    BY <1>16, <2>2
    DEF UninitExitWait, ExitWait, At, GoTo, Uninit, Mutex, Shutting, signalVars, walkVars, Label
  <2>3. QED
    BY <2>1, <2>2
<1>17. ASSUME NEW a \in Actor, WalkLock(a) PROVE Shape'
  BY <1>17 DEF WalkLock, At, GoTo, Lock, Uninit, Mutex, Shutting, signalVars, flags, Label
<1>18. ASSUME NEW a \in Actor, NEW ok \in BOOLEAN, WalkCall(a, ok) PROVE Shape'
  <2> DEFINE u == order[walk[a]]
  <2>1. walk[a] \in 1 .. 3 /\ u \in Uninit
    BY <1>18 DEF WalkCall, At, Inv, Shape, TypeOK
  <2>2. calls' \in [Uninit -> Nat] /\ signalFlag' \in BOOLEAN
    BY <1>18, <2>1 DEF WalkCall, Inv, Shape, TypeOK
  <2>3. \/ pc' = pc /\ lock' = lock /\ walk' = [walk EXCEPT ![a] = walk[a] + 1] /\ walk[a] < 3
        \/ /\ pc' = [pc EXCEPT ![a] = "out"] /\ walk' = walk
           /\ lock' = [lock EXCEPT !["uninit"] = None]
    BY <1>18 DEF WalkCall, GoTo, Unlock
  <2>4. /\ walk' \in [Actor -> 0 .. 3] /\ lock' \in [Mutex -> Actor \union {None}]
        /\ pc' \in [Actor -> Label]
        /\ \A b \in Actor : pc'[b] = pc[b] \/ (b = a /\ pc'[b] = "out")
    <3>1. /\ walk \in [Actor -> 0 .. 3] /\ lock \in [Mutex -> Actor \union {None}]
          /\ pc \in [Actor -> Label]
      BY DEF Inv, Shape, TypeOK
    <3> HIDE DEF Inv, Shape, Order, TypeOK
    <3>2. walk' \in [Actor -> 0 .. 3]
      BY <2>1, <2>3, <3>1
    <3>3. lock' \in [Mutex -> Actor \union {None}]
      BY <2>3, <3>1
    <3>4. "out" \in Label
      BY DEF Label
    <3>5. pc' \in [Actor -> Label] /\ \A b \in Actor : pc'[b] = pc[b] \/ (b = a /\ pc'[b] = "out")
      BY <2>3, <3>1, <3>4
    <3>6. QED
      BY <3>2, <3>3, <3>5
  <2>5. \A b \in Actor : pc'[b] = "walk" => walk'[b] >= 1
    BY <2>1, <2>3, <2>4 DEF Inv, Shape, TypeOK
  <2>6. /\ order' = order /\ process' = process /\ host' = host /\ stack' = stack
        /\ inits' = inits /\ locals' = locals /\ ticking' = ticking /\ timed' = timed
        /\ early' = early /\ interrupted' = interrupted /\ expired' = expired
        /\ initFlag' = initFlag /\ uninitFlag' = uninitFlag /\ exitFlag' = exitFlag
        /\ pc[a] = "walk"
    BY <1>18 DEF WalkCall, signalVars, At
  <2>7. TypeOK'
    <3>1. TypeOK
      OBVIOUS
    <3>2. order' \in [1 .. 3 -> Uninit] /\ stack' \in Seq(Signal) /\ early' \subseteq Signal
      BY <2>6
    <3>3. \A t \in Signal : pc'[t] = "done" <=> pc[t] = "done"
      BY <1>18, <2>4, <2>6 DEF WalkCall
    <3>4. \A t \in Signal : (\E i \in 1 .. Len(stack') : stack'[i] = t)
                               <=> (host'[t] = "main" /\ pc'[t] # "done")
      BY <2>6, <3>3
    <3> HIDE DEF Inv, Shape, Order
    <3>5. QED
      BY <2>2, <2>4, <2>6, <3>1, <3>2, <3>4
  <2>8. QED
    BY <2>4, <2>5, <2>6, <2>7
<1>19. ASSUME NEW s \in Signal, HandleInitLock(s) PROVE Shape'
  BY <1>19
  DEF HandleInitLock, At, GoTo, Lock, Uninit, Mutex, Shutting, signalVars, walkVars, flags, Label
<1>20. ASSUME NEW s \in Signal, HandleInitTest(s) PROVE Shape'
  BY <1>20 DEF HandleInitTest, At, GoTo, Unlock, Uninit, Mutex, Shutting, walkVars, flags, Label
<1>21. ASSUME NEW s \in Signal, HandleSignalLock(s) PROVE Shape'
  BY <1>21
  DEF HandleSignalLock, At, GoTo, Lock, Uninit, Mutex, Shutting, signalVars, walkVars, flags,
      Label
<1>22. ASSUME NEW s \in Signal, HandleSignal(s) PROVE Shape'
  BY <1>22
  DEF HandleSignal, At, GoTo, Unlock, Uninit, Mutex, Shutting, signalVars, walkVars, Label
<1>23. ASSUME NEW s \in Signal, HandleReturn(s) PROVE Shape'
  <2>1. CASE host[s] = "main"
    <3>1. stack # <<>> /\ stack[Len(stack)] = s
      BY <1>23, <2>1, ProgramAssumption DEF HandleReturn, At, Top
    <3>2. stack \in Seq(Signal) /\ Len(stack) \in Nat \ {0}
      BY <3>1 DEF Inv, Shape, TypeOK
    <3>3. /\ stack' \in Seq(Signal) /\ Len(stack') = Len(stack) - 1
          /\ \A i \in 1 .. Len(stack) - 1 : stack'[i] = stack[i]
      <4>1. stack' = SubSeq(stack, 1, Len(stack) - 1)
        BY <1>23, <2>1 DEF HandleReturn
      <4>2. \A i \in 1 .. Len(stack) - 1 : stack[i] \in Signal
        BY <3>2
      <4>3. /\ SubSeq(stack, 1, Len(stack) - 1) \in Seq(Signal)
            /\ Len(SubSeq(stack, 1, Len(stack) - 1)) =
                   IF 1 <= Len(stack) - 1 THEN Len(stack) - 1 - 1 + 1 ELSE 0
            /\ \A i \in 1 .. Len(stack) - 1 - 1 + 1 :
                   SubSeq(stack, 1, Len(stack) - 1)[i] = stack[1 + i - 1]
        BY <3>2, <4>2, SubSeqProperties
      <4> DEFINE n == Len(stack)
      <4>4. stack' \in Seq(Signal) /\ Len(stack') = n - 1
        <5>1. n \in Nat /\ n >= 1
          BY <3>2
        <5>2. CASE n >= 2
          BY <4>1, <4>3, <5>1, <5>2
        <5>3. CASE n = 1
          BY <4>1, <4>3, <5>1, <5>3
        <5>4. n = 1 \/ n >= 2
          <6> HIDE DEF n
          <6>1. QED
            BY <5>1
        <5>5. QED
          BY <5>2, <5>3, <5>4, Zenon
      <4>5. ASSUME NEW i \in 1 .. n - 1 PROVE stack'[i] = stack[i]
        <5>1. n \in Nat /\ i \in 1 .. n - 1 - 1 + 1 /\ 1 + i - 1 = i
          BY <3>2
        <5>2. SubSeq(stack, 1, n - 1)[i] = stack[1 + i - 1]
          BY <4>3, <5>1, Zenon
        <5>3. stack[1 + i - 1] = stack[i]
          BY <5>1, Zenon
        <5>4. QED
          BY <4>1, <5>2, <5>3, Zenon
      <4>6. QED
        BY <4>4, <4>5
    <3>4. pc' = [pc EXCEPT ![s] = "done"] /\ host' = host
      BY <1>23 DEF HandleReturn, GoTo
    <3>5. ASSUME NEW t \in Signal
          PROVE  (\E i \in 1 .. Len(stack') : stack'[i] = t)
                    <=> (host'[t] = "main" /\ pc'[t] # "done")
      <4>1. CASE t = s
        BY <2>1, <3>1, <3>2, <3>3, <3>4, <4>1 DEF Inv, Shape, TypeOK, Actor
      <4>2. CASE t # s
        <5> HIDE DEF Inv, Shape, Order, TypeOK
        <5>1. (\E i \in 1 .. Len(stack') : stack'[i] = t)
                 <=> (\E i \in 1 .. Len(stack) : stack[i] = t)
          BY <3>1, <3>2, <3>3, <4>2
        <5>2. pc'[t] = pc[t]
          BY <3>4, <4>2 DEF Inv, Shape, TypeOK, Actor
        <5>3. QED
          BY <3>4, <5>1, <5>2 DEF Inv, Shape, TypeOK
      <4>3. QED
        BY <4>1, <4>2
    <3>6. \A i, j \in 1 .. Len(stack') : stack'[i] = stack'[j] => i = j
      BY <3>2, <3>3 DEF Inv, Shape
    <3>7. QED
      BY <1>23, <3>3, <3>4, <3>5, <3>6
      DEF HandleReturn, At, Uninit, Mutex, Shutting, walkVars, flags, Label
  <2>2. CASE host[s] # "main"
    BY <1>23, <2>2 DEF HandleReturn, At, GoTo, Uninit, Mutex, Shutting, walkVars, flags, Label
  <2>3. QED
    BY <2>1, <2>2
<1>24. ASSUME NEW s \in Signal, DeliverMain(s) PROVE Shape'
  <2> DEFINE n == Len(stack)
  <2>1. /\ stack \in Seq(Signal) /\ n \in Nat
        /\ host[s] = "none" /\ pc[s] = "none"
        /\ stack' = Append(stack, s)
        /\ pc' = [pc EXCEPT ![s] = "initTest"] /\ host' = [host EXCEPT ![s] = "main"]
    BY <1>24 DEF DeliverMain, GoTo
  <2>2. /\ stack' \in Seq(Signal) /\ Len(stack') = n + 1 /\ stack'[n + 1] = s
        /\ \A i \in 1 .. n : stack'[i] = stack[i]
    BY <2>1
  <2>3. \A i \in 1 .. n : stack[i] # s
    BY <2>1
  <2>4. \A i, j \in 1 .. Len(stack') : stack'[i] = stack'[j] => i = j
    <3>1. ASSUME NEW i \in 1 .. n + 1, NEW j \in 1 .. n + 1, stack'[i] = stack'[j]
          PROVE  i = j
      <4>1. (i \in 1 .. n \/ i = n + 1) /\ (j \in 1 .. n \/ j = n + 1)
        BY <2>1
      <4>2. \A k, m \in 1 .. n : stack[k] = stack[m] => k = m
        OBVIOUS
      <4> HIDE DEF n, Inv, Shape
      <4> QED
        BY <2>2, <2>3, <3>1, <4>1, <4>2
    <3> QED
      BY <2>2, <3>1
  <2>5. ASSUME NEW t \in Signal
        PROVE  (\E i \in 1 .. Len(stack') : stack'[i] = t)
                  <=> (host'[t] = "main" /\ pc'[t] # "done")
    <3>1. (\E i \in 1 .. n + 1 : stack'[i] = t) <=> (t = s \/ \E i \in 1 .. n : stack[i] = t)
      <4> HIDE DEF Inv, Shape
      <4> QED
        BY <2>1, <2>2
    <3>2. (\E i \in 1 .. n : stack[i] = t) <=> (host[t] = "main" /\ pc[t] # "done")
      OBVIOUS
    <3>3. /\ t = s => host'[t] = "main" /\ pc'[t] = "initTest"
          /\ t # s => host'[t] = host[t] /\ pc'[t] = pc[t]
      BY <2>1
    <3> HIDE DEF Inv, Shape, n
    <3> QED
      BY <2>1, <2>2, <3>1, <3>2, <3>3
  <2> HIDE DEF n
  <2> QED
    BY <1>24, <2>1, <2>2, <2>4, <2>5
    DEF DeliverMain, Uninit, Mutex, Shutting, walkVars, flags, Label
<1>25. ASSUME NEW s \in Signal, DeliverOther(s) PROVE Shape'
  BY <1>25 DEF DeliverOther, GoTo, Uninit, Mutex, Shutting, walkVars, flags, Label
<1>26. CASE Tick
  BY <1>26 DEF Tick, Uninit, Mutex, Shutting, signalVars, walkVars, flags, Label
<1>27. CASE UNCHANGED vars
  BY <1>27 DEF vars, flags, signalVars, walkVars, Uninit, Mutex, Shutting, Label
<1>28. ASSUME NEW ok \in BOOLEAN, LocalCall(ok) PROVE Shape'
  BY <1>28 DEF LocalCall, At, GoTo, Uninit, Mutex, Shutting, signalVars, flags, Label
<1> HIDE DEF Inv, Shape, Order, TypeOK
<1>29. QED
  BY <1>1, <1>2, <1>3, <1>4, <1>5, <1>6, <1>7, <1>8, <1>9, <1>10, <1>11, <1>12, <1>13,
     <1>14, <1>15, <1>16, <1>17, <1>18, <1>19, <1>20, <1>21, <1>22, <1>23, <1>24,
     <1>25, <1>26, <1>27, <1>28
     DEF Next, MainStep, UninitStep, HandleStep

(* In a regular life every step keeps one actor at most in the shutdown. *)
LEMMA OnceStep ==
    ASSUME Inv, Regular', [Next]_vars
    PROVE  Once'
<1> USE ProgramAssumption DEF Actor, Admitted, HandlerOnly, Inv, MainOnly, Once, Order, Pre,
                              Regular, Shape, Shutting, TypeOK, Uninit, flags, signalVars,
                              walkVars, setupVars
<1>1. CASE InitLock
  BY <1>1 DEF InitLock, At, GoTo, Lock
<1>2. CASE InitTest
  BY <1>2 DEF InitTest, At, GoTo, Unlock
<1>3. CASE SetLock
  BY <1>3 DEF SetLock, At, GoTo, Lock
<1>4. CASE SetFlag
  <2>1. \A s \in early : pc[s] = "done"
    BY <1>4, MainRuns DEF SetFlag
  <2>2. QED
    BY <1>4, <2>1 DEF SetFlag, At, GoTo, Unlock
<1>5. ASSUME NEW ok \in BOOLEAN, NEW sets \in BOOLEAN, InitCall(ok, sets) PROVE Once'
  BY <1>5 DEF InitCall, At, GoTo
<1>6. CASE WaitPanic
  BY <1>6 DEF WaitPanic, At
<1>7. CASE WaitInterrupted
  BY <1>7 DEF WaitInterrupted, At, GoTo
<1>8. CASE WaitReturn
  BY <1>8 DEF WaitReturn, At, GoTo
<1>9. CASE LoopExpired
  BY <1>9 DEF LoopExpired, At, GoTo, ExitWait
<1>10. CASE LoopExit
  BY <1>10 DEF LoopExit, At, GoTo
<1>11. CASE LoopAgain
  BY <1>11 DEF LoopAgain, At, GoTo
<1>12. CASE End
  BY <1>12 DEF End, At
<1>13. ASSUME NEW a \in Actor, UninitLock(a) PROVE Once'
  BY <1>13 DEF UninitLock, At, GoTo, Lock
<1>14. ASSUME NEW a \in Actor, UninitTest(a) PROVE Once'
  BY <1>14 DEF UninitTest, At, GoTo, Unlock
<1>15. ASSUME NEW a \in Actor, UninitSet(a) PROVE Once'
  BY <1>15 DEF UninitSet, At, GoTo
<1>16. ASSUME NEW a \in Actor, UninitExitWait(a) PROVE Once'
  <2>1. CASE calls["thread"] > 0
    BY <1>16, <2>1 DEF UninitExitWait, At, ExitWait
  <2>2. CASE ~(calls["thread"] > 0)
    BY <1>16, <2>2 DEF UninitExitWait, At, GoTo, ExitWait
  <2>3. QED
    BY <2>1, <2>2
<1>17. ASSUME NEW a \in Actor, WalkLock(a) PROVE Once'
  BY <1>17 DEF WalkLock, At, GoTo, Lock
<1>18. ASSUME NEW a \in Actor, NEW ok \in BOOLEAN, WalkCall(a, ok) PROVE Once'
  <2> DEFINE u == order[walk[a]]
  <2>1. walk[a] \in 1 .. 3 /\ u \in Uninit /\ pc[a] = "walk"
    BY <1>18 DEF WalkCall, At, Inv, Shape, TypeOK
  <2>2. calls' = [calls EXCEPT ![u] = @ + 1] /\ calls[u] = 0
    <3>1. Regular
      BY <1>18 DEF WalkCall, signalVars, Regular
    <3>2. walk[a] \in walk[a] .. 3
      BY <2>1
    <3>3. QED
      BY <1>18, <2>1, <3>1, <3>2 DEF WalkCall, Inv, Once
  <2>3. \A b \in Actor : pc[b] \in Shutting => b = a
    BY <1>18, <2>1 DEF WalkCall
  <2>4. uninitFlag
    BY <1>18, <2>1 DEF WalkCall
  <2>5. \A j \in walk[a] + 1 .. 3 : order[j] \in Uninit /\ order[j] # u
    BY <2>1 DEF Inv, Shape, TypeOK
  <2>6. \A v \in Uninit : calls'[v] = IF v = u THEN 1 ELSE calls[v]
    BY <2>1, <2>2 DEF Inv, Shape, TypeOK
  <2>7. \A v \in Uninit : calls'[v] <= 1
    BY <1>18, <2>6 DEF WalkCall
  <2>8. \A b \in Actor : pc'[b] \in Shutting => b = a /\ pc'[a] = "walk"
    BY <1>18, <2>1, <2>3 DEF WalkCall, At, GoTo
  <2>9. pc'[a] = "walk" => walk'[a] = walk[a] + 1
    BY <1>18, <2>1 DEF WalkCall, At, GoTo
  <2>10. pc'[a] = "walk" => \A j \in walk'[a] .. 3 : calls'[order[j]] = 0
    BY <1>18, <2>1, <2>5, <2>6, <2>9 DEF WalkCall
  <2>11. QED
    BY <1>18, <2>1, <2>3, <2>4, <2>7, <2>8, <2>10 DEF WalkCall, GoTo
<1>19. ASSUME NEW s \in Signal, HandleInitLock(s) PROVE Once'
  BY <1>19 DEF HandleInitLock, At, GoTo, Lock
<1>20. ASSUME NEW s \in Signal, HandleInitTest(s) PROVE Once'
  BY <1>20 DEF HandleInitTest, At, GoTo, Unlock
<1>21. ASSUME NEW s \in Signal, HandleSignalLock(s) PROVE Once'
  BY <1>21 DEF HandleSignalLock, At, GoTo, Lock
<1>22. ASSUME NEW s \in Signal, HandleSignal(s) PROVE Once'
  BY <1>22 DEF HandleSignal, At, GoTo, Unlock
<1>23. ASSUME NEW s \in Signal, HandleReturn(s) PROVE Once'
  BY <1>23 DEF HandleReturn, At, GoTo
<1>24. ASSUME NEW s \in Signal, DeliverMain(s) PROVE Once'
  BY <1>24 DEF DeliverMain, GoTo
<1>25. ASSUME NEW s \in Signal, DeliverOther(s) PROVE Once'
  BY <1>25 DEF DeliverOther, GoTo
<1>26. CASE Tick
  BY <1>26 DEF Tick
<1>27. CASE UNCHANGED vars
  BY <1>27 DEF vars
<1>28. ASSUME NEW ok \in BOOLEAN, LocalCall(ok) PROVE Once'
  BY <1>28 DEF LocalCall, At, GoTo
<1> HIDE DEF Inv, Shape, Order, TypeOK
<1>29. QED
  BY <1>1, <1>2, <1>3, <1>4, <1>5, <1>6, <1>7, <1>8, <1>9, <1>10, <1>11, <1>12, <1>13,
     <1>14, <1>15, <1>16, <1>17, <1>18, <1>19, <1>20, <1>21, <1>22, <1>23, <1>24,
     <1>25, <1>26, <1>27, <1>28
     DEF Next, MainStep, UninitStep, HandleStep

-----------------------------------------------------------------------------
(* The shape, the order and, in a regular life, the single shutdown hold   *)
(* of every state: the invariant the theorems below follow from.           *)
THEOREM Invariance == Spec => []Inv
<1>1. Inv /\ [Next]_vars => Inv'
  <2> SUFFICES ASSUME Inv, [Next]_vars PROVE Inv'
    OBVIOUS
  <2>1. Shape' /\ Order'
    BY ShapeStep, OrderStep
  <2>2. Regular' => Once'
    BY OnceStep
  <2>3. QED
    BY <2>1, <2>2 DEF Inv
<1>2. QED
  BY InitInv, <1>1, PTL DEF Spec

(* Every variable keeps its type, the handlers on the stack are the ones   *)
(* that run on main (tc_signal.c, tc_client.c).                            *)
THEOREM TypeCorrect == Spec => []TypeOK
<1>1. Inv => TypeOK
  BY DEF Inv, Shape
<1>2. QED
  BY Invariance, <1>1, PTL

(* Unless a signal came before the init functions had ended, the uninit    *)
(* functions (tc_init_module.c) run on main, after the init functions, the *)
(* loop and the exit flag.                                                 *)
THEOREM OrderCorrect == Spec => []OrderlyEnd
<1>1. Inv => OrderlyEnd
  BY DEF Inv, Order, OrderlyEnd, Pre
<1>2. QED
  BY Invariance, <1>1, PTL

(* No uninit function is called twice unless a thread of a pool ran a      *)
(* handler that was admitted, although the flag that guards them is tested *)
(* under the lock and set outside it (tc_init_module.c).                   *)
THEOREM OnceCorrect == Spec => []UninitOnce
<1>1. Inv => UninitOnce
  BY DEF Inv, Once, UninitOnce, Regular, Shape, TypeOK
<1>2. QED
  BY Invariance, <1>1, PTL
============================================================================

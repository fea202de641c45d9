------------------------- MODULE TcHeapTimerProofs -------------------------
(* What holds of the heap timers for any number of timers: the type        *)
(* invariant, that a timer waits in one place, that the heap's keys stay   *)
(* put, and that no timer is early, dropped or late.                       *)
EXTENDS TcHeapTimer, FiniteSetTheorems, TLAPS

HP == INSTANCE TcHeapProofs WITH
          Item <- Timer, Rank <- Int, NoItem <- NoTimer, key <- tick

-----------------------------------------------------------------------------
(* What the timers know of their heap.                                     *)

(* The timers satisfy what the heap assumes of its items.                  *)
LEMMA Fits ==
    /\ HP!IsFiniteSet(Timer)
    /\ Int \subseteq Int
    /\ NoTimer \notin Timer
    /\ MaxNode \in Nat \ {0}
BY TimerAssumption DEF HP!IsFiniteSet, IsFiniteSet

(* Its structure, and the order of what is in it.                          *)
HeapOK == HP!HeapSound
HeapSorted == HP!Ordered

(* The heap begins in order.                                               *)
LEMMA HeapInit ==
    ASSUME Heap!Create, tick \in [Timer -> Int]
    PROVE  HeapOK /\ HeapSorted
<1>1. HP!Create
  BY DEF Heap!Create, HP!Create, Heap!Root, HP!Root, Heap!Null, HP!Null,
         Heap!NodeId, HP!NodeId
<1> QED
  BY <1>1, Fits, HP!CreateInv DEF HeapOK, HeapSorted, HP!HeapInv

(* Adding a timer keeps the heap in order, and one that is due later than  *)
(* the top leaves it there.                                                *)
LEMMA HeapAdd ==
    ASSUME HeapOK, NEW t \in Timer, Heap!Add(t), UNCHANGED tick
    PROVE  /\ HeapOK' /\ (HeapSorted => HeapSorted')
           /\ t \notin inside /\ inside' = inside \cup {t}
           /\ regrown => regrown'
           /\ Top # NoTimer /\ tick[t] > tick[Top] => Top' = Top
<1>1. HP!Add(t)
  BY DEF Heap!Add, HP!Add, Heap!Reuse, HP!Reuse, Heap!Grow, HP!Grow, Heap!SiftUp, HP!SiftUp,
         Heap!Swapped, HP!Swapped, Heap!Reached, HP!Reached, Heap!After, HP!After,
         Heap!Chained, HP!Chained, Heap!NewChildren, HP!NewChildren, Heap!tree, HP!tree,
         Heap!Root, HP!Root, Heap!Null, HP!Null, Heap!NodeId, HP!NodeId
<1>2. HeapOK' /\ (HeapSorted => HeapSorted')
  BY <1>1, Fits, HP!AddKeeps DEF HeapOK, HeapSorted
<1>3. Top # NoTimer /\ tick[t] > tick[Top] => Top' = Top
  BY <1>1, Fits, HP!RootStays DEF HeapOK, Top, HP!After, HP!Root, Heap!Root
<1>4. t \notin inside /\ inside' = inside \cup {t}
  BY DEF Heap!Add
<1>5. regrown => regrown'
  <2>1. CASE Heap!Reuse(t)
    BY <2>1 DEF Heap!Reuse
  <2>2. CASE Heap!Grow(t)
    BY <2>2, Zenon DEF Heap!Grow
  <2> QED
    BY <2>1, <2>2 DEF Heap!Add
<1> QED
  BY <1>2, <1>3, <1>4, <1>5

(* Taking from the heap keeps it in order and takes its top.               *)
LEMMA HeapGet ==
    ASSUME HeapOK, Heap!Get, UNCHANGED tick
    PROVE  /\ HeapOK' /\ (HeapSorted => HeapSorted')
           /\ inside' = inside \ {Top} /\ regrown' = regrown
<1>1. HP!Get
  BY DEF Heap!Get, HP!Get, Heap!SiftDown, HP!SiftDown, Heap!Child, HP!Child, Heap!Full, HP!Full,
         Heap!Swapped, HP!Swapped, Heap!Reached, HP!Reached, Heap!After, HP!After,
         Heap!StepBack, HP!StepBack, Heap!MoveLastToRoot, HP!MoveLastToRoot,
         Heap!Requeued, HP!Requeued, Heap!Delete, HP!Delete, Heap!Elements, HP!Elements,
         Heap!tree, HP!tree, Heap!Root, HP!Root, Heap!Null, HP!Null, Heap!NodeId, HP!NodeId
<1>2. HeapOK' /\ (HeapSorted => HeapSorted')
  BY <1>1, Fits, HP!GetKeeps DEF HeapOK, HeapSorted
<1> QED
  BY <1>2 DEF Heap!Get, Top

(* The threads may write ticks; if they leave the order in the heap, it    *)
(* stays in order.                                                         *)
LEMMA HeapTicks ==
    ASSUME HeapOK, UNCHANGED heapVars, tick' \in [Timer -> Int]
    PROVE  /\ HeapOK'
           /\ HeapSorted /\ (\A t, u \in inside : tick[t] <= tick[u] => tick'[t] <= tick'[u])
                => HeapSorted'
BY Fits, HP!KeysMayChange DEF HeapOK, HeapSorted, heapVars, HP!heapVars, HP!tree

(* The top of the heap is a timer that is in it, and while it is in order  *)
(* one that is due first.                                                  *)
LEMMA HeapTop ==
    ASSUME HeapOK
    PROVE  /\ inside \subseteq Timer
           /\ inside = {} => Top = NoTimer
           /\ inside # {} => Top \in inside
           /\ HeapSorted /\ ~regrown => \A t \in inside : tick[Top] <= tick[t]
           /\ regrown => Cardinality(Timer) > 3
<1>1. /\ inside = {} => Top = NoTimer
      /\ inside # {} => Top \in inside
      /\ HeapSorted /\ ~regrown => \A t \in inside : tick[Top] <= tick[t]
  BY Fits, HP!RootHolds DEF HeapOK, HeapSorted, Top, HP!RootIsLeast, HP!Root, Heap!Root
<1>2. inside \subseteq Timer
  BY DEF HeapOK, HP!HeapSound, HP!TypeOK
<1>3. regrown => Cardinality(Timer) > 3
  BY DEF HeapOK, HP!HeapSound, HP!Bounded, HP!Cardinality, Cardinality
<1> QED
  BY <1>1, <1>2, <1>3

-----------------------------------------------------------------------------
(* Where a timer waits.                                                    *)

(* The check thread has a timer to look at, and one in the heap to take.   *)
Handy ==
    /\ check \in {"clock", "look", "peek", "take"} => cur \in Timer
    /\ check = "take" => cur \in inside

(* Only timers that wait are in the heap or looked at by the check thread, *)
(* and only those are marked that a handler has or had.                    *)
Kept ==
    /\ \A t \in inside : phase[t] = "waiting"
    /\ \A t \in Timer : status[t] => phase[t] \in {"queued", "running", "freed"}

Waits ==
    /\ TypeOK /\ HeapOK /\ Handy
    /\ ~dropped => HeapSorted /\ Kept /\ WaitsOnce

(* A timer's tick and the seconds it has still to wait, when the work of a *)
(* second is done within it.                                               *)
Paced ==
    prompt =>
        /\ now = 0
        /\ \A t \in Timer :
            /\ phase[t] = "unborn" => rest[t] = Sec[t]
            /\ phase[t] \in {"born", "rearmed"} => tick[t] = Sec[t] /\ rest[t] = Sec[t]
            /\ phase[t] \in {"queued", "running"} => tick[t] = 0 /\ rest[t] = Sec[t]
            /\ phase[t] = "waiting" => rest[t] = 0 \/ rest[t] <= tick[t]

(* Then the check thread looks at timers of one tick, and takes the next   *)
(* only when it is due: nothing that comes later passes that one on its    *)
(* way to the top.                                                         *)
Aimed ==
    prompt =>
        /\ ~dropped
        /\ check \in {"clock", "look", "take"} => tick[cur] = minTick
        /\ check \in {"peek", "take"} => minTick <= 0
        /\ check = "take" => cur = Top

NoneDue == \A t \in Timer : phase[t] = "waiting" => tick[t] >= 1

(* When the heap is in order too, a check begins with a timer that is due  *)
(* first and ends when none is due.                                        *)
InTime ==
    /\ \A t \in Timer : ~Overdue(t)
    /\ minTick >= 0
    /\ check \in {"clock", "look"} /\ minTick >= 1 => NoneDue
    /\ check = "out" => NoneDue
    /\ check = "idle" /\ posted = 0 /\ counter = "asleep" => NoneDue

Punctual == prompt /\ ~regrown => InTime

(* Nothing that happens outside the heap puts it out of order.             *)
LEMMA HeapSame ==
    ASSUME TypeOK, HeapOK, UNCHANGED <<tick, heapVars>>
    PROVE  HeapOK' /\ (HeapSorted => HeapSorted')
<1>1. tick' \in [Timer -> Int]
  BY DEF TypeOK
<1>2. \A t, u \in inside : tick[t] <= tick[u] => tick'[t] <= tick'[u]
  OBVIOUS
<1>3. UNCHANGED heapVars
  OBVIOUS
<1> QED
  BY <1>1, <1>2, <1>3, HeapTicks

(* Every timer waits for a second at least.                                *)
LEMMA SecPositive == Sec \in [Timer -> Nat] /\ \A t \in Timer : Sec[t] >= 1 /\ Sec[t] \in Int
BY TimerAssumption

(* At the start no timer waits.                                            *)
LEMMA InitWaits == Init => Waits
<1> SUFFICES ASSUME Init PROVE Waits
  OBVIOUS
<1>1. TypeOK
  <2>1. once \in [Timer -> BOOLEAN] /\ status \in [Timer -> BOOLEAN] /\ tick \in [Timer -> Int]
    BY DEF Init
  <2>2. phase \in [Timer -> {"unborn", "born", "waiting", "queued", "running", "rearmed", "freed"}]
    BY DEF Init
  <2>3. rest \in [Timer -> Nat]
    BY SecPositive DEF Init
  <2>4. posted = 0 /\ checking = FALSE /\ check = "idle"
    BY DEF Init
  <2>5. posted + (IF check = "idle" THEN 0 ELSE 1) = (IF checking THEN 1 ELSE 0)
    BY <2>4
  <2>6. /\ counter \in {"asleep", "post"} /\ posted \in Nat /\ checking \in BOOLEAN
        /\ cur \in Timer \cup {NoTimer} /\ minTick \in Int /\ now \in Int
        /\ check \in {"idle", "get", "clock", "look", "peek", "take", "out"}
        /\ dropped \in BOOLEAN
    <3>1. counter = "asleep" /\ cur = NoTimer /\ minTick = 0 /\ now = 0
      BY DEF Init
    <3>2. checking \in BOOLEAN /\ dropped \in BOOLEAN
      BY <2>4 DEF Init
    <3> QED
      BY <2>4, <3>1, <3>2
  <2> QED
    BY <2>1, <2>2, <2>3, <2>5, <2>6, Zenon DEF TypeOK
<1>2. HeapOK /\ HeapSorted
  BY <1>1, HeapInit DEF Init, TypeOK
<1>3. inside = {}
  BY DEF Init, Heap!Create
<1> QED
  BY <1>1, <1>2, <1>3 DEF Waits, Handy, Kept, WaitsOnce, InHand, Init

(* The tick of a timer that is not yet in the heap may be set.             *)
LEMMA CreateTickWaits == ASSUME Waits, NEW t \in Timer, CreateTick(t) PROVE Waits'
<1>1. TypeOK'
  <2>1. tick' \in [Timer -> Int]
    BY SecPositive DEF CreateTick, Waits, TypeOK
  <2> QED
    BY <2>1 DEF CreateTick, Waits, TypeOK, countVars, checkVars
<1>2. HeapOK' /\ (~dropped => HeapSorted')
  <2>1. inside \subseteq Timer /\ (~dropped => t \notin inside)
    BY HeapTop DEF Waits, Kept, CreateTick
  <2>2. ~dropped => \A u, v \in inside : tick[u] <= tick[v] => tick'[u] <= tick'[v]
    BY <2>1 DEF CreateTick, Waits, TypeOK
  <2>3. UNCHANGED heapVars /\ tick' \in [Timer -> Int]
    BY <1>1 DEF CreateTick, TypeOK
  <2> QED
    BY <2>2, <2>3, HeapTicks DEF Waits
<1>3. Handy' /\ dropped' = dropped /\ (~dropped => Kept' /\ WaitsOnce')
  BY DEF CreateTick, Waits, TypeOK, Handy, Kept, WaitsOnce, InHand, heapVars, checkVars
<1> QED
  BY <1>1, <1>2, <1>3 DEF Waits

(* A timer that is born was not in the heap.                               *)
LEMMA CreateAddWaits == ASSUME Waits, NEW t \in Timer, CreateAdd(t) PROVE Waits'
<1>1. TypeOK'
  BY DEF CreateAdd, Waits, TypeOK, countVars, checkVars
<1>2. HeapOK' /\ (~dropped => HeapSorted') /\ inside' = inside \cup {t}
  BY HeapAdd DEF CreateAdd, Waits
<1>3. Handy' /\ dropped' = dropped /\ (~dropped => Kept' /\ WaitsOnce')
  BY <1>2 DEF CreateAdd, Waits, TypeOK, Handy, Kept, WaitsOnce, InHand, checkVars
<1> QED
  BY <1>1, <1>2, <1>3 DEF Waits

(* The flag has no part in where a timer is.                               *)
LEMMA DestroyWaits == ASSUME Waits, NEW t \in Timer, Destroy(t) PROVE Waits'
<1>1. TypeOK'
  BY DEF Destroy, Waits, TypeOK, countVars, checkVars
<1>2. HeapOK' /\ (~dropped => HeapSorted')
  BY HeapSame DEF Destroy, Waits
<1>3. Handy' /\ dropped' = dropped /\ (~dropped => Kept' /\ WaitsOnce')
  BY DEF Destroy, Waits, TypeOK, Handy, Kept, WaitsOnce, InHand, checkVars, heapVars
<1> QED
  BY <1>1, <1>2, <1>3 DEF Waits

(* A second changes the ticks of all timers in the heap alike.             *)
LEMMA TickWaits == ASSUME Waits, Tick PROVE Waits'
<1>1. TypeOK'
  <2>1. /\ tick' \in [Timer -> Int]
        /\ rest' \in [Timer -> Nat]
        /\ minTick' \in Int /\ now' \in Int
    BY DEF Tick, Waits, TypeOK
  <2> QED
    BY <2>1 DEF Tick, Waits, TypeOK, jobVars
<1>2. HeapOK' /\ (~dropped => HeapSorted')
  <2>1. ~dropped => \A t \in inside : tick'[t] = tick[t] - 1
    BY HeapTop DEF Tick, Waits, Kept, Pending
  <2>2. ~dropped => \A u, v \in inside : tick[u] <= tick[v] => tick'[u] <= tick'[v]
    BY <2>1, HeapTop DEF Waits, TypeOK
  <2>3. UNCHANGED heapVars /\ tick' \in [Timer -> Int]
    BY <1>1 DEF Tick, TypeOK
  <2> QED
    BY <2>2, <2>3, HeapTicks DEF Waits
<1>3. Handy' /\ dropped' = dropped /\ (~dropped => Kept' /\ WaitsOnce')
  BY DEF Tick, Waits, TypeOK, Handy, Kept, WaitsOnce, InHand, jobVars, heapVars
<1> QED
  BY <1>1, <1>2, <1>3 DEF Waits

(* A check is posted only if none is under way.                            *)
LEMMA PostWaits == ASSUME Waits, Post PROVE Waits'
<1>1. TypeOK'
  BY DEF Post, Waits, TypeOK, jobVars, checkVars
<1>2. HeapOK' /\ (~dropped => HeapSorted')
  BY HeapSame DEF Post, Waits
<1>3. Handy' /\ dropped' = dropped /\ (~dropped => Kept' /\ WaitsOnce')
  BY DEF Post, Waits, TypeOK, Handy, Kept, WaitsOnce, InHand, checkVars, heapVars, jobVars
<1> QED
  BY <1>1, <1>2, <1>3 DEF Waits

(* A handler takes a timer that is not in the heap, ...                    *)
LEMMA StartWaits == ASSUME Waits, NEW t \in Timer, Start(t) PROVE Waits'
<1>1. TypeOK'
  BY DEF Start, Waits, TypeOK, countVars, checkVars
<1>2. HeapOK' /\ (~dropped => HeapSorted')
  BY HeapSame DEF Start, Waits
<1>3. Handy' /\ dropped' = dropped /\ (~dropped => Kept' /\ WaitsOnce')
  BY DEF Start, Waits, TypeOK, Handy, Kept, WaitsOnce, InHand, checkVars, heapVars
<1> QED
  BY <1>1, <1>2, <1>3 DEF Waits

(* ... frees one that is not in the heap, ...                              *)
LEMMA FreeWaits == ASSUME Waits, NEW t \in Timer, Free(t) PROVE Waits'
<1>1. TypeOK'
  BY DEF Free, Waits, TypeOK, countVars, checkVars
<1>2. HeapOK' /\ (~dropped => HeapSorted')
  BY HeapSame DEF Free, Waits
<1>3. Handy' /\ dropped' = dropped /\ (~dropped => Kept' /\ WaitsOnce')
  BY DEF Free, Waits, TypeOK, Handy, Kept, WaitsOnce, InHand, checkVars, heapVars
<1> QED
  BY <1>1, <1>2, <1>3 DEF Waits

(* ... writes the tick of one that is not in the heap, ...                 *)
LEMMA RearmWaits == ASSUME Waits, NEW t \in Timer, Rearm(t) PROVE Waits'
<1>1. TypeOK'
  <2>1. tick' \in [Timer -> Int]
    BY SecPositive DEF Rearm, Waits, TypeOK
  <2> QED
    BY <2>1 DEF Rearm, Waits, TypeOK, countVars, checkVars
<1>2. HeapOK' /\ (~dropped => HeapSorted')
  <2>1. inside \subseteq Timer /\ (~dropped => t \notin inside)
    BY HeapTop DEF Waits, Kept, Rearm
  <2>2. ~dropped => \A u, v \in inside : tick[u] <= tick[v] => tick'[u] <= tick'[v]
    BY <2>1 DEF Rearm, Waits, TypeOK
  <2>3. UNCHANGED heapVars /\ tick' \in [Timer -> Int]
    BY <1>1 DEF Rearm, TypeOK
  <2> QED
    BY <2>2, <2>3, HeapTicks DEF Waits
<1>3. Handy' /\ dropped' = dropped /\ (~dropped => Kept' /\ WaitsOnce')
  BY DEF Rearm, Waits, TypeOK, Handy, Kept, WaitsOnce, InHand, heapVars, checkVars
<1> QED
  BY <1>1, <1>2, <1>3 DEF Waits

(* ... and puts it back.                                                   *)
LEMMA ReturnWaits == ASSUME Waits, NEW t \in Timer, Return(t) PROVE Waits'
<1>1. TypeOK'
  BY DEF Return, Waits, TypeOK, countVars, checkVars
<1>2. HeapOK' /\ (~dropped => HeapSorted') /\ inside' = inside \cup {t}
  BY HeapAdd DEF Return, Waits
<1>3. Handy' /\ dropped' = dropped /\ (~dropped => Kept' /\ WaitsOnce')
  BY <1>2 DEF Return, Waits, TypeOK, Handy, Kept, WaitsOnce, InHand, checkVars
<1> QED
  BY <1>1, <1>2, <1>3 DEF Waits

(* The steps of the check thread.                                          *)
LEMMA CheckStartWaits == ASSUME Waits, CheckStart PROVE Waits'
<1>1. TypeOK'
  BY DEF CheckStart, Waits, TypeOK, jobVars
<1>2. HeapOK' /\ (~dropped => HeapSorted')
  BY HeapSame DEF CheckStart, Waits
<1>3. Handy' /\ dropped' = dropped /\ (~dropped => Kept' /\ WaitsOnce')
  BY DEF CheckStart, Waits, TypeOK, Handy, Kept, WaitsOnce, InHand, jobVars, heapVars
<1> QED
  BY <1>1, <1>2, <1>3 DEF Waits

(* The timer taken from the heap is in hand.                               *)
LEMMA CheckGetWaits == ASSUME Waits, CheckGet PROVE Waits'
<1>1. HeapOK' /\ (~dropped => HeapSorted') /\ inside' = inside \ {Top}
  BY HeapGet DEF CheckGet, Waits
<1>2. /\ inside = {} => Top = NoTimer
      /\ inside # {} => Top \in inside
      /\ inside \subseteq Timer /\ NoTimer \notin Timer
  BY HeapTop, Fits DEF Waits
<1>3. TypeOK'
  <2>1. minTick' \in Int
    BY <1>2 DEF CheckGet, Waits, TypeOK
  <2> QED
    BY <2>1, <1>2 DEF CheckGet, Waits, TypeOK, jobVars, countVars
<1>4. Handy' /\ dropped' = dropped /\ (~dropped => Kept' /\ WaitsOnce')
  <2> USE <1>1, <1>2 DEF CheckGet, Waits
  <2>1. check' \in {"out", "clock"} /\ cur' = Top /\ (check' = "clock" <=> Top # NoTimer)
    OBVIOUS
  <2>2. UNCHANGED <<phase, status>>
    BY DEF jobVars
  <2>3. Handy'
    BY <2>1 DEF Handy
  <2>4. ~dropped => Kept'
    BY <2>1, <2>2 DEF Kept
  <2>5. ~dropped => WaitsOnce'
    BY <2>1, <2>2 DEF Kept, WaitsOnce, InHand
  <2> QED
    BY <2>3, <2>4, <2>5
<1> QED
  BY <1>1, <1>3, <1>4 DEF Waits

(* Reading the clock moves no timer.                                       *)
LEMMA CheckClockWaits == ASSUME Waits, CheckClock PROVE Waits'
<1>1. TypeOK'
  BY DEF CheckClock, Waits, TypeOK, jobVars, countVars
<1>2. HeapOK' /\ (~dropped => HeapSorted')
  BY HeapSame DEF CheckClock, Waits
<1>3. Handy' /\ dropped' = dropped /\ (~dropped => Kept' /\ WaitsOnce')
  BY DEF CheckClock, Waits, TypeOK, Handy, Kept, WaitsOnce, InHand, jobVars, heapVars
<1> QED
  BY <1>1, <1>2, <1>3 DEF Waits

(* Nor does passing over one.                                              *)
LEMMA SkipWaits == ASSUME Waits, Skip PROVE Waits'
<1>1. TypeOK'
  BY DEF Skip, Waits, TypeOK, jobVars, countVars
<1>2. HeapOK' /\ (~dropped => HeapSorted')
  BY HeapSame DEF Skip, Waits
<1>3. Handy' /\ dropped' = dropped /\ (~dropped => Kept' /\ WaitsOnce')
  BY DEF Skip, Waits, TypeOK, Handy, Kept, WaitsOnce, InHand, jobVars, heapVars
<1> QED
  BY <1>1, <1>2, <1>3 DEF Waits

(* The tick of the timer in hand is not in the heap; it stops waiting.     *)
LEMMA HandWaits == ASSUME Waits, Hand PROVE Waits'
<1>1. cur \in Timer /\ (~dropped => cur \notin inside) /\ phase[cur] = "waiting"
  BY DEF Hand, Waits, Handy, Kept, WaitsOnce, InHand
<1>2. TypeOK'
  <2>1. rest' \in [Timer -> Nat]
    BY <1>1, SecPositive DEF Hand, Waits, TypeOK
  <2> QED
    BY <1>1, <2>1 DEF Hand, Waits, TypeOK, countVars
<1>3. HeapOK' /\ (~dropped => HeapSorted')
  <2>1. inside \subseteq Timer
    BY HeapTop DEF Waits
  <2>2. ~dropped => \A u, v \in inside : tick[u] <= tick[v] => tick'[u] <= tick'[v]
    BY <1>1, <2>1 DEF Hand, Waits, TypeOK
  <2>3. UNCHANGED heapVars /\ tick' \in [Timer -> Int]
    BY <1>2 DEF Hand, TypeOK
  <2> QED
    BY <2>2, <2>3, HeapTicks DEF Waits
<1>4. Handy' /\ dropped' = dropped /\ (~dropped => Kept' /\ WaitsOnce')
  BY <1>1 DEF Hand, Waits, TypeOK, Handy, Kept, WaitsOnce, InHand, heapVars
<1> QED
  BY <1>2, <1>3, <1>4 DEF Waits

(* The timer in hand goes back to the heap.                                *)
LEMMA PutBackWaits == ASSUME Waits, PutBack PROVE Waits'
<1>1. cur \in Timer /\ (~dropped => phase[cur] = "waiting")
  BY DEF PutBack, Waits, Handy, Kept, WaitsOnce, InHand
<1>2. TypeOK'
  BY DEF PutBack, Waits, TypeOK, jobVars, countVars
<1>3. HeapOK' /\ (~dropped => HeapSorted') /\ inside' = inside \cup {cur}
  BY <1>1, HeapAdd DEF PutBack, Waits
<1>4. Handy' /\ dropped' = dropped /\ (~dropped => Kept' /\ WaitsOnce')
  BY <1>1, <1>3 DEF PutBack, Waits, TypeOK, Handy, Kept, WaitsOnce, InHand, jobVars
<1> QED
  BY <1>2, <1>3, <1>4 DEF Waits

(* Peeking moves no timer.                                                 *)
LEMMA CheckPeekWaits == ASSUME Waits, CheckPeek PROVE Waits'
<1>1. Top = NoTimer \/ (Top \in Timer /\ Top \in inside)
  BY HeapTop DEF Waits
<1>2. TypeOK'
  BY <1>1 DEF CheckPeek, Waits, TypeOK, jobVars, countVars
<1>3. HeapOK' /\ (~dropped => HeapSorted')
  BY HeapSame DEF CheckPeek, Waits
<1>4. Handy' /\ dropped' = dropped /\ (~dropped => Kept' /\ WaitsOnce')
  <2>1. UNCHANGED <<inside, phase, status>>
    BY DEF CheckPeek, jobVars, heapVars
  <2>2. check' \in {"out", "take"} /\ (check' = "take" => cur' \in Timer /\ cur' \in inside)
    BY <1>1 DEF CheckPeek
  <2> QED
    BY <2>1, <2>2 DEF CheckPeek, Waits, Handy, Kept, WaitsOnce, InHand
<1> QED
  BY <1>2, <1>3, <1>4 DEF Waits

(* The timer taken is in hand if it is the one peeked at.                  *)
LEMMA CheckTakeWaits == ASSUME Waits, CheckTake PROVE Waits'
<1>1. HeapOK' /\ (~dropped => HeapSorted') /\ inside' = inside \ {Top}
  BY HeapGet DEF CheckTake, Waits
<1>2. /\ UNCHANGED <<tick, phase, status, once, counter, posted, checking, cur, minTick, now, rest>>
      /\ check = "take" /\ check' = "look" /\ (~dropped' => ~dropped /\ Top = cur)
      /\ dropped' \in BOOLEAN
  BY DEF CheckTake, jobVars, countVars, Waits, TypeOK
<1>3. cur \in inside /\ cur \in Timer
  BY <1>2 DEF Waits, Handy
<1>4. TypeOK'
  BY <1>2 DEF Waits, TypeOK
<1>5. Handy'
  BY <1>2, <1>3 DEF Handy
<1>6. ~dropped' => Kept' /\ WaitsOnce'
  <2> SUFFICES ASSUME ~dropped' PROVE Kept' /\ WaitsOnce'
    OBVIOUS
  <2>1. Kept'
    BY <1>1, <1>2 DEF Waits, Kept
  <2>2. WaitsOnce'
    BY <1>1, <1>2, <1>3 DEF Waits, Kept, WaitsOnce, InHand
  <2> QED
    BY <2>1, <2>2
<1> QED
  BY <1>1, <1>2, <1>4, <1>5, <1>6 DEF Waits

(* With the end of the check no check is posted or under way.              *)
LEMMA CheckOutWaits == ASSUME Waits, CheckOut PROVE Waits'
<1>1. TypeOK'
  <2>1. posted' = 0 /\ checking' = FALSE /\ check' = "idle"
    BY DEF CheckOut, Waits, TypeOK, countVars
  <2>2. posted' + (IF check' = "idle" THEN 0 ELSE 1) = (IF checking' THEN 1 ELSE 0)
    BY <2>1
  <2>3. cur' = NoTimer /\ minTick' = 0 /\ now' = 0 /\ checking' \in BOOLEAN /\ posted' \in Nat
    BY <2>1 DEF CheckOut
  <2> QED
    BY <2>1, <2>2, <2>3 DEF CheckOut, Waits, TypeOK, jobVars, countVars
<1>2. HeapOK' /\ (~dropped => HeapSorted')
  BY HeapSame DEF CheckOut, Waits
<1>3. Handy' /\ dropped' = dropped /\ (~dropped => Kept' /\ WaitsOnce')
  BY DEF CheckOut, Waits, TypeOK, Handy, Kept, WaitsOnce, InHand, jobVars, heapVars
<1> QED
  BY <1>1, <1>2, <1>3 DEF Waits

(* A step that leaves everything alone keeps it.                           *)
LEMMA StutterWaits == ASSUME Waits, UNCHANGED vars PROVE Waits'
<1>1. TypeOK'
  BY DEF vars, Waits, TypeOK, jobVars, countVars, checkVars
<1>2. HeapOK' /\ (~dropped => HeapSorted')
  BY HeapSame DEF vars, Waits
<1>3. Handy' /\ dropped' = dropped /\ (~dropped => Kept' /\ WaitsOnce')
  BY DEF vars, Waits, Handy, Kept, WaitsOnce, InHand, jobVars, heapVars, checkVars
<1> QED
  BY <1>1, <1>2, <1>3 DEF Waits

(* One step of anything keeps the timers where they belong.                *)
LEMMA StepWaits == ASSUME Waits, [Next]_vars PROVE Waits'
<1>1. ASSUME NEW t \in Timer, CreateTick(t) \/ CreateAdd(t) \/ Destroy(t) PROVE Waits'
  BY <1>1, CreateTickWaits, CreateAddWaits, DestroyWaits
<1>2. CASE Tick \/ Post
  BY <1>2, TickWaits, PostWaits
<1>3. CASE CheckStep
  BY <1>3, CheckStartWaits, CheckGetWaits, CheckClockWaits, HandWaits, PutBackWaits,
     SkipWaits, CheckPeekWaits, CheckTakeWaits, CheckOutWaits DEF CheckStep
<1>4. ASSUME NEW t \in Timer, Handle(t) \/ Free(t) PROVE Waits'
  BY <1>4, StartWaits, RearmWaits, ReturnWaits, FreeWaits DEF Handle
<1>5. CASE UNCHANGED vars
  BY <1>5, StutterWaits
<1> QED
  BY <1>1, <1>2, <1>3, <1>4, <1>5 DEF Next

(* Wherever the threads are, every timer is where Waits says.              *)
THEOREM AlwaysWaits == Spec => []Waits
<1>1. Init => Waits
  BY InitWaits
<1>2. Waits /\ [Next]_vars => Waits'
  BY StepWaits
<1> QED
  BY <1>1, <1>2, PTL DEF Spec

(* The variables keep their types, and there is one check at a time: in    *)
(* the pool or in the check thread, exactly while check_status is RUNNING. *)
THEOREM TypeCorrect == Spec => []TypeOK
<1>1. Waits => TypeOK
  BY DEF Waits
<1> QED
  BY <1>1, AlwaysWaits, PTL

(* No timer is lost by the heap and the check thread or in both.           *)
THEOREM WaitsInOnePlace == Spec => []WaitsOnce
<1>1. Waits => WaitsOnce
  BY DEF Waits, WaitsOnce
<1> QED
  BY <1>1, AlwaysWaits, PTL

-----------------------------------------------------------------------------
(* The keys of the heap stay put.                                          *)

(* A step leaves the ticks of all timers in the heap alone or a second     *)
(* passes for all of them.                                                 *)
LEMMA StepTicks ==
    ASSUME Waits, ~dropped, Next
    PROVE  \/ \A t \in inside : tick'[t] = tick[t]
           \/ \A t \in inside : tick'[t] = tick[t] - 1
<1> /\ inside \subseteq Timer /\ tick \in [Timer -> Int]
    /\ \A t \in inside : phase[t] = "waiting"
  BY HeapTop DEF Waits, Kept, TypeOK
<1>1. ASSUME NEW t \in Timer, CreateTick(t) \/ CreateAdd(t) \/ Destroy(t)
      PROVE  \A u \in inside : tick'[u] = tick[u]
  BY <1>1 DEF CreateTick, CreateAdd, Destroy
<1>2. ASSUME Tick PROVE \A t \in inside : tick'[t] = tick[t] - 1
  BY <1>2 DEF Tick, Pending
<1>3. ASSUME Post PROVE \A t \in inside : tick'[t] = tick[t]
  BY <1>3 DEF Post
<1>4. ASSUME CheckStep PROVE \A t \in inside : tick'[t] = tick[t]
  <2>1. ASSUME Hand PROVE \A t \in inside : tick'[t] = tick[t]
    <3>1. cur \notin inside
      BY <2>1 DEF Hand, Waits, Handy, WaitsOnce, InHand
    <3> QED
      BY <2>1, <3>1 DEF Hand
  <2>2. ASSUME CheckStart \/ CheckGet \/ CheckClock \/ Skip \/ PutBack \/ CheckPeek
               \/ CheckTake \/ CheckOut
        PROVE  tick' = tick
    BY <2>2 DEF CheckStart, CheckGet, CheckClock, Skip, PutBack, CheckPeek, CheckTake, CheckOut
  <2> QED
    BY <1>4, <2>1, <2>2 DEF CheckStep
<1>5. ASSUME NEW t \in Timer, Handle(t) \/ Free(t)
      PROVE  \A u \in inside : tick'[u] = tick[u]
  BY <1>5 DEF Handle, Free, Start, Rearm, Return
<1> QED
  BY <1>1, <1>2, <1>3, <1>4, <1>5 DEF Next

(* The order that the heap was built for is the order of the timers in it  *)
(* for as long as they are there, however the threads write their ticks -- *)
(* until a timer is dropped.                                               *)
THEOREM KeysStayPut == Spec => KeysFrozen
<1>1. Waits /\ [Next]_vars =>
          [~dropped =>
              \A t, u \in inside \cap inside' : tick'[t] - tick'[u] = tick[t] - tick[u]]_vars
  <2> SUFFICES ASSUME Waits, Next, ~dropped
               PROVE  \A t, u \in inside \cap inside' : tick'[t] - tick'[u] = tick[t] - tick[u]
    OBVIOUS
  <2>1. inside \subseteq Timer /\ tick \in [Timer -> Int]
    BY HeapTop DEF Waits, TypeOK
  <2> QED
    BY <2>1, StepTicks
<1> QED
  BY <1>1, AlwaysWaits, PTL DEF Spec, KeysFrozen

-----------------------------------------------------------------------------
(* No timer is early.                                                      *)

(* What the invariants say when the work of a second is done within it: a  *)
(* timer that is not in the heap or in hand does not wait, and the other   *)
(* way round.                                                              *)
LEMMA PromptFacts ==
    ASSUME Waits, Paced, Aimed, prompt
    PROVE  /\ now = 0 /\ ~dropped /\ tick \in [Timer -> Int] /\ rest \in [Timer -> Nat]
           /\ status \in [Timer -> BOOLEAN] /\ minTick \in Int /\ now \in Int
           /\ phase \in
                [Timer -> {"unborn", "born", "waiting", "queued", "running", "rearmed", "freed"}]
           /\ check \in {"clock", "look", "take"} =>
                  cur \in Timer /\ phase[cur] = "waiting" /\ tick[cur] = minTick
           /\ check \in {"clock", "look"} => ~status[cur]
           /\ \A t \in Timer : phase[t] = "waiting" => t \in inside \/ InHand(t)
           /\ ~(check \in {"clock", "look"}) =>
                  \A t \in Timer : phase[t] = "waiting" <=> t \in inside
<1>1. /\ now = 0 /\ ~dropped /\ tick \in [Timer -> Int] /\ rest \in [Timer -> Nat]
      /\ status \in [Timer -> BOOLEAN] /\ minTick \in Int /\ now \in Int
      /\ phase \in [Timer -> {"unborn", "born", "waiting", "queued", "running", "rearmed", "freed"}]
  BY DEF Paced, Aimed, Waits, TypeOK
<1>2. check \in {"clock", "look"} => cur \in Timer /\ phase[cur] = "waiting" /\ ~status[cur]
  BY <1>1 DEF Waits, Handy, WaitsOnce, InHand
<1>3. check = "take" => cur \in Timer /\ phase[cur] = "waiting"
  BY <1>1 DEF Waits, Handy, Kept
<1>4. \A t \in Timer : phase[t] = "waiting" => t \in inside \/ InHand(t)
  BY <1>1 DEF Waits, WaitsOnce, InHand
<1>5. ~(check \in {"clock", "look"}) => \A t \in Timer : phase[t] = "waiting" <=> t \in inside
  BY <1>1 DEF Waits, WaitsOnce, InHand
<1> QED
  BY <1>1, <1>2, <1>3, <1>4, <1>5 DEF Aimed

(* No step changes the assumption.                                         *)
LEMMA PromptStays == ASSUME [Next]_vars PROVE prompt' = prompt
BY DEF Next, vars, CreateTick, CreateAdd, Destroy, Tick, Post, CheckStep, CheckStart,
       CheckGet, CheckClock, Skip, Hand, PutBack, CheckPeek, CheckTake, CheckOut, Handle, Start,
       Rearm, Return, Free

(* Every step keeps a timer's tick in step with the seconds it must wait.  *)
LEMMA StepPaced ==
    ASSUME Waits, Paced, Aimed, [Next]_vars
    PROVE  Paced'
<1> SUFFICES ASSUME prompt' PROVE Paced'
  BY DEF Paced
<1>1. /\ now = 0
      /\ \A t \in Timer :
            /\ phase[t] = "unborn" => rest[t] = Sec[t]
            /\ phase[t] \in {"born", "rearmed"} => tick[t] = Sec[t] /\ rest[t] = Sec[t]
            /\ phase[t] \in {"queued", "running"} => tick[t] = 0 /\ rest[t] = Sec[t]
            /\ phase[t] = "waiting" => rest[t] = 0 \/ rest[t] <= tick[t]
      /\ prompt
  BY PromptStays DEF Paced
<1>2. /\ Sec \in [Timer -> Nat] /\ tick \in [Timer -> Int] /\ rest \in [Timer -> Nat]
      /\ status \in [Timer -> BOOLEAN]
      /\ phase \in [Timer -> {"unborn", "born", "waiting", "queued", "running", "rearmed", "freed"}]
  BY SecPositive DEF Waits, TypeOK
<1>3. ASSUME NEW t \in Timer, CreateTick(t) PROVE Paced'
  BY <1>1, <1>2, <1>3 DEF CreateTick, Paced, checkVars
<1>4. ASSUME NEW t \in Timer, CreateAdd(t) PROVE Paced'
  BY <1>1, <1>2, <1>4 DEF CreateAdd, Paced, checkVars
<1>5. ASSUME NEW t \in Timer, Destroy(t) PROVE Paced'
  BY <1>1, <1>2, <1>5 DEF Destroy, Paced, checkVars
<1>6. ASSUME Tick PROVE Paced'
  <2>1. now' = 0 /\ phase' = phase
    BY <1>1, <1>6 DEF Tick, Busy, jobVars
  <2>2. \A t \in Timer : phase[t] \in {"unborn", "waiting", "freed"}
    BY <1>1, <1>2, <1>6 DEF Tick, Busy
  <2>3. ASSUME NEW t \in Timer, phase[t] = "unborn" PROVE rest'[t] = Sec[t]
    BY <1>1, <1>2, <1>6, <2>3 DEF Tick, Pending
  <2>4. ASSUME NEW t \in Timer, phase[t] = "waiting"
        PROVE  rest'[t] = 0 \/ rest'[t] <= tick'[t]
    <3>1. /\ tick'[t] = tick[t] - 1
          /\ rest'[t] = (IF rest[t] > 0 THEN rest[t] - 1 ELSE rest[t])
      BY <1>1, <1>6, <2>4, PromptFacts DEF Tick, Pending
    <3> QED
      BY <1>1, <1>2, <2>4, <3>1
  <2> QED
    BY <2>1, <2>2, <2>3, <2>4 DEF Paced
<1>7. ASSUME Post PROVE Paced'
  BY <1>1, <1>7 DEF Post, Paced, checkVars, jobVars
<1>8. ASSUME Hand PROVE Paced'
  <2>1. cur \in Timer
    BY <1>8 DEF Hand, Waits, Handy
  <2> QED
    BY <1>1, <1>2, <1>8, <2>1 DEF Hand, Paced
<1>9. ASSUME CheckStart \/ CheckGet \/ CheckClock \/ Skip \/ PutBack \/ CheckPeek \/ CheckTake
             \/ CheckOut
      PROVE  Paced'
  <2>1. UNCHANGED <<tick, phase, rest>> /\ (now' = now \/ now' = 0)
    BY <1>9 DEF CheckStart, CheckGet, CheckClock, Skip, PutBack, CheckPeek, CheckTake, CheckOut,
                jobVars
  <2> QED
    BY <1>1, <2>1 DEF Paced
<1>10. ASSUME NEW t \in Timer, Start(t) \/ Free(t) \/ Return(t) PROVE Paced'
  BY <1>1, <1>2, <1>10 DEF Start, Free, Return, Paced, checkVars
<1>11. ASSUME NEW t \in Timer, Rearm(t) PROVE Paced'
  BY <1>1, <1>2, <1>11 DEF Rearm, Paced, checkVars
<1>12. CASE UNCHANGED vars
  BY <1>1, <1>12 DEF vars, Paced, checkVars, jobVars
<1> QED
  BY <1>3, <1>4, <1>5, <1>6, <1>7, <1>8, <1>9, <1>10, <1>11, <1>12 DEF Next, CheckStep, Handle

(* A timer on its way into the heap is not due, so it does not pass one    *)
(* that is.                                                                *)
LEMMA AddAimed ==
    ASSUME Waits, Paced, Aimed, prompt, NEW t \in Timer, CreateAdd(t) \/ Return(t)
    PROVE  check = "take" => Top' = Top
<1> SUFFICES ASSUME check = "take" PROVE Top' = Top
  OBVIOUS
<1>1. Heap!Add(t) /\ UNCHANGED tick /\ phase[t] \in {"born", "rearmed"}
  BY DEF CreateAdd, Return
<1>2. tick[t] >= 1
  BY <1>1, SecPositive DEF Paced
<1>3. cur = Top /\ cur \in Timer /\ tick[cur] <= 0
  BY PromptFacts DEF Aimed
<1>4. Top # NoTimer /\ tick[t] > tick[Top]
  BY <1>2, <1>3, PromptFacts, Fits
<1> QED
  BY <1>1, <1>4, HeapAdd DEF Waits

(* Every step keeps the check thread at timers of one tick.                *)
LEMMA StepAimed ==
    ASSUME Waits, Paced, Aimed, [Next]_vars
    PROVE  Aimed'
<1> SUFFICES ASSUME prompt' PROVE Aimed'
  BY DEF Aimed
<1>1. /\ ~dropped /\ prompt
      /\ check \in {"clock", "look", "take"} => tick[cur] = minTick
      /\ check \in {"peek", "take"} => minTick <= 0
      /\ check = "take" => cur = Top
  BY PromptStays DEF Aimed
<1>2. /\ now = 0 /\ minTick \in Int /\ tick \in [Timer -> Int]
      /\ check \in {"clock", "look", "take"} => cur \in Timer /\ phase[cur] = "waiting"
      /\ check \in {"clock", "look"} => ~status[cur]
  BY <1>1, PromptFacts
<1>3. ASSUME NEW t \in Timer, CreateTick(t) \/ Destroy(t) \/ Start(t) \/ Rearm(t) \/ Free(t)
      PROVE  Aimed'
  <2>1. UNCHANGED <<check, cur, minTick, dropped, data>>
    BY <1>3 DEF CreateTick, Destroy, Start, Rearm, Free, checkVars, heapVars
  <2>2. check \in {"clock", "look", "take"} => tick'[cur] = tick[cur]
    BY <1>2, <1>3 DEF CreateTick, Destroy, Start, Rearm, Free
  <2> QED
    BY <1>1, <2>1, <2>2 DEF Aimed, Top, Heap!Root
<1>4. ASSUME NEW t \in Timer, CreateAdd(t) \/ Return(t) PROVE Aimed'
  <2>1. UNCHANGED <<check, cur, minTick, dropped, tick>>
    BY <1>4 DEF CreateAdd, Return, checkVars
  <2>2. check = "take" => Top' = Top
    BY <1>1, <1>4, AddAimed
  <2> QED
    BY <1>1, <2>1, <2>2 DEF Aimed
<1>5. ASSUME Tick PROVE Aimed'
  BY <1>1, <1>5 DEF Tick, Busy, Aimed
<1>6. ASSUME Post \/ UNCHANGED vars PROVE Aimed'
  <2>1. UNCHANGED <<check, cur, minTick, dropped, tick, data>>
    BY <1>6 DEF Post, vars, checkVars, heapVars
  <2> QED
    BY <1>1, <2>1 DEF Aimed, Top, Heap!Root
<1>7. ASSUME CheckStart \/ CheckGet \/ CheckClock PROVE Aimed'
  BY <1>1, <1>7 DEF CheckStart, CheckGet, CheckClock, Aimed
<1>8. ASSUME Skip PROVE Aimed'
  BY <1>2, <1>8 DEF Skip
<1>9. ASSUME Hand PROVE Aimed'
  <2>1. check' = "peek" /\ dropped' = dropped /\ minTick' = minTick /\ tick[cur] <= 0
    BY <1>2, <1>9 DEF Hand, Due
  <2> QED
    BY <1>1, <1>9, <2>1 DEF Hand, Aimed
<1>10. ASSUME PutBack \/ CheckOut PROVE Aimed'
  BY <1>1, <1>10 DEF PutBack, CheckOut, Aimed
<1>11. ASSUME CheckPeek PROVE Aimed'
  <2>1. UNCHANGED <<minTick, dropped, tick, data>> /\ check = "peek"
    BY <1>11 DEF CheckPeek, heapVars
  <2>2. \/ check' = "out"
        \/ check' = "take" /\ cur' = Top /\ tick[Top] = minTick
    BY <1>11 DEF CheckPeek
  <2>3. Top' = Top
    BY <2>1 DEF Top, Heap!Root
  <2> QED
    BY <1>1, <2>1, <2>2, <2>3 DEF Aimed
<1>12. ASSUME CheckTake PROVE Aimed'
  BY <1>1, <1>12 DEF CheckTake, Aimed
<1> QED
  BY <1>3, <1>4, <1>5, <1>6, <1>7, <1>8, <1>9, <1>10, <1>11, <1>12 DEF Next, CheckStep, Handle

(* While the work of a second is done within it, every timer has as many   *)
(* seconds to its tick as it must wait, and none is dropped.               *)
THEOREM AlwaysPaced == Spec => [](Paced /\ Aimed)
<1>1. Init => Paced /\ Aimed
  BY DEF Init, Paced, Aimed
<1>2. Waits /\ (Paced /\ Aimed) /\ [Next]_vars => (Paced /\ Aimed)'
  BY StepPaced, StepAimed
<1> QED
  BY <1>1, <1>2, AlwaysWaits, PTL DEF Spec

(* So none is posted to the handlers before its seconds are over.          *)
THEOREM NoneIsEarly == Spec => NeverEarly
<1>1. Waits /\ Paced /\ [Next]_vars =>
          [prompt => \A t \in Timer :
               phase[t] = "waiting" /\ phase'[t] = "queued" => rest[t] = 0]_vars
  <2> SUFFICES ASSUME Waits, Paced, Next, prompt, NEW t \in Timer,
                      phase[t] = "waiting", phase'[t] = "queued"
               PROVE  rest[t] = 0
    OBVIOUS
  <2>1. phase \in [Timer -> {"unborn", "born", "waiting", "queued", "running", "rearmed", "freed"}]
    BY DEF Waits, TypeOK
  <2>2. Hand
    <3>1. ASSUME NEW u \in Timer, CreateTick(u) \/ CreateAdd(u) \/ Destroy(u) PROVE FALSE
      BY <2>1, <3>1 DEF CreateTick, CreateAdd, Destroy
    <3>2. ASSUME NEW u \in Timer, Handle(u) \/ Free(u) PROVE FALSE
      BY <2>1, <3>2 DEF Handle, Start, Rearm, Return, Free
    <3>3. ASSUME Tick \/ Post \/ CheckStart \/ CheckGet \/ CheckClock \/ Skip \/ PutBack
                 \/ CheckPeek \/ CheckTake \/ CheckOut
          PROVE  FALSE
      <4>1. phase' = phase
        BY <3>3 DEF Tick, Post, CheckStart, CheckGet, CheckClock, Skip, PutBack,
                    CheckPeek, CheckTake, CheckOut, jobVars
      <4> QED
        BY <4>1
    <3> QED
      BY <3>1, <3>2, <3>3 DEF Next, CheckStep
  <2>3. t = cur
    BY <2>1, <2>2 DEF Hand
  <2>4. tick[t] <= 0
    BY <2>2, <2>3 DEF Hand, Due, Paced, Waits, TypeOK
  <2> QED
    BY <2>4 DEF Paced, Waits, TypeOK
<1> QED
  BY <1>1, AlwaysWaits, AlwaysPaced, PTL DEF Spec, NeverEarly

-----------------------------------------------------------------------------
(* No timer is late.                                                       *)

(* What a step may count on when the work of a second is done within it    *)
(* and the heap has been in order.                                         *)
Timely == Waits /\ Paced /\ Aimed /\ prompt /\ ~regrown /\ InTime

(* What the invariants say of ticks and of the timer in hand in such a     *)
(* state.                                                                  *)
LEMMA TimelyFacts ==
    ASSUME Timely
    PROVE  /\ tick \in [Timer -> Int] /\ now = 0 /\ minTick \in Int
           /\ \A t \in inside : tick[Top] <= tick[t]
           /\ phase \in
                [Timer -> {"unborn", "born", "waiting", "queued", "running", "rearmed", "freed"}]
           /\ \A t \in Timer : phase[t] \in {"born", "rearmed"} => tick[t] >= 1
           /\ \A t \in Timer : phase[t] = "waiting" =>
                  tick[t] >= 0 /\ (t \in inside \/ InHand(t))
           /\ check \in {"clock", "look", "take"} =>
                  cur \in Timer /\ phase[cur] = "waiting" /\ tick[cur] = minTick
           /\ ~(check \in {"clock", "look"}) =>
                \A t \in Timer : phase[t] = "waiting" <=> t \in inside
<1>1. Waits /\ Paced /\ Aimed /\ prompt
  BY DEF Timely
<1>2. tick \in [Timer -> Int]
  BY <1>1, PromptFacts
<1>3. \A t \in Timer : phase[t] \in {"born", "rearmed"} => tick[t] >= 1
  BY <1>1, SecPositive DEF Paced
<1>4. \A t \in Timer : phase[t] = "waiting" => tick[t] >= 0
  BY <1>2 DEF Timely, InTime, Overdue
<1>5. \A t \in inside : tick[Top] <= tick[t]
  BY <1>1, HeapTop, PromptFacts DEF Timely, Waits
<1> QED
  BY <1>1, <1>3, <1>4, <1>5, PromptFacts

(* A timer that is being created does not wait yet.                        *)
LEMMA CreateTickInTime == ASSUME Timely, NEW t \in Timer, CreateTick(t) PROVE InTime'
<1>1. UNCHANGED <<minTick, check, posted, counter>>
  BY DEF CreateTick, checkVars, countVars
<1>2. \A u \in Timer : phase'[u] = "waiting" => phase[u] = "waiting" /\ tick'[u] = tick[u]
  BY TimelyFacts DEF CreateTick
<1>3. NoneDue => NoneDue'
  BY <1>2 DEF NoneDue
<1>4. \A u \in Timer : ~Overdue(u)'
  BY <1>2 DEF Timely, InTime, Overdue
<1> QED
  BY <1>1, <1>3, <1>4 DEF Timely, InTime

(* A timer that enters the heap is not yet due.                            *)
LEMMA AddInTime ==
    ASSUME Timely, NEW t \in Timer, CreateAdd(t) \/ Return(t)
    PROVE  InTime'
<1>1. /\ phase[t] \in {"born", "rearmed"} /\ phase' = [phase EXCEPT ![t] = "waiting"]
      /\ UNCHANGED <<tick, check, minTick, posted, counter>>
  BY DEF CreateAdd, Return, countVars, checkVars
<1>2. tick[t] >= 1
  BY <1>1, TimelyFacts
<1>3. \A u \in Timer : phase'[u] = "waiting" => u = t \/ phase[u] = "waiting"
  BY <1>1, TimelyFacts
<1>4. NoneDue => NoneDue'
  BY <1>1, <1>2, <1>3 DEF NoneDue
<1>5. \A u \in Timer : ~Overdue(u)'
  BY <1>1, <1>2, <1>3, TimelyFacts DEF Timely, InTime, Overdue
<1> QED
  BY <1>1, <1>4, <1>5 DEF Timely, InTime

(* A second begins only when none is due, so it makes none overdue.        *)
LEMMA TickInTime == ASSUME Timely, Tick PROVE InTime'
<1>1. /\ check = "idle" /\ posted = 0 /\ counter = "asleep"
      /\ check' = "idle" /\ minTick' = 0 /\ counter' = "post"
  BY DEF Tick, Busy, Timely, Waits, TypeOK
<1>2. NoneDue
  BY <1>1 DEF Timely, InTime
<1>3. \A t \in Timer : ~Overdue(t)'
  <2> SUFFICES ASSUME NEW t \in Timer, phase'[t] = "waiting" PROVE ~(tick'[t] < 0)
    BY DEF Overdue
  <2>1. phase[t] = "waiting"
    BY DEF Tick, jobVars
  <2>2. tick'[t] = tick[t] - 1
    BY <2>1, TimelyFacts DEF Tick, Pending
  <2> QED
    BY <1>2, <2>1, <2>2, TimelyFacts DEF NoneDue
<1> QED
  BY <1>1, <1>3 DEF InTime

(* After the post a check is posted or under way.                          *)
LEMMA PostInTime == ASSUME Timely, Post PROVE InTime'
<1>1. UNCHANGED <<tick, phase, check, minTick>>
  BY DEF Post, jobVars, checkVars
<1>2. ~(check = "idle" /\ posted' = 0)
  BY DEF Post, Timely, Waits, TypeOK
<1>3. NoneDue => NoneDue'
  BY <1>1 DEF NoneDue
<1>4. \A u \in Timer : ~Overdue(u)'
  BY <1>1 DEF Timely, InTime, Overdue
<1> QED
  BY <1>1, <1>2, <1>3, <1>4 DEF Timely, InTime

(* The timer a check begins with is due first; if there is none, none is   *)
(* due.                                                                    *)
LEMMA CheckGetInTime == ASSUME Timely, CheckGet PROVE InTime'
<1>1. UNCHANGED <<tick, phase>> /\ check = "get" /\ cur' = Top
  BY DEF CheckGet, jobVars
<1>2. \A t \in Timer : phase[t] = "waiting" <=> t \in inside
  BY <1>1, TimelyFacts
<1>3. \A u \in Timer : ~Overdue(u)'
  BY <1>1 DEF Timely, InTime, Overdue
<1>4. CASE Top = NoTimer
  <2>1. inside = {}
    BY <1>4, HeapTop, Fits, TimelyFacts DEF Timely, Waits
  <2>2. NoneDue'
    BY <1>1, <1>2, <2>1 DEF NoneDue
  <2>3. check' = "out" /\ minTick' = 0
    BY <1>4 DEF CheckGet
  <2> QED
    BY <1>3, <2>2, <2>3 DEF InTime
<1>5. CASE Top # NoTimer
  <2>1. /\ Top \in inside /\ inside \subseteq Timer
        /\ \A t \in inside : tick[Top] <= tick[t]
    BY <1>5, HeapTop, TimelyFacts DEF Timely, Waits
  <2>2. check' = "clock" /\ minTick' = tick[Top]
    BY <1>5 DEF CheckGet
  <2>3. tick[Top] >= 0 /\ tick[Top] \in Int
    BY <1>2, <2>1, TimelyFacts
  <2>4. minTick' >= 1 => NoneDue'
    <3> SUFFICES ASSUME tick[Top] >= 1, NEW t \in Timer, phase[t] = "waiting"
                 PROVE  tick[t] >= 1
      BY <1>1, <2>2 DEF NoneDue
    <3>1. tick[Top] <= tick[t] /\ tick[t] \in Int
      BY <1>2, <2>1, TimelyFacts
    <3> QED
      BY <2>3, <3>1
  <2>5. tick'[cur'] = minTick'
    BY <1>1, <2>2
  <2> QED
    BY <1>3, <2>2, <2>3, <2>4, <2>5 DEF InTime
<1> QED
  BY <1>4, <1>5

(* A timer is handed on only if it is due now, like all that follow.       *)
LEMMA HandInTime == ASSUME Timely, Hand PROVE InTime'
<1>1. cur \in Timer /\ tick[cur] = minTick /\ check = "look"
  BY TimelyFacts DEF Hand, Timely, InTime
<1>2. minTick' = 0 /\ check' = "peek"
  BY <1>1, TimelyFacts DEF Hand, Due, Timely, InTime
<1>3. \A u \in Timer : phase'[u] = "waiting" => phase[u] = "waiting" /\ tick'[u] = tick[u]
  BY <1>1, TimelyFacts DEF Hand
<1>4. \A u \in Timer : ~Overdue(u)'
  BY <1>3 DEF Timely, InTime, Overdue
<1> QED
  BY <1>2, <1>4 DEF InTime

(* If the timer that is due first is not due, none is.                     *)
LEMMA PutBackInTime == ASSUME Timely, PutBack PROVE InTime'
<1>1. UNCHANGED <<tick, phase, minTick>> /\ check = "look" /\ check' = "out"
  BY DEF PutBack, jobVars
<1>2. minTick >= 1
  BY TimelyFacts DEF PutBack, Due, Timely, InTime
<1>3. NoneDue'
  BY <1>1, <1>2 DEF Timely, InTime, NoneDue
<1>4. \A u \in Timer : ~Overdue(u)'
  BY <1>1 DEF Timely, InTime, Overdue
<1> QED
  BY <1>1, <1>2, <1>3, <1>4, TimelyFacts DEF InTime

(* When the peeked timer is not due at the first one's tick, none is.      *)
LEMMA CheckPeekInTime == ASSUME Timely, CheckPeek PROVE InTime'
<1>1. UNCHANGED <<tick, phase, minTick>> /\ check = "peek" /\ minTick = 0
  BY TimelyFacts DEF CheckPeek, jobVars, Timely, InTime, Aimed
<1>2. \A t \in Timer : phase[t] = "waiting" <=> t \in inside
  BY <1>1, TimelyFacts
<1>3. \A u \in Timer : ~Overdue(u)'
  BY <1>1 DEF Timely, InTime, Overdue
<1>4. CASE Top = NoTimer
  <2>1. inside = {}
    BY <1>4, HeapTop, Fits, TimelyFacts DEF Timely, Waits
  <2>2. NoneDue' /\ check' = "out"
    BY <1>1, <1>2, <1>4, <2>1 DEF NoneDue, CheckPeek
  <2> QED
    BY <1>1, <1>3, <2>2 DEF InTime
<1>5. CASE Top # NoTimer /\ tick[Top] # minTick
  <2>1. /\ Top \in inside /\ inside \subseteq Timer
        /\ \A t \in inside : tick[Top] <= tick[t]
    BY <1>5, HeapTop, TimelyFacts DEF Timely, Waits
  <2>2. tick[Top] >= 1 /\ tick[Top] \in Int
    BY <1>1, <1>2, <1>5, <2>1, TimelyFacts
  <2>3. NoneDue'
    <3> SUFFICES ASSUME NEW t \in Timer, phase[t] = "waiting" PROVE tick[t] >= 1
      BY <1>1 DEF NoneDue
    <3>1. tick[Top] <= tick[t] /\ tick[t] \in Int
      BY <1>2, <2>1, TimelyFacts
    <3> QED
      BY <2>2, <3>1
  <2>4. check' = "out"
    BY <1>5 DEF CheckPeek
  <2> QED
    BY <1>1, <1>3, <2>3, <2>4 DEF InTime
<1>6. CASE Top # NoTimer /\ tick[Top] = minTick
  <2>1. check' = "take"
    BY <1>6 DEF CheckPeek
  <2> QED
    BY <1>1, <1>3, <2>1 DEF InTime
<1> QED
  BY <1>4, <1>5, <1>6

(* The timer taken is due.                                                 *)
LEMMA CheckTakeInTime == ASSUME Timely, CheckTake PROVE InTime'
<1>1. UNCHANGED <<tick, phase, minTick>> /\ minTick = 0 /\ check' = "look"
  BY TimelyFacts DEF CheckTake, jobVars, Timely, InTime, Aimed
<1>2. \A u \in Timer : ~Overdue(u)'
  BY <1>1 DEF Timely, InTime, Overdue
<1> QED
  BY <1>1, <1>2 DEF InTime

(* The steps of the handlers and the check thread's others.                *)
LEMMA OthersInTime ==
    ASSUME Timely,
           \/ CheckStart \/ CheckClock \/ Skip \/ CheckOut \/ UNCHANGED vars
           \/ \E t \in Timer : Destroy(t) \/ Start(t) \/ Rearm(t) \/ Free(t)
    PROVE  InTime'
<1>1. \A u \in Timer : phase'[u] = "waiting" => phase[u] = "waiting" /\ tick'[u] = tick[u]
  <2>1. CASE CheckStart \/ CheckClock \/ Skip \/ CheckOut \/ UNCHANGED vars
    BY <2>1 DEF CheckStart, CheckClock, Skip, CheckOut, vars, jobVars
  <2>2. ASSUME NEW t \in Timer, Destroy(t) \/ Start(t) \/ Rearm(t) \/ Free(t),
               NEW u \in Timer, phase'[u] = "waiting"
        PROVE  phase[u] = "waiting" /\ tick'[u] = tick[u]
    BY <2>2, TimelyFacts DEF Destroy, Start, Rearm, Free
  <2> QED
    BY <2>1, <2>2
<1>2. NoneDue => NoneDue'
  BY <1>1 DEF NoneDue
<1>3. \A u \in Timer : ~Overdue(u)'
  BY <1>1 DEF Timely, InTime, Overdue
<1>4. CASE CheckStart
  BY <1>3, <1>4 DEF CheckStart, Timely, InTime
<1>5. CASE CheckClock
  BY <1>2, <1>3, <1>5 DEF CheckClock, Timely, InTime
<1>6. CASE Skip
  BY <1>3, <1>6 DEF Skip, Timely, InTime
<1>7. CASE CheckOut
  BY <1>2, <1>3, <1>7 DEF CheckOut, Timely, InTime
<1>8. CASE UNCHANGED vars
  BY <1>2, <1>3, <1>8 DEF vars, countVars, checkVars, Timely, InTime
<1>9. ASSUME NEW t \in Timer, Destroy(t) \/ Start(t) \/ Rearm(t) \/ Free(t) PROVE InTime'
  <2>1. UNCHANGED <<minTick, check, posted, counter>>
    BY <1>9 DEF Destroy, Start, Rearm, Free, countVars, checkVars
  <2> QED
    BY <1>2, <1>3, <2>1 DEF Timely, InTime
<1> QED
  BY <1>4, <1>5, <1>6, <1>7, <1>8, <1>9

(* Every step keeps Punctual: an addition to a heap that is in order       *)
(* afterwards was made to one in order before.                             *)
LEMMA StepPunctual ==
    ASSUME Waits, Paced, Aimed, Punctual, [Next]_vars
    PROVE  Punctual'
<1> SUFFICES ASSUME prompt', ~regrown' PROVE InTime'
  BY DEF Punctual
<1>1. prompt
  BY PromptStays
<1>2. ASSUME NEW t \in Timer, CreateAdd(t) \/ Return(t) PROVE InTime'
  <2>1. ~regrown
    BY <1>2, HeapAdd DEF CreateAdd, Return, Waits
  <2> QED
    BY <1>1, <1>2, <2>1, AddInTime DEF Timely, Punctual
<1>3. ASSUME PutBack PROVE InTime'
  <2>1. Heap!Add(cur) /\ UNCHANGED tick /\ cur \in Timer
    BY <1>3 DEF PutBack, Waits, Handy
  <2>2. ~regrown
    BY <2>1, HeapAdd DEF Waits
  <2> QED
    BY <1>1, <1>3, <2>2, PutBackInTime DEF Timely, Punctual
<1>4. ASSUME CheckGet \/ CheckTake PROVE InTime'
  <2>1. ~regrown
    BY <1>4, HeapGet DEF CheckGet, CheckTake, Waits
  <2> QED
    BY <1>1, <1>4, <2>1, CheckGetInTime, CheckTakeInTime DEF Timely, Punctual
<1>5. ASSUME \/ Tick \/ Post \/ Hand \/ CheckPeek
             \/ CheckStart \/ CheckClock \/ Skip \/ CheckOut \/ UNCHANGED vars
             \/ \E t \in Timer : CreateTick(t) \/ Destroy(t) \/ Start(t) \/ Rearm(t) \/ Free(t)
      PROVE  InTime'
  <2>1. regrown' = regrown
    BY <1>5 DEF Tick, Post, Hand, CheckPeek, CheckStart, CheckClock, Skip, CheckOut, vars,
                CreateTick, Destroy, Start, Rearm, Free, heapVars
  <2>2. Timely
    BY <1>1, <2>1 DEF Timely, Punctual
  <2> QED
    BY <1>5, <2>2, TickInTime, PostInTime, HandInTime, CheckPeekInTime, CreateTickInTime,
       OthersInTime
<1> QED
  BY <1>2, <1>3, <1>4, <1>5 DEF Next, CheckStep, Handle

(* At the start no timer waits, so none is late.                           *)
LEMMA InitPunctual == Init => Punctual
<1> SUFFICES ASSUME Init PROVE InTime
  BY DEF Punctual
<1>1. /\ check = "idle" /\ minTick = 0
      /\ \A t \in Timer : phase[t] = "unborn"
  BY DEF Init
<1>2. NoneDue
  BY <1>1 DEF NoneDue
<1> QED
  BY <1>1, <1>2 DEF InTime, Overdue

(* Punctual is inductive together with Waits and Paced.                    *)
THEOREM AlwaysPunctual == Spec => []Punctual
<1>1. Init => Punctual
  BY InitPunctual
<1>2. Waits /\ (Paced /\ Aimed) /\ Punctual /\ [Next]_vars => Punctual'
  BY StepPunctual
<1> QED
  BY <1>1, <1>2, AlwaysWaits, AlwaysPaced, PTL DEF Spec

(* A program that does the work of each second within it drops no timer,   *)
(* and it is late with none while the heap has been in order.              *)
THEOREM NoneIsLate == Spec => []OnTime
<1>1. (Paced /\ Aimed) /\ Punctual => OnTime
  BY DEF Aimed, Punctual, OnTime, NeverDropped, InTime
<1> QED
  BY <1>1, AlwaysPaced, AlwaysPunctual, PTL

(* With up to three timers the heap is always in order, so nothing but the *)
(* program's promptness is asked for.                                      *)
THEOREM ThreeAreOnTime ==
    ASSUME Cardinality(Timer) <= 3
    PROVE  Spec => [](prompt => NeverDropped /\ \A t \in Timer : ~Overdue(t))
<1>1. Waits => ~regrown
  <2> SUFFICES ASSUME Waits, regrown PROVE FALSE
    OBVIOUS
  <2>1. Cardinality(Timer) > 3
    BY HeapTop DEF Waits
  <2>2. Cardinality(Timer) \in Nat
    BY TimerAssumption, FS_CardinalityType
  <2> QED
    BY <2>1, <2>2
<1>2. OnTime /\ ~regrown => (prompt => NeverDropped /\ \A t \in Timer : ~Overdue(t))
  BY DEF OnTime
<1> QED
  BY <1>1, <1>2, AlwaysWaits, NoneIsLate, PTL
=============================================================================

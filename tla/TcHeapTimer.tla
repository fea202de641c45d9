---------------------------- MODULE TcHeapTimer ----------------------------
(***************************************************************************)
(* The timers of libtc (test_client/tc_heap_timer.c).  Timers wait in the  *)
(* heap of TcHeap, ordered by the tick at which they are due.  A count     *)
(* thread advances the tick every second and posts a check, unless one is  *)
(* still going on; a check thread takes the timers at the top of the heap  *)
(* that are due and posts them to a pool of handler threads; a handler     *)
(* runs the timer's function and frees the timer or puts it back.          *)
(*                                                                         *)
(* Ticks are kept relative to the present one: tick[t] = 2 says that t is  *)
(* due in two seconds, tick[t] = -1 that it has been due for one.  The     *)
(* pools that carry checks and timers keep the promise of TcWorkPool; here *)
(* a posted node is in a set until a thread of the pool takes it.          *)
(***************************************************************************)
EXTENDS Integers, Sequences, FiniteSets, Functions

CONSTANTS
    Timer,      \* the timers that are ever created
    Sec,        \* timer_sec of each
    Once,       \* those created with TC_HEAP_TIMER_FLAG_INSTANT
    NoTimer,    \* (unsigned long)-1, or no timer
    MaxNode,    \* bound: heap nodes
    MaxLate,    \* bound: how many seconds a timer may be overdue
    Promptness  \* the assumptions of a run: see prompt

ASSUME TimerAssumption ==
    /\ IsFiniteSet(Timer)
    /\ Sec \in [Timer -> Nat \ {0}]
    /\ Once \subseteq Timer
    /\ NoTimer \notin Timer
    /\ MaxNode \in Nat \ {0}
    /\ MaxLate \in Nat
    /\ Promptness \subseteq BOOLEAN

VARIABLES
    tick,       \* when each timer is due, relative to timer_tick.count
    allocated, data, parent, left, right, prev, queue, last, inside, regrown, freed,
                \* the heap of TcHeap
    phase,      \* where each timer is, but for the heap and the check thread
    status,     \* whether it is marked TC_HEAP_TIMER_STATUS_RUNNING
    once,       \* whether its timer_flag is TC_HEAP_TIMER_FLAG_INSTANT
    counter,    \* the count thread: asleep, or about to post a check
    posted,     \* the check nodes in the check pool
    checking,   \* check_status = RUNNING
    check,      \* where the check thread is
    cur,        \* its timer_node
    minTick,    \* its min_tick
    now,        \* its tick
    dropped,    \* history: a timer was taken out of the heap and dropped
    rest,       \* history, if prompt: the seconds before t may be handled (again)
    prompt      \* assumption: the work a tick causes is done before the next

Heap == INSTANCE TcHeap WITH
            Item <- Timer, Rank <- Int, NoItem <- NoTimer, key <- tick

heapVars == <<allocated, data, parent, left, right, prev, queue, last, inside, regrown, freed>>
jobVars   == <<phase, status, once>>
countVars == <<counter, posted>>
checkVars == <<check, cur, minTick, now>>
vars == <<tick, heapVars, jobVars, countVars, checking, checkVars, dropped, rest, prompt>>

Init ==
    /\ Heap!Create
    /\ tick = [t \in Timer |-> 0]
    /\ phase = [t \in Timer |-> "unborn"]
    /\ status = [t \in Timer |-> FALSE]
    /\ once = [t \in Timer |-> t \in Once]
    /\ counter = "asleep"
    /\ posted = 0
    /\ checking = FALSE
    /\ check = "idle"
    /\ cur = NoTimer
    /\ minTick = 0
    /\ now = 0
    /\ dropped = FALSE
    /\ rest = Sec
    /\ prompt \in Promptness

-----------------------------------------------------------------------------
(* tc_heap_timer_create, by any thread: the tick is fixed under the lock   *)
(* of the tick, then the timer enters the heap under the heap's.           *)

CreateTick(t) ==
    /\ phase[t] = "unborn"
    /\ phase' = [phase EXCEPT ![t] = "born"]
    /\ tick' = [tick EXCEPT ![t] = Sec[t]]
    /\ UNCHANGED <<heapVars, status, once, countVars, checking, checkVars, dropped, rest, prompt>>

CreateAdd(t) ==
    /\ phase[t] = "born"
    /\ Heap!Add(t)
    /\ phase' = [phase EXCEPT ![t] = "waiting"]
    /\ UNCHANGED <<tick, status, once, countVars, checking, checkVars, dropped, rest, prompt>>

(* A plausible bug: the timer is made due at once where it is.             *)
DestroyNow(t) ==
    /\ phase[t] \notin {"unborn", "born", "freed"}
    /\ once' = [once EXCEPT ![t] = FALSE]
    /\ tick' = [tick EXCEPT ![t] = 0]
    /\ UNCHANGED <<heapVars, phase, status, countVars, checking, checkVars, dropped, rest, prompt>>

(* tc_heap_timer_destroy overwrites the flag, without a lock; its caller   *)
(* has the timer's address and must know that it was not freed.  The value *)
(* is neither INSTANT nor looked for, so the timer goes on, and one that   *)
(* was to run once becomes a periodic one.                                 *)
Destroy(t) ==
    /\ phase[t] \notin {"unborn", "born", "freed"}
    /\ once' = [once EXCEPT ![t] = FALSE]
    /\ UNCHANGED <<tick, heapVars, phase, status, countVars, checking, checkVars, dropped, rest,
                   prompt>>

-----------------------------------------------------------------------------
(* tc_heap_timer_count: one second passes, then a check is posted unless   *)
(* the last one is not over.                                               *)

Busy ==
    \/ check # "idle" \/ posted > 0
    \/ \E t \in Timer : phase[t] \in {"born", "queued", "running", "rearmed"}

(* The check thread has taken t out of the heap and looks at it.           *)
InHand(t) == cur = t /\ check \in {"clock", "look"}

(* Nobody has the address of a timer that was dropped: its tick is counted *)
(* no more.                                                                *)
Pending ==
    {t \in Timer : /\ phase[t] \notin {"unborn", "freed"}
                   /\ phase[t] = "waiting" => t \in inside \/ InHand(t)}

Tick ==
    /\ counter = "asleep"
    /\ prompt => ~Busy
    /\ \A t \in Pending : tick[t] > -MaxLate
    /\ minTick > -MaxLate /\ now > -MaxLate
    /\ tick' = [t \in Timer |-> IF t \in Pending THEN tick[t] - 1 ELSE tick[t]]
    /\ minTick' = IF check = "idle" THEN 0 ELSE minTick - 1
    /\ now' = IF check = "idle" THEN 0 ELSE now - 1
    /\ rest' = [t \in Timer |->
                    IF prompt /\ t \in Pending /\ rest[t] > 0 THEN rest[t] - 1 ELSE rest[t]]
    /\ counter' = "post"
    /\ UNCHANGED <<heapVars, jobVars, posted, checking, check, cur, dropped, prompt>>

Post ==
    /\ counter = "post"
    /\ counter' = "asleep"
    /\ posted' = IF checking THEN posted ELSE posted + 1
    /\ checking' = TRUE
    /\ UNCHANGED <<tick, heapVars, jobVars, checkVars, dropped, rest, prompt>>

-----------------------------------------------------------------------------
(* tc_heap_timer_check.                                                    *)

Top == data[Heap!Root]

(* A plausible bug: a check thread that wakes up does not look for a node. *)
CheckUnasked ==
    /\ check = "idle"
    /\ posted' = posted - 1
    /\ check' = "get"
    /\ UNCHANGED <<tick, heapVars, jobVars, counter, checking, cur, minTick, now, dropped, rest,
                   prompt>>

CheckStart ==
    /\ check = "idle"
    /\ posted > 0
    /\ posted' = posted - 1
    /\ check' = "get"
    /\ UNCHANGED <<tick, heapVars, jobVars, counter, checking, cur, minTick, now, dropped, rest,
                   prompt>>

(* The first timer is taken, whatever its tick.                            *)
CheckGet ==
    /\ check = "get"
    /\ Heap!Get
    /\ cur' = Top
    /\ check' = IF Top = NoTimer THEN "out" ELSE "clock"
    /\ minTick' = IF Top = NoTimer THEN 0 ELSE tick[Top]
    /\ UNCHANGED <<tick, jobVars, countVars, checking, now, dropped, rest, prompt>>

CheckClock ==
    /\ check = "clock"
    /\ now' = 0
    /\ check' = "look"
    /\ UNCHANGED <<tick, heapVars, jobVars, countVars, checking, cur, minTick, dropped, rest,
                   prompt>>

(* A plausible bug: a second is given away.                                *)
DueSoon(t) == now >= tick[t] - 1

Due(t) == now >= tick[t]

(* A timer that a handler has already is passed over.                      *)
Skip ==
    /\ check = "look"
    /\ status[cur]
    /\ check' = "peek"
    /\ UNCHANGED <<tick, heapVars, jobVars, countVars, checking, cur, minTick, now, dropped, rest,
                   prompt>>

(* A due timer is marked, its tick set to the present, and posted, be it   *)
(* in the heap or not.  That one is posted which a handler is just putting *)
(* back (its status is not RUNNING any more) is not followed here.         *)
Hand ==
    /\ check = "look"
    /\ ~status[cur] /\ Due(cur)
    /\ phase[cur] = "waiting"
    /\ status' = [status EXCEPT ![cur] = TRUE]
    /\ tick' = [tick EXCEPT ![cur] = now]
    /\ phase' = [phase EXCEPT ![cur] = "queued"]
    /\ rest' = [rest EXCEPT ![cur] = Sec[cur]]
    /\ check' = "peek"
    /\ UNCHANGED <<heapVars, once, countVars, checking, cur, minTick, now, dropped, prompt>>

(* A plausible bug: the timer that was not due is not put back.            *)
PutBackForgotten ==
    /\ check = "look"
    /\ ~status[cur] /\ ~Due(cur)
    /\ check' = "out"
    /\ UNCHANGED <<tick, heapVars, jobVars, countVars, checking, cur, minTick, now, dropped, rest,
                   prompt>>

PutBack ==
    /\ check = "look"
    /\ ~status[cur] /\ ~Due(cur)
    /\ Heap!Add(cur)
    /\ check' = "out"
    /\ UNCHANGED <<tick, jobVars, countVars, checking, cur, minTick, now, dropped, rest, prompt>>

(* A plausible bug: one timer is handled in a second.                      *)
PeekNone ==
    /\ check = "peek"
    /\ check' = "out"
    /\ UNCHANGED <<tick, heapVars, jobVars, countVars, checking, cur, minTick, now, dropped, rest,
                   prompt>>

(* The next timer is looked at, and one is taken in a step of its own if   *)
(* that one is due at the very tick of the first.  If another has risen to *)
(* the top in between, it is taken and dropped, and the check goes on with *)
(* the timer it peeked at, which is still in the heap.                     *)
CheckPeek ==
    /\ check = "peek"
    /\ IF Top = NoTimer \/ tick[Top] # minTick
       THEN /\ check' = "out"
            /\ UNCHANGED cur
       ELSE /\ check' = "take"
            /\ cur' = Top
    /\ UNCHANGED <<tick, heapVars, jobVars, countVars, checking, minTick, now, dropped, rest,
                   prompt>>

CheckTake ==
    /\ check = "take"
    /\ Heap!Get
    /\ check' = "look"
    /\ dropped' = (dropped \/ Top # cur)
    /\ UNCHANGED <<tick, jobVars, countVars, checking, cur, minTick, now, rest, prompt>>

(* A plausible bug: the check is not reported as over.                     *)
CheckOutSilently ==
    /\ check = "out"
    /\ check' = "idle"
    /\ cur' = NoTimer
    /\ minTick' = 0
    /\ now' = 0
    /\ UNCHANGED <<tick, heapVars, jobVars, countVars, checking, dropped, rest, prompt>>

CheckOut ==
    /\ check = "out"
    /\ checking' = FALSE
    /\ check' = "idle"
    /\ cur' = NoTimer
    /\ minTick' = 0
    /\ now' = 0
    /\ UNCHANGED <<tick, heapVars, jobVars, countVars, dropped, rest, prompt>>

CheckStep ==
    \/ CheckStart \/ CheckGet \/ CheckClock \/ Skip \/ Hand \/ PutBack
    \/ CheckPeek \/ CheckTake \/ CheckOut

-----------------------------------------------------------------------------
(* tc_heap_timer_handle, in one of the handler threads.  After a drop the  *)
(* timer may still be in the heap.  A handler that frees it then, or adds  *)
(* it a second time (as the check thread may, in PutBack), is not followed *)
(* beyond that point: only one that comes there after the check thread has *)
(* taken the timer out of the heap.                                        *)

Start(t) ==
    /\ phase[t] = "queued"
    /\ phase' = [phase EXCEPT ![t] = "running"]
    /\ UNCHANGED <<tick, heapVars, status, once, countVars, checking, checkVars, dropped, rest,
                   prompt>>

(* The function failed or the timer was for once: it is freed.             *)
Free(t) ==
    /\ phase[t] = "running"
    /\ t \notin inside
    /\ phase' = [phase EXCEPT ![t] = "freed"]
    /\ UNCHANGED <<tick, heapVars, status, once, countVars, checking, checkVars, dropped, rest,
                   prompt>>

(* Otherwise it gets its next tick ...                                     *)
Rearm(t) ==
    /\ phase[t] = "running"
    /\ ~once[t]
    /\ phase' = [phase EXCEPT ![t] = "rearmed"]
    /\ tick' = [tick EXCEPT ![t] = @ + Sec[t]]
    /\ status' = [status EXCEPT ![t] = FALSE]
    /\ UNCHANGED <<heapVars, once, countVars, checking, checkVars, dropped, rest, prompt>>

(* ... and returns to the heap.                                            *)
Return(t) ==
    /\ phase[t] = "rearmed"
    /\ Heap!Add(t)
    /\ phase' = [phase EXCEPT ![t] = "waiting"]
    /\ UNCHANGED <<tick, status, once, countVars, checking, checkVars, dropped, rest, prompt>>

Handle(t) == Start(t) \/ Rearm(t) \/ Return(t)

-----------------------------------------------------------------------------
Next ==
    \/ \E t \in Timer : CreateTick(t) \/ CreateAdd(t) \/ Destroy(t)
    \/ Tick \/ Post
    \/ CheckStep
    \/ \E t \in Timer : Handle(t) \/ Free(t)

Spec == Init /\ [][Next]_vars

(* The three kinds of threads are scheduled, a second ends, and a timer's  *)
(* function returns (unless the timer is freed, it succeeds).              *)
Fairness ==
    /\ WF_vars(Tick) /\ WF_vars(Post) /\ WF_vars(CheckStep)
    /\ \A t \in Timer : /\ WF_vars(CreateAdd(t))
                        /\ WF_vars(Handle(t) \/ (once[t] /\ Free(t)))

FairSpec == Spec /\ Fairness

-----------------------------------------------------------------------------
TypeOK ==
    /\ tick \in [Timer -> Int]
    /\ phase \in [Timer -> {"unborn", "born", "waiting", "queued", "running", "rearmed", "freed"}]
    /\ status \in [Timer -> BOOLEAN]
    /\ once \in [Timer -> BOOLEAN]
    /\ counter \in {"asleep", "post"}
    /\ posted \in Nat
    /\ checking \in BOOLEAN
    /\ check \in {"idle", "get", "clock", "look", "peek", "take", "out"}
    /\ cur \in Timer \cup {NoTimer}
    /\ minTick \in Int /\ now \in Int
    /\ dropped \in BOOLEAN
    /\ rest \in [Timer -> Nat]
    /\ posted + (IF check = "idle" THEN 0 ELSE 1) = (IF checking THEN 1 ELSE 0)

(* No timer is lost and none is handled twice: a timer that waits is in    *)
(* the heap or in the check thread's hands and is not marked as running,   *)
(* and any other timer is in neither -- until one is dropped.              *)
WaitsOnce ==
    ~dropped => \A t \in Timer :
        IF phase[t] = "waiting"
        THEN (t \in inside) # InHand(t) /\ ~status[t]
        ELSE t \notin inside /\ ~InHand(t)

(* The heap compares timers by ticks that the threads change: a tick does  *)
(* not change, against the others', while its timer is in the heap.  Once  *)
(* a timer has been dropped it may: the check thread and a handler write   *)
(* the tick of the one that was peeked at and is still in the heap.        *)
KeysFrozen ==
    [][~dropped => \A t, u \in inside \cap inside' : tick'[t] - tick'[u] = tick[t] - tick[u]]_vars

(* A timer is never handled before its seconds are over, nor a periodic    *)
(* one again before they are over again, as long as checks keep up.        *)
NeverEarly ==
    [][prompt => \A t \in Timer :
            phase[t] = "waiting" /\ phase'[t] = "queued" => rest[t] = 0]_vars

(* The comment beside timer_flag says that a timer persists or runs only   *)
(* once: no timer is ever taken out of the heap and dropped, that is, the  *)
(* timer the check thread takes is the one that it peeked at.  It holds if *)
(* the work of each second is done within that second, and not otherwise:  *)
(* a handler or a creator may put a timer on top between the two.          *)
NeverDropped == ~dropped

(* So the finding is confined to programs that are late with a second's    *)
(* work.  If the work of a second is done within it, nothing is dropped,   *)
(* and every second finds all the timers that were due in the ones before  *)
(* handled -- as long as the heap keeps its order, which it always does    *)
(* among up to three timers.                                               *)
Overdue(t) == phase[t] = "waiting" /\ tick[t] < 0
OnTime == prompt => NeverDropped /\ (~regrown => \A t \in Timer : ~Overdue(t))

(* Under the same assumption every periodic timer that waits is handled in *)
(* the end.                                                                *)
EveryTimerIsHandled ==
    \A t \in Timer \ Once : (prompt /\ phase[t] = "waiting") ~> (phase[t] = "running")
=============================================================================

----------------------------- MODULE TcProgram -----------------------------
(***************************************************************************)
(* The life of a program built on libtc: main (test_client/tc_client.c)    *)
(* runs the registered init functions (tc_init_module.c), first those of   *)
(* the library, then those of the user's modules; then the event loop      *)
(* (tc_epoll.c), then the uninit functions.  One of the library's init     *)
(* functions starts the tick, one of the user's sets the duration that the *)
(* loop compares it with; an init function that fails keeps those after it *)
(* in its list from being called.  SIGINT and SIGTERM may come at any      *)
(* moment, to the main thread, which they interrupt, or to one of the      *)
(* pool's threads; their handler (tc_signal.c) shuts the program down      *)
(* itself as long as main has not finished the init functions, and         *)
(* otherwise leaves it to epoll_wait, which an interrupt ends.             *)
(***************************************************************************)
EXTENDS Integers, Sequences

CONSTANTS
    Signal,    \* the signals that are sent, each once
    NLocal,    \* the number of the library's init functions (local_init_list)
    Timer,     \* the place of tc_heap_timer_setup among them
    NInit,     \* the number of the user's init functions (init_list)
    None       \* nobody holds the mutex

ASSUME ProgramAssumption ==
    /\ NLocal \in Nat \ {0} /\ Timer \in 1 .. NLocal
    /\ NInit \in Nat \ {0}
    /\ "main" \notin Signal /\ None \notin Signal \union {"main"}

Actor  == Signal \union {"main"}
Uninit == {"signal", "epoll", "thread"}   \* tc_signal_uninit and the like
Mutex  == {"mod", "signal", "uninit"}     \* mod->mutex, global_signal_data.mutex,
                                          \*   mod->uninit_mutex

VARIABLES
    order,       \* uninit_list: the order of the constructors
    process,     \* up, ended, or crashed
    pc,          \* where main and each signal's handler are
    host,        \* the thread that runs the handler: none yet, main or other
    stack,       \* the handlers that have interrupted main, the last one runs
    lock,        \* who holds each mutex
    walk,        \* how far each has come in the list of uninit functions
    locals,      \* the library's init functions called
    inits,       \* the user's init functions called
    calls,       \* how often each uninit function was called
    initFlag, uninitFlag, signalFlag, exitFlag,
    ticking,     \* the count thread counts
    timed,       \* the duration is not 0
    expired,     \* the tick has passed any duration
    interrupted, \* epoll_wait is going to return EINTR
    early        \* history: the signals that tc_init_test let through

flags == <<initFlag, uninitFlag, signalFlag, exitFlag>>
signalVars == <<host, stack, interrupted, early>>
setupVars == <<locals, inits, ticking, timed>>
walkVars == <<walk, calls, setupVars>>
vars == <<order, process, pc, lock, signalVars, walkVars, flags, expired>>

Init ==
    /\ order \in {o \in [1 .. 3 -> Uninit] : \A i, j \in 1 .. 3 : o[i] = o[j] => i = j}
    /\ process = "up"
    /\ pc = [a \in Actor |-> IF a = "main" THEN "start" ELSE "none"]
    /\ host = [s \in Signal |-> "none"]
    /\ stack = <<>>
    /\ lock = [m \in Mutex |-> None]
    /\ walk = [a \in Actor |-> 0]
    /\ locals = 0 /\ inits = 0 /\ ticking = FALSE /\ timed = FALSE
    /\ calls = [u \in Uninit |-> 0]
    /\ initFlag = FALSE /\ uninitFlag = FALSE /\ signalFlag = FALSE /\ exitFlag = FALSE
    /\ expired = FALSE /\ interrupted = FALSE
    /\ early = {}

-----------------------------------------------------------------------------
(* A handler that interrupted main keeps it, and the handlers it in turn   *)
(* interrupted, from running.                                              *)
Top == IF stack = <<>> THEN "main" ELSE stack[Len(stack)]

At(a, label) ==
    /\ process = "up"
    /\ pc[a] = label
    /\ IF a = "main" \/ host[a] = "main" THEN Top = a ELSE TRUE

GoTo(a, label) == pc' = [pc EXCEPT ![a] = label]

Lock(a, m) == lock[m] = None /\ lock' = [lock EXCEPT ![m] = a]
Unlock(m)  == lock' = [lock EXCEPT ![m] = None]

-----------------------------------------------------------------------------
(* tc_init_module_init.                                                    *)
InitLock ==
    /\ At("main", "start") /\ Lock("main", "mod") /\ GoTo("main", "test")
    /\ UNCHANGED <<order, process, signalVars, walkVars, flags, expired>>

InitTest ==
    /\ At("main", "test") /\ Unlock("mod") /\ GoTo("main", "local")
    /\ UNCHANGED <<order, process, signalVars, walkVars, flags, expired>>

(* An init function that fails ends the walk of its list, and nobody is    *)
(* told; the other list is walked all the same.  tc_heap_timer_setup       *)
(* starts the tick as the last thing it does.                              *)
LocalCall(ok) ==
    /\ At("main", "local")
    /\ locals' = locals + 1
    /\ ticking' = (ticking \/ (ok /\ locals' = Timer))
    /\ GoTo("main", IF ok /\ locals' < NLocal THEN "local" ELSE "init")
    /\ UNCHANGED <<order, process, lock, signalVars, walk, calls, inits, timed, flags, expired>>

(* A plausible bug: the walk goes beyond the last function.                *)
InitCallOver(ok, sets) ==
    /\ At("main", "init")
    /\ inits' = inits + 1
    /\ timed' = (timed \/ sets)
    /\ GoTo("main", IF ok /\ inits' <= NInit THEN "init" ELSE "setLock")
    /\ UNCHANGED <<order, process, lock, signalVars, walk, calls, locals, ticking, flags, expired>>

(* A user's init function sets the duration if it calls                    *)
(* tc_link_create_start and that could create its pool, and whatever       *)
(* becomes of the rest of it; the configured duration may be 0.            *)
InitCall(ok, sets) ==
    /\ At("main", "init")
    /\ inits' = inits + 1
    /\ timed' = (timed \/ sets)
    /\ GoTo("main", IF ok /\ inits' < NInit THEN "init" ELSE "setLock")
    /\ UNCHANGED <<order, process, lock, signalVars, walk, calls, locals, ticking, flags, expired>>

SetLock ==
    /\ At("main", "setLock") /\ Lock("main", "mod") /\ GoTo("main", "set")
    /\ UNCHANGED <<order, process, signalVars, walkVars, flags, expired>>

SetFlag ==
    /\ At("main", "set") /\ Unlock("mod") /\ GoTo("main", "wait")
    /\ initFlag' = TRUE
    /\ UNCHANGED <<order, process, signalVars, walkVars, uninitFlag, signalFlag, exitFlag,
                   expired>>

-----------------------------------------------------------------------------
(* tc_epoll_start.  epoll_wait returns within a second; when a signal came *)
(* in the meantime the loop ends, and when the descriptor was closed the   *)
(* program panics.                                                         *)
WaitPanic ==
    /\ At("main", "wait") /\ calls["epoll"] > 0
    /\ process' = "crashed"
    /\ UNCHANGED <<order, pc, lock, signalVars, walkVars, flags, expired>>

WaitInterrupted ==
    /\ At("main", "wait") /\ interrupted
    /\ GoTo("main", "uninit")
    /\ UNCHANGED <<order, process, lock, signalVars, walkVars, flags, expired>>

WaitReturn ==
    /\ At("main", "wait") /\ calls["epoll"] = 0 /\ ~interrupted
    /\ GoTo("main", "body")
    /\ UNCHANGED <<order, process, lock, signalVars, walkVars, flags, expired>>

(* tc_thread_exit_wait walks over the pools to wake them.  After           *)
(* tc_thread_uninit it would do so through a null pointer.                 *)
ExitWait(a, next) ==
    IF calls["thread"] > 0
    THEN process' = "crashed" /\ UNCHANGED <<pc, exitFlag>>
    ELSE GoTo(a, next) /\ exitFlag' = TRUE /\ UNCHANGED process

(* A program without a duration, or without a tick, goes on for ever.      *)
TimeIsOver == timed /\ expired


(* tc_epoll_check_duration, then the events, if there are any: before each *)
(* of them the exit flag is tested.                                        *)
LoopExpired ==
    /\ At("main", "body") /\ TimeIsOver
    /\ ExitWait("main", "uninit")
    /\ UNCHANGED <<order, lock, signalVars, walkVars, initFlag, uninitFlag, signalFlag, expired>>

LoopExit ==
    /\ At("main", "body") /\ ~TimeIsOver /\ exitFlag
    /\ GoTo("main", "uninit")
    /\ UNCHANGED <<order, process, lock, signalVars, walkVars, flags, expired>>

LoopAgain ==
    /\ At("main", "body") /\ ~TimeIsOver
    /\ GoTo("main", "wait")
    /\ UNCHANGED <<order, process, lock, signalVars, walkVars, flags, expired>>

MainStep ==
    \/ InitLock \/ InitTest \/ SetLock \/ SetFlag
    \/ \E ok \in BOOLEAN : LocalCall(ok) \/ \E sets \in BOOLEAN : InitCall(ok, sets)
    \/ WaitPanic \/ WaitInterrupted \/ WaitReturn
    \/ LoopExpired \/ LoopExit \/ LoopAgain

-----------------------------------------------------------------------------
(* tc_init_module_uninit, by main or by a handler.  The flag is read under *)
(* the mutex and set after it was let go.                                  *)
UninitLock(a) ==
    /\ At(a, "uninit") /\ Lock(a, "mod") /\ GoTo(a, "uninitTest")
    /\ UNCHANGED <<order, process, signalVars, walkVars, flags, expired>>

UninitTest(a) ==
    /\ At(a, "uninitTest") /\ Unlock("mod")
    /\ GoTo(a, IF uninitFlag THEN "out" ELSE "uninitSet")
    /\ UNCHANGED <<order, process, signalVars, walkVars, flags, expired>>

(* A plausible bug: the flag is not set.                                   *)
UninitSetNot(a) ==
    /\ At(a, "uninitSet") /\ GoTo(a, "exitWait")
    /\ UNCHANGED <<order, process, lock, signalVars, walkVars, flags, expired>>

UninitSet(a) ==
    /\ At(a, "uninitSet") /\ GoTo(a, "exitWait")
    /\ uninitFlag' = TRUE
    /\ UNCHANGED <<order, process, lock, signalVars, walkVars, initFlag, signalFlag, exitFlag,
                   expired>>

UninitExitWait(a) ==
    /\ At(a, "exitWait") /\ ExitWait(a, "walkLock")
    /\ UNCHANGED <<order, lock, signalVars, walkVars, initFlag, uninitFlag, signalFlag, expired>>

WalkLock(a) ==
    /\ At(a, "walkLock") /\ Lock(a, "uninit") /\ GoTo(a, "walk")
    /\ walk' = [walk EXCEPT ![a] = 1]
    /\ UNCHANGED <<order, process, signalVars, calls, setupVars, flags, expired>>

(* An uninit function that fails ends the walk.  tc_signal_uninit, which   *)
(* takes the mutex of the signal flag, has no return statement: its result *)
(* is either.                                                              *)
WalkCall(a, ok) ==
    LET u == order[walk[a]]
    IN  /\ At(a, "walk")
        /\ u = "signal" => lock["signal"] = None
        /\ calls' = [calls EXCEPT ![u] = @ + 1]
        /\ signalFlag' = (signalFlag \/ u = "signal")
        /\ IF ok /\ walk[a] < 3
           THEN walk' = [walk EXCEPT ![a] = @ + 1] /\ UNCHANGED <<pc, lock>>
           ELSE GoTo(a, "out") /\ Unlock("uninit") /\ UNCHANGED walk
        /\ UNCHANGED <<order, process, signalVars, setupVars, initFlag, uninitFlag, exitFlag,
                       expired>>

UninitStep(a) ==
    \/ UninitLock(a) \/ UninitTest(a) \/ UninitSet(a) \/ UninitExitWait(a)
    \/ WalkLock(a) \/ \E ok \in BOOLEAN : WalkCall(a, ok)

(* main returns, which ends the process whatever its threads are doing.    *)
End ==
    /\ At("main", "out")
    /\ process' = "ended"
    /\ UNCHANGED <<order, pc, lock, signalVars, walkVars, flags, expired>>

-----------------------------------------------------------------------------
(* A signal comes: to main, whose epoll_wait it interrupts if main is in   *)
(* it, or to a thread that one of the library's init functions has created.*)
DeliverMain(s) ==
    /\ process = "up" /\ host[s] = "none"
    /\ host' = [host EXCEPT ![s] = "main"]
    /\ stack' = Append(stack, s)
    /\ interrupted' = (interrupted \/ (Top = "main" /\ pc["main"] = "wait"))
    /\ GoTo(s, "initTest")
    /\ UNCHANGED <<order, process, lock, early, walkVars, flags, expired>>

DeliverOther(s) ==
    /\ process = "up" /\ host[s] = "none" /\ locals > 0
    /\ host' = [host EXCEPT ![s] = "other"]
    /\ GoTo(s, "initTest")
    /\ UNCHANGED <<order, process, lock, stack, interrupted, early, walkVars, flags, expired>>

(* tc_signal_handle: tc_init_test, then the test and setting of the signal *)
(* flag under its mutex, then tc_uninit.                                   *)
HandleInitLock(s) ==
    /\ At(s, "initTest") /\ Lock(s, "mod") /\ GoTo(s, "initTested")
    /\ UNCHANGED <<order, process, signalVars, walkVars, flags, expired>>

(* A plausible bug: the program is shut down once it is initialised.       *)
HandleInitTestReversed(s) ==
    /\ At(s, "initTested") /\ Unlock("mod")
    /\ GoTo(s, IF ~initFlag THEN "out" ELSE "signalLock")
    /\ UNCHANGED <<order, process, signalVars, walkVars, flags, expired>>

HandleInitTest(s) ==
    /\ At(s, "initTested") /\ Unlock("mod")
    /\ GoTo(s, IF initFlag THEN "out" ELSE "signalLock")
    /\ early' = IF initFlag THEN early ELSE early \union {s}
    /\ UNCHANGED <<order, process, host, stack, interrupted, walkVars, flags, expired>>

HandleSignalLock(s) ==
    /\ At(s, "signalLock") /\ Lock(s, "signal") /\ GoTo(s, "signalTest")
    /\ UNCHANGED <<order, process, signalVars, walkVars, flags, expired>>

HandleSignal(s) ==
    /\ At(s, "signalTest") /\ Unlock("signal")
    /\ GoTo(s, IF signalFlag THEN "out" ELSE "uninit")
    /\ signalFlag' = TRUE
    /\ UNCHANGED <<order, process, signalVars, walkVars, initFlag, uninitFlag, exitFlag, expired>>

HandleReturn(s) ==
    /\ At(s, "out") /\ GoTo(s, "done")
    /\ stack' = IF host[s] = "main" THEN SubSeq(stack, 1, Len(stack) - 1) ELSE stack
    /\ UNCHANGED <<order, process, lock, host, interrupted, early, walkVars, flags, expired>>

HandleStep(s) ==
    \/ HandleInitLock(s) \/ HandleInitTest(s)
    \/ HandleSignalLock(s) \/ HandleSignal(s) \/ HandleReturn(s)

(* The count thread adds to the tick, from when tc_heap_timer_setup has    *)
(* started it and until it finds the exit flag.                            *)
Tick ==
    /\ process = "up" /\ ticking
    /\ ~exitFlag /\ ~expired
    /\ expired' = TRUE
    /\ UNCHANGED <<order, process, pc, lock, signalVars, walkVars, flags>>

-----------------------------------------------------------------------------
Next ==
    \/ MainStep \/ End \/ Tick
    \/ \E a \in Actor : UninitStep(a)
    \/ \E s \in Signal : DeliverMain(s) \/ DeliverOther(s) \/ HandleStep(s)

Spec == Init /\ [][Next]_vars

(* Threads run; nobody has to send a signal.  The tick goes on while main  *)
(* is in the loop.                                                         *)
Fairness ==
    /\ WF_vars(MainStep \/ End) /\ WF_vars(Tick)
    /\ \A a \in Actor : WF_vars(UninitStep(a))
    /\ \A s \in Signal : WF_vars(HandleStep(s))

FairSpec == Spec /\ Fairness

-----------------------------------------------------------------------------
(* Type invariant; the handlers on the stack are those that run on main.   *)
Label ==
    {"none", "start", "test", "local", "init", "setLock", "set", "wait", "body", "uninit",
     "uninitTest", "uninitSet", "exitWait", "walkLock", "walk", "out", "initTest", "initTested",
     "signalLock", "signalTest", "done"}

TypeOK ==
    /\ order \in [1 .. 3 -> Uninit]
    /\ process \in {"up", "ended", "crashed"}
    /\ pc \in [Actor -> Label]
    /\ host \in [Signal -> {"none", "main", "other"}]
    /\ stack \in Seq(Signal)
    /\ lock \in [Mutex -> Actor \union {None}]
    /\ walk \in [Actor -> 0 .. 3]
    /\ locals \in 0 .. NLocal /\ inits \in 0 .. NInit
    /\ ticking \in BOOLEAN /\ timed \in BOOLEAN
    /\ calls \in [Uninit -> Nat]
    /\ initFlag \in BOOLEAN /\ uninitFlag \in BOOLEAN
    /\ signalFlag \in BOOLEAN /\ exitFlag \in BOOLEAN
    /\ expired \in BOOLEAN /\ interrupted \in BOOLEAN
    /\ early \subseteq Signal
    /\ \A s \in Signal :
           (\E i \in 1 .. Len(stack) : stack[i] = s) <=> (host[s] = "main" /\ pc[s] # "done")

(* The signal flag admits one handler, and the uninit flag main or that    *)
(* handler: no uninit function is called twice, unless a pool thread ran a *)
(* handler that was admitted before the init functions had ended, and that *)
(* may have read the flag, and not set it yet, when main reads it.         *)
UninitOnce ==
    (\A u \in Uninit : calls[u] <= 1) \/ (\E s \in early : host[s] = "other")

(* Unless a signal came before the init functions had ended, the uninit    *)
(* functions are called by main, after them, after the loop, and after the *)
(* pool's threads were told to leave.                                      *)
OrderlyEnd ==
    (early = {} /\ \E u \in Uninit : calls[u] > 0) =>
        /\ initFlag /\ exitFlag
        /\ pc["main"] \in {"walk", "out"}

(* A handler that interrupted main waits for a mutex main, or a handler    *)
(* below it, holds.                                                        *)
OnMain(a) == a = "main" \/ (a \in Signal /\ host[a] = "main")
Stuck ==
    /\ stack # <<>>
    /\ \/ pc[Top] \in {"initTest", "uninit"} /\ OnMain(lock["mod"])
       \/ pc[Top] = "signalLock" /\ OnMain(lock["signal"])

(* A handler has shut the program down under main, but one of its uninit   *)
(* functions failed before tc_epoll_uninit: main stays in the loop, and    *)
(* the count thread, which was told to leave, ticks no more.               *)
Idles == exitFlag /\ calls["epoll"] = 0 /\ \A s \in Signal : pc[s] \in {"none", "done"}

=============================================================================

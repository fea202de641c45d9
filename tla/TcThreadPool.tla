---------------------------- MODULE TcThreadPool ----------------------------
(***************************************************************************)
(* The thread pool of libtc (test_client/tc_thread.c).  A pool ("group")   *)
(* has one master thread and, when its count exceeds one, that many member *)
(* threads.  Callers append list nodes to the group's list; the master     *)
(* takes them one at a time, runs tg_group_func on them if it is set, and  *)
(* hands them to the members, which run tg_execute_func.  One further      *)
(* actor is the main thread, which ends the program: tc_thread_exit_wait   *)
(* followed by tc_thread_uninit.                                           *)
(*                                                                         *)
(* Every thread sleeps on one list only: the master on tg_head, a member   *)
(* on its tm_head.  So a list is named by the thread that drains it, and   *)
(* threads are pairs: <<g, 0>> is the master of group g and <<g, i + 1>>   *)
(* the member the code calls tg_member[i].                                 *)
(***************************************************************************)
EXTENDS TcList, Naturals, FiniteSets

CONSTANTS
    NGroup,     \* how many pools the program creates (256 slots in the code)
    TgCount,    \* tg_count of each pool
    GroupFunc,  \* the pools whose tg_group_func is set
    ExecFunc,   \* the pools whose tg_execute_func is set
    Node,       \* the list nodes callers own and submit
    WaitSec,    \* the seconds tc_thread_exit_wait polls for (5 in the code)
    NoNode      \* "holds no node"

Group == 0 .. NGroup - 1

ASSUME PoolAssumption ==
    /\ NGroup \in Nat
    /\ TgCount \in [Group -> Nat]
    /\ WaitSec \in Nat
    /\ NoNode \notin Node
    /\ IsFiniteSet(Node)

Members(g) == IF TgCount[g] <= 1 THEN {} ELSE 1 .. TgCount[g]
Master(g)  == <<g, 0>>
Thread     == UNION {{g} \X ({0} \cup Members(g)) : g \in Group}

VARIABLES
    exit,       \* global_thread_exit
    num,        \* global_thread_num
    groupCount, \* global_thread_group_count
    creator,    \* how far tc_thread_pool_create has come with each pool
    nmemb,      \* the members it has started in each pool
    pc,         \* where each pool thread is
    list,       \* the list each pool thread drains
    held,       \* the node a pool thread has taken and not yet let go of
    rr,         \* the master's local variable count: the next member to serve
    outside,    \* nodes that belong to the callers
    leaked,     \* nodes a leaving thread dropped
    disposed,   \* nodes tc_thread_uninit detached and gave to tg_group_free
    order,      \* history: each pool's nodes in the order they were submitted,
                \*   kept until the exit is requested
    stage,      \* where the main thread is in the shutdown
    sec,        \* the seconds tc_thread_exit_wait has left
    cursor,     \* the next pool it broadcasts to
    limit,      \* the number of pools it read when it began
    todo,       \* the lists tc_thread_uninit has still to empty
    peeked,     \* the list it is at and the node it read before locking it
    stray,      \* history: the exit was tested by more than counted threads
    overrun     \* history: tc_thread_uninit began with a thread not gone

createVars == <<groupCount, creator, nmemb>>
nodeVars   == <<list, held, outside, leaked, disposed, order>>
mainVars   == <<exit, stage, sec, cursor, limit, todo, peeked, overrun>>
vars == <<num, createVars, pc, nodeVars, rr, mainVars, stray>>

OrderLess(g, n) == [order EXCEPT ![g] = Delete(@, n)]
Live    == {t \in Thread : pc[t] \notin {"unborn", "gone"}}
Spawned == {t \in Thread : pc[t] # "unborn"}

(* The threads tc_thread_start has counted: all that were started, but for *)
(* the newest one of a pool whose creator is between pthread_create and    *)
(* tc_thread_start.                                                        *)
Uncounted ==
    {Master(g) : g \in {h \in Group : creator[h] = "spawned"}}
        \cup {<<g, nmemb[g]>> : g \in {h \in Group : creator[h] = "mspawned"}}
Counted == Spawned \ Uncounted

(* tc_thread_uninit holds global_group_mutex; after it the process ends.   *)
GroupMutexFree == stage \notin {"uninit", "freeing"}
Running == stage # "done"

Init ==
    /\ exit = FALSE
    /\ num = 0
    /\ groupCount = 0
    /\ creator = [g \in Group |-> "none"]
    /\ nmemb = [g \in Group |-> 0]
    /\ pc = [t \in Thread |-> "unborn"]
    /\ list = [t \in Thread |-> <<>>]
    /\ held = [t \in Thread |-> NoNode]
    /\ rr = [g \in Group |-> 0]
    /\ outside = Node
    /\ leaked = {}
    /\ disposed = {}
    /\ order = [g \in Group |-> <<>>]
    /\ stage = "run"
    /\ sec = WaitSec
    /\ cursor = 0
    /\ limit = 0
    /\ todo = {}
    /\ peeked = <<>>
    /\ stray = FALSE
    /\ overrun = FALSE

-----------------------------------------------------------------------------
(* tc_thread_pool_create: the id is claimed under global_group_mutex, the  *)
(* master is started and then counted, and a pool of several threads goes  *)
(* on to start and count its members one by one.                           *)

Claim(g) ==
    /\ g = groupCount
    /\ Running /\ GroupMutexFree
    /\ groupCount' = groupCount + 1
    /\ creator' = [creator EXCEPT ![g] = "claimed"]
    /\ UNCHANGED <<num, nmemb, pc, nodeVars, rr, mainVars, stray>>

SpawnMaster(g) ==
    /\ Running
    /\ creator[g] = "claimed"
    /\ creator' = [creator EXCEPT ![g] = "spawned"]
    /\ pc' = [pc EXCEPT ![Master(g)] = "top"]
    /\ UNCHANGED <<num, groupCount, nmemb, nodeVars, rr, mainVars, stray>>

(* A plausible bug: the master of a pool is never counted.                 *)
CountMasterForgotten(g) ==
    /\ Running /\ GroupMutexFree
    /\ creator[g] = "spawned"
    /\ creator' = [creator EXCEPT ![g] = IF Members(g) = {} THEN "ready" ELSE "members"]
    /\ UNCHANGED <<num, groupCount, nmemb, pc, nodeVars, rr, mainVars, stray>>

CountMaster(g) ==
    /\ Running /\ GroupMutexFree
    /\ creator[g] = "spawned"
    /\ num' = num + 1
    /\ creator' = [creator EXCEPT ![g] = IF Members(g) = {} THEN "ready" ELSE "members"]
    /\ UNCHANGED <<groupCount, nmemb, pc, nodeVars, rr, mainVars, stray>>

SpawnMember(g) ==
    /\ Running
    /\ creator[g] = "members"
    /\ creator' = [creator EXCEPT ![g] = "mspawned"]
    /\ nmemb' = [nmemb EXCEPT ![g] = @ + 1]
    /\ pc' = [pc EXCEPT ![<<g, nmemb[g] + 1>>] = "top"]
    /\ UNCHANGED <<num, groupCount, nodeVars, rr, mainVars, stray>>

CountMember(g) ==
    /\ Running /\ GroupMutexFree
    /\ creator[g] = "mspawned"
    /\ num' = num + 1
    /\ creator' = [creator EXCEPT ![g] = IF nmemb[g] = TgCount[g] THEN "ready" ELSE "members"]
    /\ UNCHANGED <<groupCount, nmemb, pc, nodeVars, rr, mainVars, stray>>

CreateStep(g) ==
    SpawnMaster(g) \/ CountMaster(g) \/ SpawnMember(g) \/ CountMember(g)

-----------------------------------------------------------------------------
(* tc_thread_test_exit: once the exit flag is up EVERY call takes one off  *)
(* global_thread_num.                                                      *)
TestExitCount == IF exit /\ num > 0 THEN num - 1 ELSE num

(* A pool thread's two calls, at the top of its loop and after it took a   *)
(* node.  Leaving at the second one drops the node.                        *)
TestExitTop(t) ==
    /\ pc[t] = "top"
    /\ Running /\ (exit => GroupMutexFree)
    /\ num' = TestExitCount
    /\ pc' = [pc EXCEPT ![t] = IF exit THEN "gone" ELSE "take"]
    /\ stray' = (stray \/ (exit /\ t \in Uncounted))
    /\ UNCHANGED <<createVars, nodeVars, rr, mainVars>>

LeaveWithNode(t) ==
    /\ pc[t] = "took"
    /\ Running /\ exit /\ GroupMutexFree
    /\ num' = TestExitCount
    /\ pc' = [pc EXCEPT ![t] = "gone"]
    /\ held' = [held EXCEPT ![t] = NoNode]
    /\ leaked' = leaked \cup {held[t]}
    /\ stray' = (stray \/ t \in Uncounted)
    /\ UNCHANGED <<createVars, list, outside, disposed, order, rr, mainVars>>

(* The second test finds no exit: the thread goes on to its callback, or   *)
(* past it when the pool has none.                                         *)

(* A plausible bug: the second test is left out.                           *)
EnterUntested(t) ==
    /\ pc[t] = "took"
    /\ Running
    /\ pc' = [pc EXCEPT ![t] = "running"]
    /\ UNCHANGED <<num, createVars, nodeVars, rr, mainVars, stray>>

EnterCallback(t) ==
    /\ pc[t] = "took"
    /\ Running /\ ~exit
    /\ IF t[2] = 0
       THEN /\ pc' = [pc EXCEPT ![t] = IF t[1] \in GroupFunc THEN "running" ELSE "pass"]
            /\ UNCHANGED <<held, outside, order>>
       ELSE IF t[1] \in ExecFunc
       THEN /\ pc' = [pc EXCEPT ![t] = "running"]
            /\ UNCHANGED <<held, outside, order>>
       ELSE /\ pc' = [pc EXCEPT ![t] = "top"]
            /\ held' = [held EXCEPT ![t] = NoNode]
            /\ outside' = outside \cup {held[t]}
            /\ order' = OrderLess(t[1], held[t])
    /\ UNCHANGED <<num, createVars, list, leaked, disposed, rr, mainVars, stray>>

(* Callbacks and other threads test the exit too, and are counted down for *)
(* it: tc_epoll.c:157, tc_create.c:1268, tc_heap_timer.c:354 and 358,      *)
(* tc_timer.c:344 and 348, tc_transfer_proto_comm.c:278 and 333.           *)
OutsideTest ==
    /\ Running /\ exit /\ GroupMutexFree
    /\ num > 0
    /\ num' = TestExitCount
    /\ stray' = TRUE
    /\ UNCHANGED <<createVars, pc, nodeVars, rr, mainVars>>

-----------------------------------------------------------------------------
(* Taking a node: tc_get_thread_group_node and tc_get_thread_member_node.  *)

(* A plausible bug: the node is read and not removed from the list.        *)
PopNoDel(t) ==
    /\ list[t] # <<>>
    /\ held' = [held EXCEPT ![t] = Head(list[t])]
    /\ pc' = [pc EXCEPT ![t] = "took"]
    /\ UNCHANGED list

Pop(t) ==
    /\ list[t] # <<>>
    /\ held' = [held EXCEPT ![t] = Head(list[t])]
    /\ list' = [list EXCEPT ![t] = Tail(list[t])]
    /\ pc' = [pc EXCEPT ![t] = "took"]

PopOr(t, next) ==
    \/ Pop(t)
    \/ /\ list[t] = <<>>
       /\ pc' = [pc EXCEPT ![t] = next]
       /\ UNCHANGED <<held, list>>

(* The list is tried, and the thread waits on its condition if it is empty *)
(* (both under the list's mutex).                                          *)

(* A plausible bug: it waits without trying the list first.                *)
TakeBlind(t) ==
    /\ Running
    /\ pc[t] = "take"
    /\ pc' = [pc EXCEPT ![t] = "waiting"]
    /\ UNCHANGED <<num, createVars, nodeVars, rr, mainVars, stray>>

Take(t) ==
    /\ Running
    /\ pc[t] = "take"
    /\ PopOr(t, "waiting")
    /\ UNCHANGED <<num, createVars, outside, leaked, disposed, order, rr, mainVars, stray>>

(* A broadcast, or nothing at all, ends the wait; the list is tried again. *)
Resume(t) ==
    /\ Running
    /\ pc[t] = "signalled"
    /\ PopOr(t, "top")
    /\ UNCHANGED <<num, createVars, outside, leaked, disposed, order, rr, mainVars, stray>>

SpuriousWake(t) ==
    /\ Running
    /\ pc[t] = "waiting"
    /\ pc' = [pc EXCEPT ![t] = "signalled"]
    /\ UNCHANGED <<num, createVars, nodeVars, rr, mainVars, stray>>

(* The one second of pthread_cond_timedwait is over, perhaps with a        *)
(* broadcast just missed.  The master tries its list again, a member       *)
(* returns TC_TIMEOUT and leaves what is there to its next turn.           *)

(* A plausible bug: pthread_cond_wait for pthread_cond_timedwait.          *)
NoTimeout(t) == FALSE

Timeout(t) ==
    /\ Running
    /\ pc[t] \in {"waiting", "signalled"}
    /\ IF t[2] = 0
       THEN PopOr(t, "top")
       ELSE /\ pc' = [pc EXCEPT ![t] = "top"]
            /\ UNCHANGED <<held, list>>
    /\ UNCHANGED <<num, createVars, outside, leaked, disposed, order, rr, mainVars, stray>>

-----------------------------------------------------------------------------
(* Handing a node on: list_add_tail, then a broadcast that wakes the       *)
(* thread that waits on that list.                                         *)

(* A plausible bug: list_add for list_add_tail.                            *)
EnqueueAtHead(s, n) == <<n>> \o s

Enqueue(s, n) == Append(s, n)

WokenBy(p) == IF p = "waiting" THEN "signalled" ELSE p

(* tc_thread_pool_node_add, by the main thread or from inside a callback.  *)
Submit(g, n) ==
    /\ creator[g] = "ready"
    /\ n \in outside
    /\ Running
    /\ GroupMutexFree \/ \E t \in Thread : pc[t] = "running"
    /\ list' = [list EXCEPT ![Master(g)] = Enqueue(@, n)]
    /\ pc' = [pc EXCEPT ![Master(g)] = WokenBy(@)]
    /\ outside' = outside \ {n}
    /\ order' = IF exit THEN order ELSE [order EXCEPT ![g] = Append(@, n)]
    /\ UNCHANGED <<num, createVars, held, leaked, disposed, rr, mainVars, stray>>

(* The node goes back to its owner: a callback consumed it.                *)
LetGo(t) ==
    /\ pc' = [pc EXCEPT ![t] = "top"]
    /\ held' = [held EXCEPT ![t] = NoNode]
    /\ outside' = outside \cup {held[t]}
    /\ order' = OrderLess(t[1], held[t])

(* A member's callback returns, or the master's returns an error.          *)
Finish(t) ==
    /\ Running
    /\ pc[t] = "running"
    /\ LetGo(t)
    /\ UNCHANGED <<num, createVars, list, leaked, disposed, rr, mainVars, stray>>

(* The master's callback returns TC_OK.                                    *)
GroupFuncOk(t) ==
    /\ Running
    /\ pc[t] = "running"
    /\ t[2] = 0
    /\ pc' = [pc EXCEPT ![t] = "pass"]
    /\ UNCHANGED <<num, createVars, nodeVars, rr, mainVars, stray>>

(* The master's choice of the next member, with the loop's early break and *)
(* the two index corrections that follow it.                               *)

(* A plausible bug: the index corrections are left out.                    *)
RRNextNoWrap(c, n) == c + 1

RRNext(c, n) ==
    LET i == IF c + 1 = n \/ c = n THEN 1 ELSE c + 1
    IN  IF i = n THEN 0 ELSE i

PassOn(t) ==
    /\ Running
    /\ pc[t] = "pass"
    /\ LET g == t[1]
           m == <<g, rr[g] + 1>>
       IN  IF TgCount[g] <= 1
           THEN /\ LetGo(t)
                /\ UNCHANGED <<list, rr>>
           ELSE /\ list' = [list EXCEPT ![m] = Enqueue(@, held[t])]
                /\ pc' = [u \in Thread |-> IF u = t THEN "top"
                                           ELSE IF u = m THEN WokenBy(pc[u]) ELSE pc[u]]
                /\ held' = [held EXCEPT ![t] = NoNode]
                /\ rr' = [rr EXCEPT ![g] = RRNext(rr[g], TgCount[g])]
                /\ UNCHANGED <<outside, order>>
    /\ UNCHANGED <<num, createVars, leaked, disposed, mainVars, stray>>

-----------------------------------------------------------------------------
(* The main thread: tc_thread_exit_wait, then tc_thread_uninit, then the   *)
(* process ends.                                                           *)

ExitRequest ==
    /\ stage = "run"
    /\ exit' = TRUE
    /\ limit' = groupCount
    /\ stage' = "broadcast"
    /\ order' = [g \in Group |-> <<>>]
    /\ UNCHANGED <<num, createVars, pc, list, held, outside, leaked, disposed, rr, sec, cursor,
                   todo, peeked, overrun, stray>>

(* The masters are signalled without their mutex, the members not at all.  *)
Broadcast ==
    /\ stage = "broadcast"
    /\ IF cursor < limit
       THEN /\ pc' = [pc EXCEPT ![Master(cursor)] = WokenBy(@)]
            /\ cursor' = cursor + 1
            /\ UNCHANGED stage
       ELSE /\ stage' = "poll"
            /\ UNCHANGED <<pc, cursor>>
    /\ UNCHANGED <<num, createVars, nodeVars, rr, exit, sec, limit, todo, peeked, overrun, stray>>

(* The polling loop ends because the count is zero ("drained") or because  *)
(* the seconds are used up ("expired").                                    *)

(* A plausible bug: the seconds are never counted down.                    *)
PollForever ==
    /\ stage = "poll"
    /\ num = 0
    /\ stage' = "drained"
    /\ UNCHANGED <<num, createVars, pc, nodeVars, rr, exit, sec, cursor, limit, todo, peeked,
                   overrun, stray>>

Poll ==
    /\ stage = "poll"
    /\ IF sec = 0
       THEN stage' = "expired" /\ UNCHANGED sec
       ELSE IF num = 0
       THEN stage' = "drained" /\ UNCHANGED sec
       ELSE sec' = sec - 1 /\ UNCHANGED stage
    /\ UNCHANGED <<num, createVars, pc, nodeVars, rr, exit, cursor, limit, todo, peeked,
                   overrun, stray>>

(* tc_thread_uninit takes global_group_mutex and visits the lists of every *)
(* pool that was given a count; a pool with no members has no tg_member.   *)
UninitBegin ==
    /\ stage \in {"drained", "expired"}
    /\ stage' = "uninit"
    /\ todo' = {t \in Thread : creator[t[1]] # "none" /\ TgCount[t[1]] >= 1}
    /\ overrun' = (Live # {} \/ \E g \in Group : creator[g] \notin {"none", "ready"})
    /\ UNCHANGED <<num, createVars, pc, nodeVars, rr, exit, sec, cursor, limit, peeked, stray>>

(* tc_thread_list_free reads head->next before it locks the list ...       *)
ListPeek(t) ==
    /\ stage = "uninit"
    /\ t \in todo
    /\ todo' = todo \ {t}
    /\ IF list[t] = <<>>
       THEN UNCHANGED <<stage, peeked>>
       ELSE /\ stage' = "freeing"
            /\ peeked' = <<t, Head(list[t])>>
    /\ UNCHANGED <<num, createVars, pc, nodeVars, rr, exit, sec, cursor, limit, overrun, stray>>

(* ... and then detaches that node, wherever it is by now, and all others, *)
(* with tg_mutex held even if the list is a member's.  A member that was   *)
(* overrun could take a node halfway through its list; that is not         *)
(* followed: the list goes at once.                                        *)

(* A plausible bug: the nodes are freed but stay linked.                   *)
FreeStillLinked ==
    /\ stage = "freeing"
    /\ disposed' = disposed \cup {peeked[2]} \cup Elements(list[peeked[1]])
    /\ stage' = "uninit"
    /\ peeked' = <<>>
    /\ UNCHANGED <<num, createVars, pc, list, held, outside, leaked, order, rr, exit, sec,
                   cursor, limit, todo, overrun, stray>>

ListFree ==
    /\ stage = "freeing"
    /\ LET t == peeked[1]
           n == peeked[2]
       IN  /\ list' = [u \in Thread |->
                         IF u = t THEN <<>> ELSE Delete(list[u], n)]
           /\ disposed' = disposed \cup {n} \cup Elements(list[t])
    /\ stage' = "uninit"
    /\ peeked' = <<>>
    /\ UNCHANGED <<num, createVars, pc, held, outside, leaked, order, rr, exit, sec, cursor,
                   limit, todo, overrun, stray>>

(* TC_FREE(global_thread_group), and main returns.                         *)
UninitEnd ==
    /\ stage = "uninit"
    /\ todo = {}
    /\ stage' = "done"
    /\ UNCHANGED <<num, createVars, pc, nodeVars, rr, exit, sec, cursor, limit, todo, peeked,
                   overrun, stray>>

MainStep == Broadcast \/ Poll \/ UninitBegin \/ (\E t \in Thread : ListPeek(t))
                \/ ListFree \/ UninitEnd

(* The process is over; nothing runs any more.                             *)
Ended == stage = "done" /\ UNCHANGED vars

-----------------------------------------------------------------------------
(* One pool thread makes progress (tc_master_thread,                       *)
(* tc_thread_member_handle).                                               *)
ThreadStep(t) ==
    \/ TestExitTop(t) \/ LeaveWithNode(t) \/ EnterCallback(t)
    \/ Take(t) \/ Resume(t) \/ Timeout(t)
    \/ Finish(t) \/ GroupFuncOk(t) \/ PassOn(t)

Next ==
    \/ \E g \in Group : Claim(g) \/ CreateStep(g)
    \/ \E g \in Group, n \in Node : Submit(g, n)
    \/ \E t \in Thread : ThreadStep(t) \/ SpuriousWake(t)
    \/ OutsideTest
    \/ ExitRequest
    \/ MainStep
    \/ Ended

Spec == Init /\ [][Next]_vars

(* The operating system schedules every thread that can run, a timed wait  *)
(* ends within its second and callbacks return.  Nobody need ask for exit, *)
(* and the main thread may dwell on its five seconds.                      *)
Fairness ==
    /\ \A g \in Group : WF_vars(CreateStep(g))
    /\ \A t \in Thread : WF_vars(ThreadStep(t))

FairSpec == Spec /\ Fairness

-----------------------------------------------------------------------------
(* Type invariant: the shapes of the state, and that a thread holds a node *)
(* exactly in the places of its loop where the code's local sl is in use.  *)
TypeOK ==
    /\ exit \in BOOLEAN
    /\ num \in Nat
    /\ groupCount \in 0 .. NGroup
    /\ creator \in [Group -> {"none", "claimed", "spawned", "members", "mspawned", "ready"}]
    /\ nmemb \in [Group -> Nat]
    /\ pc \in [Thread -> {"unborn", "top", "take", "waiting", "signalled", "took", "running",
                          "pass", "gone"}]
    /\ list \in [Thread -> Seq(Node)]
    /\ held \in [Thread -> Node \cup {NoNode}]
    /\ \A t \in Thread : held[t] # NoNode <=> pc[t] \in {"took", "running", "pass"}
    /\ rr \in [Group -> Nat]
    /\ \A g \in Group : TgCount[g] > 1 => rr[g] < TgCount[g]
    /\ outside \subseteq Node
    /\ leaked \subseteq Node
    /\ disposed \subseteq Node
    /\ order \in [Group -> Seq(Node)]
    /\ stage \in {"run", "broadcast", "poll", "drained", "expired", "uninit", "freeing", "done"}
    /\ sec \in 0 .. WaitSec
    /\ cursor \in Nat
    /\ limit \in 0 .. groupCount
    /\ todo \subseteq Thread
    /\ IF stage = "freeing" THEN peeked \in Thread \X Node ELSE peeked = <<>>
    /\ stray \in BOOLEAN
    /\ overrun \in BOOLEAN

(* Threads are created once and in order: a slot of the pool array is      *)
(* untouched until its id is claimed, the master runs from its creation    *)
(* on, and of the members exactly the first nmemb run.                     *)
CreationInOrder ==
    \A g \in Group :
        /\ creator[g] = "none" <=> g >= groupCount
        /\ pc[Master(g)] = "unborn" <=> creator[g] \in {"none", "claimed"}
        /\ creator[g] \in {"none", "claimed", "spawned"} => nmemb[g] = 0
        /\ \A i \in Members(g) : pc[<<g, i>>] = "unborn" <=> i > nmemb[g]

(* A node is in one place only.  Whatever the order of the pool's threads, *)
(* a submitted node is in one list, once, or in one thread's hands, or     *)
(* back with its owner, or given up; so no two threads run a callback on   *)
(* the same node and no list_add_tail hits a node that is still linked.    *)
NoSharing ==
    /\ \A t \in Thread : NoRepeat(list[t])
    /\ \A t, u \in Thread : t # u => Elements(list[t]) \cap Elements(list[u]) = {}
    /\ \A t, u \in Thread : t # u /\ held[t] # NoNode => held[t] # held[u]
    /\ \A t, u \in Thread : held[t] \notin Elements(list[u])
    /\ \A t \in Thread : held[t] \notin outside \cup leaked
    /\ \A t \in Thread : Elements(list[t]) \cap (outside \cup leaked) = {}
    /\ outside \cap leaked = {}

(* And none is lost: every node is in some place.                          *)
NoLoss ==
    \A n \in Node :
        \/ n \in outside \cup leaked \cup disposed
        \/ \E t \in Thread : held[t] = n \/ n \in Elements(list[t])

NodeInOnePlace == NoSharing /\ NoLoss

(* What becomes of the nodes at the exit.  When every thread has gone      *)
(* before tc_thread_uninit begins, the nodes it gives to tg_group_free are *)
(* nobody else's (when it overruns a thread, that thread can take the very *)
(* node peeked before the lock).  Each thread that leaves loses at most    *)
(* the one node in its hands, and none is lost before the exit.            *)
ExitAccountsForNodes ==
    /\ ~overrun => \A t \in Thread : /\ held[t] \notin disposed
                                     /\ Elements(list[t]) \cap disposed = {}
    /\ Cardinality(leaked) <= Cardinality({t \in Thread : pc[t] = "gone"})
    /\ leaked \cup disposed # {} => exit

(* Along the way of a node to member m -- group list, master's hands,      *)
(* member's list, member's hands -- the nodes stay in the order in which   *)
(* they were submitted: no member ever overtakes itself.                   *)
Hand(t) == IF held[t] = NoNode THEN <<>> ELSE <<held[t]>>
WayTo(g, i) == Hand(<<g, i>>) \o list[<<g, i>>] \o Hand(Master(g)) \o list[Master(g)]
SubmissionOrder ==
    ~exit => \A g \in Group : \A i \in Members(g) :
        LET way == WayTo(g, i)
            At(n) == CHOOSE k \in DOMAIN order[g] : order[g][k] = n
        IN  \A j, k \in DOMAIN way : j < k => At(way[j]) < At(way[k])

(* What global_thread_num is good for: as long as only counted pool        *)
(* threads tested the exit, each of them once, it is the number of threads *)
(* that still live, and a tc_thread_exit_wait that saw zero waited for all *)
(* the threads that were counted by then.                                  *)
CountIsLive ==
    ~stray => num = Cardinality({t \in Counted : pc[t] # "gone"})

-----------------------------------------------------------------------------
(* A submitted node comes back to its owner unless the program exits.      *)
InPool(n) == \E t \in Thread : held[t] = n \/ n \in Elements(list[t])
SubmittedReturns == \A n \in Node : InPool(n) ~> (n \in outside \/ exit)

(* Once the exit is requested every thread leaves, however long the main   *)
(* thread takes over its wait -- the members too, which nobody signals and *)
(* which find the flag only because their timed wait ends.                 *)
ExitEndsThreads ==
    \A t \in Thread :
        (exit /\ t \in Live) ~> (pc[t] = "gone" \/ ~GroupMutexFree \/ ~Running)

(* And the shutdown comes to its end when the main thread is scheduled.    *)
ShutdownEnds == WF_vars(MainStep) => (exit ~> stage = "done")

(* The pool keeps the promise of TcWorkPool.  A node is running while a    *)
(* callback has it, and while the master still has it after the only       *)
(* callback there is.                                                      *)
InCallback(t) ==
    pc[t] = "running" \/ (pc[t] = "pass" /\ t[1] \in GroupFunc /\ Members(t[1]) = {})
Where(n) ==
    IF n \in outside THEN "owned"
    ELSE IF \E t \in Thread : held[t] = n /\ InCallback(t) THEN "running"
    ELSE IF n \in leaked \cup disposed THEN "lost"
    ELSE "queued"
WorkPool == INSTANCE TcWorkPool WITH where <- [n \in Node |-> Where(n)], closed <- exit
KeepsPromise == WorkPool!Spec
=============================================================================

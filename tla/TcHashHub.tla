----------------------------- MODULE TcHashHub -----------------------------
(***************************************************************************)
(* The heartbeat hub of libtc (test_client/tc_hash_hub.c).  Links that are *)
(* added in one second share a table, which holds their nodes; a table is  *)
(* kept under its interval, hub_interval and the seconds since the first   *)
(* link, and belongs to slot interval % hub_interval.  The first link of a *)
(* slot starts a timer of period hub_interval.  The timer's function takes *)
(* the nodes of every table of one slot and submits them, a list for each  *)
(* table, to a thread pool; a pool thread calls the user's harbour         *)
(* function for each node, and puts the list back into its table.  Other   *)
(* threads close links, which only clears their nodes.                     *)
(*                                                                         *)
(* Two clocks are at work that nothing keeps in step: the heap timer       *)
(* counts its sleeps of one second, a link's interval comes from time().   *)
(***************************************************************************)
EXTENDS Integers, Sequences, FiniteSets

CONSTANTS
    Link,       \* the links for which tc_hash_hub_add is called, each once
    Worker,     \* the threads of the hub's pool
    Interval,   \* hub_interval, the seconds between two heartbeats
    Span,       \* bound: links are added in the first Span seconds
    Backlog,    \* bound: how many calls' lists wait in the pool
    Prompt,     \* assumption, when TRUE: no tick and no second of time() while a
                \*   link is being added
    NoLink      \* no node is being looked at

(* The last clause keeps every interval in the range of tc_hub_hash's char. *)
ASSUME HubAssumption ==
    /\ Interval \in Nat \ {0} /\ Span \in Nat \ {0} /\ Backlog \in Nat
    /\ NoLink \notin Link /\ Prompt \in BOOLEAN
    /\ Interval + Span <= 128

VARIABLES
    phase,     \* the tick of the heap timer, modulo hub_interval
    begun,     \* start_time was set, by the first link
    age,       \* time(NULL) - start_time, up to Span
    stage,     \* where tc_hash_hub_add is for each link
    interval,  \* its interval
    home,      \* its hub_table, named by the link that created it
    made,      \* hub_hash: the tables that were added
    newest,    \* the one that tc_hash_get finds for each interval, or NoLink
    hub,       \* the nodes in each table
    timed,     \* the slots whose timer_id_array entry is not -1
    left,      \* seconds to go of the timer each link created
    node,      \* the hub node of each link: none, linked, freed
    live,      \* extra_data is not 0
    closing,   \* the link: open, status set by a deleter that is about to
               \*   clear the node, closed, or closed before it had a node
    queue,     \* the lists in the pool, a set for each call of a timer
    at,        \* where each pool thread is
    list,      \* its list_data
    todo,      \* the nodes it has still to visit
    pos,       \* the interval of its list
    cur,       \* the node it looks at
    overlap,   \* history: two links were being added at the same time
    failed     \* history: the links whose harbour function failed

clockVars  == <<phase, begun, age>>
tableVars  == <<made, newest, hub>>
addVars    == <<stage, interval, home>>
timerVars  == <<timed, left>>
nodeVars   == <<node, live>>
workerVars == <<at, list, todo, pos, cur>>
vars == <<clockVars, addVars, tableVars, timerVars, nodeVars, closing, queue,
          workerVars, overlap, failed>>

NoTimer == -1
Intervals == Interval .. Interval + Span - 1

Init ==
    /\ phase = 0 /\ begun = FALSE /\ age = 0
    /\ stage = [l \in Link |-> "out"]
    /\ interval = [l \in Link |-> 0]
    /\ home = [l \in Link |-> NoLink]
    /\ made = {}
    /\ newest = [i \in Intervals |-> NoLink]
    /\ hub = [l \in Link |-> {}]
    /\ timed = {}
    /\ left = [l \in Link |-> NoTimer]
    /\ node = [l \in Link |-> "none"]
    /\ live = [l \in Link |-> FALSE]
    /\ closing = [l \in Link |-> "open"]
    /\ queue = <<>>
    /\ at = [w \in Worker |-> "idle"]
    /\ list = [w \in Worker |-> {}]
    /\ todo = [w \in Worker |-> {}]
    /\ pos = [w \in Worker |-> 0]
    /\ cur = [w \in Worker |-> NoLink]
    /\ overlap = FALSE
    /\ failed = {}

-----------------------------------------------------------------------------
(* tc_hub_hash.  The interval goes through a signed char of eight bits.    *)
Char(i) == IF i % 256 < 128 THEN i % 256 ELSE (i % 256) - 256

Bucket(i) == IF Char(i) >= 0 THEN Char(i) % Interval ELSE -((-Char(i)) % Interval)

-----------------------------------------------------------------------------
(* tc_hash_hub_add.  The interval is fixed under hub_data_mutex; the first *)
(* link of the protocol sets start_time.                                   *)
Adding(l) == stage[l] \notin {"out", "done"}

AddInterval(l) ==
    /\ stage[l] = "out"
    /\ age < Span
    /\ stage' = [stage EXCEPT ![l] = "find"]
    /\ interval' = [interval EXCEPT ![l] = Interval + age]
    /\ begun' = TRUE
    /\ overlap' = (overlap \/ \E k \in Link : Adding(k))
    /\ UNCHANGED <<phase, age, home, tableVars, timerVars, nodeVars, closing, queue,
                   workerVars, failed>>

(* tc_hash_hub_table_get looks the table up and adds a missing one in two  *)
(* calls, each with its own lock of the bucket.                            *)
Found(l) ==
    /\ newest[interval[l]] # NoLink
    /\ home' = [home EXCEPT ![l] = newest[interval[l]]]
    /\ stage' = [stage EXCEPT ![l] = "node"]

Missing(l) ==
    /\ newest[interval[l]] = NoLink
    /\ stage' = [stage EXCEPT ![l] = "table"]
    /\ UNCHANGED home

AddFind(l) ==
    /\ stage[l] = "find"
    /\ Found(l) \/ Missing(l)
    /\ UNCHANGED <<clockVars, interval, tableVars, timerVars, nodeVars, closing, queue,
                   workerVars, overlap, failed>>

AddTable(l) ==
    /\ stage[l] = "table"
    /\ stage' = [stage EXCEPT ![l] = "node"]
    /\ home' = [home EXCEPT ![l] = l]
    /\ made' = made \union {l}
    /\ newest' = [newest EXCEPT ![interval[l]] = l]
    /\ UNCHANGED <<clockVars, interval, hub, timerVars, nodeVars, closing, queue, workerVars,
                   overlap, failed>>

(* tc_hash_hub_node_add: the node is made, the link is told where it is,   *)
(* and it enters the table under the table's mutex.  The link's status is  *)
(* not looked at.                                                          *)
AddNode(l) ==
    /\ stage[l] = "node"
    /\ stage' = [stage EXCEPT ![l] = "test"]
    /\ node' = [node EXCEPT ![l] = "linked"]
    /\ live' = [live EXCEPT ![l] = TRUE]
    /\ hub' = [hub EXCEPT ![home[l]] = @ \union {l}]
    /\ UNCHANGED <<clockVars, interval, home, made, newest, timerVars, closing, queue,
                   workerVars, overlap, failed>>

(* A plausible bug: the seconds themselves are the index.                  *)
IdUnreduced(l) == interval[l] - Interval

(* timer_id_array[id] is tested, and set by the creation of the timer,     *)
(* without a lock.                                                         *)
Id(l) == interval[l] % Interval

AddTest(l) ==
    /\ stage[l] = "test"
    /\ stage' = [stage EXCEPT ![l] = IF Id(l) \in timed THEN "done" ELSE "timer"]
    /\ UNCHANGED <<clockVars, interval, home, tableVars, timerVars, nodeVars, closing, queue,
                   workerVars, overlap, failed>>

(* A plausible bug: the id is not kept.                                    *)
AddTimerForgotten(l) ==
    /\ stage[l] = "timer"
    /\ stage' = [stage EXCEPT ![l] = "done"]
    /\ left' = [left EXCEPT ![l] = Interval]
    /\ UNCHANGED <<clockVars, interval, home, tableVars, timed, nodeVars, closing, queue,
                   workerVars, overlap, failed>>

AddTimer(l) ==
    /\ stage[l] = "timer"
    /\ stage' = [stage EXCEPT ![l] = "done"]
    /\ timed' = timed \union {Id(l)}
    /\ left' = [left EXCEPT ![l] = Interval]
    /\ UNCHANGED <<clockVars, interval, home, tableVars, nodeVars, closing, queue, workerVars,
                   overlap, failed>>

AddStep(l) == AddFind(l) \/ AddTable(l) \/ AddNode(l) \/ AddTest(l) \/ AddTimer(l)

-----------------------------------------------------------------------------
Unhurried == Prompt => ~\E l \in Link : Adding(l)

(* The heap timer, taken at its word: a timer is handled in the second it  *)
(* is due, and again a period later unless its function fails, upon which  *)
(* it is destroyed.                                                        *)
Tick ==
    /\ \A l \in Link : left[l] # 0
    /\ Unhurried
    /\ phase' = (phase + 1) % Interval
    /\ left' = [l \in Link |-> IF left[l] = NoTimer THEN NoTimer ELSE left[l] - 1]
    /\ UNCHANGED <<begun, age, addVars, tableVars, timed, nodeVars, closing, queue, workerVars,
                   overlap, failed>>

(* The seconds of time(), which begin when they like between the ticks;    *)
(* they are counted as long as a link may still be added.                  *)
Second ==
    /\ begun /\ age < Span
    /\ Unhurried
    /\ \E l \in Link : stage[l] = "out"
    /\ age' = age + 1
    /\ UNCHANGED <<phase, begun, addVars, tableVars, timerVars, nodeVars, closing, queue,
                   workerVars, overlap, failed>>

(* tc_hash_hub_send_list_add takes the tables of the slot of the present   *)
(* tick, which need not be the slot its timer was created for; with their  *)
(* bucket locked, the nodes of each of them become a list of their own.    *)
Due == {t \in made : Bucket(interval[t]) = phase}

(* A plausible bug: list_splice instead of list_splice_init.               *)
FireKeeping(l) ==
    /\ left[l] = 0
    /\ Due # {}
    /\ Len(queue) < Backlog
    /\ queue' = Append(queue, {[table |-> t, nodes |-> hub[t]] : t \in Due})
    /\ left' = [left EXCEPT ![l] = Interval]
    /\ UNCHANGED <<clockVars, addVars, tableVars, timed, nodeVars, closing, workerVars, overlap,
                   failed>>

Fire(l) ==
    /\ left[l] = 0
    /\ Due # {}
    /\ Len(queue) < Backlog
    /\ queue' = Append(queue, {[table |-> t, nodes |-> hub[t]] : t \in Due})
    /\ hub' = [t \in Link |-> IF t \in Due THEN {} ELSE hub[t]]
    /\ left' = [left EXCEPT ![l] = Interval]
    /\ UNCHANGED <<clockVars, addVars, made, newest, timed, nodeVars, closing, workerVars,
                   overlap, failed>>

(* tc_hash_head_traversal of an empty bucket returns TC_ERR: the timer is  *)
(* destroyed, and its id stays in timer_id_array.                          *)
FireEmpty(l) ==
    /\ left[l] = 0
    /\ Due = {}
    /\ left' = [left EXCEPT ![l] = NoTimer]
    /\ UNCHANGED <<clockVars, addVars, tableVars, timed, nodeVars, closing, queue, workerVars,
                   overlap, failed>>

-----------------------------------------------------------------------------
(* tc_hash_hub_send_list.  The harbour function is called with the mutex   *)
(* of the node held.                                                       *)
Locked(l) == \E w \in Worker : at[w] = "call" /\ cur[w] = l

Take(w) ==
    /\ at[w] = "idle"
    /\ queue # <<>>
    /\ \E job \in Head(queue) :
          /\ queue' = IF Head(queue) = {job} THEN Tail(queue)
                      ELSE [queue EXCEPT ![1] = @ \ {job}]
          /\ list' = [list EXCEPT ![w] = job.nodes]
          /\ todo' = [todo EXCEPT ![w] = job.nodes]
          /\ pos' = [pos EXCEPT ![w] = interval[job.table]]
    /\ at' = [at EXCEPT ![w] = "walk"]
    /\ UNCHANGED <<clockVars, addVars, tableVars, timerVars, nodeVars, closing, cur, overlap,
                   failed>>

(* A plausible bug: the link's status is looked at instead of its node.    *)
VisitClosing(w, l) ==
    /\ at[w] = "walk"
    /\ l \in todo[w]
    /\ closing[l] # "open"
    /\ list' = [list EXCEPT ![w] = @ \ {l}]
    /\ todo' = [todo EXCEPT ![w] = @ \ {l}]
    /\ node' = [node EXCEPT ![l] = "freed"]
    /\ UNCHANGED <<clockVars, addVars, tableVars, timerVars, live, closing, queue, at, pos,
                   cur, overlap, failed>>

(* A node that was cleared is taken off the list and freed.                *)
VisitCleared(w, l) ==
    /\ at[w] = "walk"
    /\ l \in todo[w]
    /\ ~live[l]
    /\ list' = [list EXCEPT ![w] = @ \ {l}]
    /\ todo' = [todo EXCEPT ![w] = @ \ {l}]
    /\ node' = [node EXCEPT ![l] = "freed"]
    /\ UNCHANGED <<clockVars, addVars, tableVars, timerVars, live, closing, queue, at, pos,
                   cur, overlap, failed>>

Call(w, l) ==
    /\ at[w] = "walk"
    /\ l \in todo[w]
    /\ live[l]
    /\ at' = [at EXCEPT ![w] = "call"]
    /\ cur' = [cur EXCEPT ![w] = l]
    /\ todo' = [todo EXCEPT ![w] = @ \ {l}]
    /\ UNCHANGED <<clockVars, addVars, tableVars, timerVars, nodeVars, closing, queue, list,
                   pos, overlap, failed>>

CallOk(w) ==
    /\ at[w] = "call"
    /\ at' = [at EXCEPT ![w] = "walk"]
    /\ cur' = [cur EXCEPT ![w] = NoLink]
    /\ UNCHANGED <<clockVars, addVars, tableVars, timerVars, nodeVars, closing, queue, list,
                   todo, pos, overlap, failed>>

(* The harbour function failed: the mutex is let go and the node leaves    *)
(* the list.                                                               *)
CallFailed(w) ==
    /\ at[w] = "call"
    /\ at' = [at EXCEPT ![w] = "close"]
    /\ list' = [list EXCEPT ![w] = @ \ {cur[w]}]
    /\ failed' = failed \union {cur[w]}
    /\ UNCHANGED <<clockVars, addVars, tableVars, timerVars, nodeVars, closing, queue, todo,
                   pos, cur, overlap>>

(* tc_create_link_data_del, by the pool thread: nothing if another thread  *)
(* has set the status first.                                               *)
CloseFailed(w) ==
    /\ at[w] = "close"
    /\ at' = [at EXCEPT ![w] = "free"]
    /\ closing' = [closing EXCEPT ![cur[w]] = IF @ = "open" THEN "closed" ELSE @]
    /\ live' = [live EXCEPT ![cur[w]] = @ /\ closing[cur[w]] # "open"]
    /\ UNCHANGED <<clockVars, addVars, tableVars, timerVars, node, queue, list, todo, pos, cur,
                   overlap, failed>>

FreeFailed(w) ==
    /\ at[w] = "free"
    /\ at' = [at EXCEPT ![w] = "walk"]
    /\ node' = [node EXCEPT ![cur[w]] = "freed"]
    /\ cur' = [cur EXCEPT ![w] = NoLink]
    /\ UNCHANGED <<clockVars, addVars, tableVars, timerVars, live, closing, queue, list, todo,
                   pos, overlap, failed>>

(* A plausible bug: the list is freed without its nodes.                   *)
PutBackNone(w) ==
    /\ at[w] = "walk"
    /\ todo[w] = {}
    /\ at' = [at EXCEPT ![w] = "idle"]
    /\ list' = [list EXCEPT ![w] = {}]
    /\ pos' = [pos EXCEPT ![w] = 0]
    /\ UNCHANGED <<clockVars, addVars, tableVars, timerVars, nodeVars, closing, queue, todo,
                   cur, overlap, failed>>

(* The list goes back into the newest table of its interval.               *)
PutBack(w) ==
    /\ at[w] = "walk"
    /\ todo[w] = {}
    /\ at' = [at EXCEPT ![w] = "idle"]
    /\ hub' = [hub EXCEPT ![newest[pos[w]]] = @ \union list[w]]
    /\ list' = [list EXCEPT ![w] = {}]
    /\ pos' = [pos EXCEPT ![w] = 0]
    /\ UNCHANGED <<clockVars, addVars, made, newest, timerVars, nodeVars, closing, queue, todo,
                   cur, overlap, failed>>

WorkStep(w) ==
    \/ Take(w) \/ PutBack(w)
    \/ \E l \in Link : VisitCleared(w, l) \/ Call(w, l)
    \/ CallOk(w) \/ CallFailed(w) \/ CloseFailed(w) \/ FreeFailed(w)

-----------------------------------------------------------------------------
(* Any other thread that closes a link: tc_create_link_data_del sets the   *)
(* status, once, and later calls tc_hash_hub_link_del.                     *)
Close(l) ==
    /\ closing[l] = "open"
    /\ closing' = [closing EXCEPT ![l] = "closing"]
    /\ UNCHANGED <<clockVars, addVars, tableVars, timerVars, nodeVars, queue, workerVars,
                   overlap, failed>>

(* A plausible bug: the node is left alone while its mutex is taken.       *)
LinkDelTry(l) ==
    /\ closing[l] = "closing"
    /\ closing' = [closing EXCEPT ![l] = IF node[l] = "none" THEN "missed" ELSE "closed"]
    /\ live' = [live EXCEPT ![l] = Locked(l)]
    /\ UNCHANGED <<clockVars, addVars, tableVars, timerVars, node, queue, workerVars, overlap,
                   failed>>

(* hub_data is 0 before the node exists.  A freed node is beyond the       *)
(* model: the code would lock and write freed memory.                      *)
LinkDel(l) ==
    /\ closing[l] = "closing"
    /\ ~Locked(l)
    /\ closing' = [closing EXCEPT ![l] = IF node[l] = "none" THEN "missed" ELSE "closed"]
    /\ live' = [live EXCEPT ![l] = FALSE]
    /\ UNCHANGED <<clockVars, addVars, tableVars, timerVars, node, queue, workerVars, overlap,
                   failed>>

-----------------------------------------------------------------------------
Next ==
    \/ \E l \in Link : \/ AddInterval(l) \/ AddStep(l)
                       \/ Fire(l) \/ FireEmpty(l)
                       \/ Close(l) \/ LinkDel(l)
    \/ \E w \in Worker : WorkStep(w)
    \/ Tick \/ Second

Spec == Init /\ [][Next]_vars

(* Threads run, the heap timer ticks on, harbour functions return.  Nobody *)
(* has to add a link or to close it, and nothing is asked of time().       *)
Fairness ==
    /\ WF_vars(Tick)
    /\ \A l \in Link : /\ WF_vars(AddStep(l))
                       /\ WF_vars(Fire(l) \/ FireEmpty(l))
                       /\ WF_vars(LinkDel(l))
    /\ \A w \in Worker : WF_vars(WorkStep(w))

FairSpec == Spec /\ Fairness

-----------------------------------------------------------------------------
(* Type invariant; an idle pool thread holds no node.                      *)
TypeOK ==
    /\ phase \in 0 .. Interval - 1
    /\ begun \in BOOLEAN
    /\ age \in 0 .. Span
    /\ stage \in [Link -> {"out", "find", "table", "node", "test", "timer", "done"}]
    /\ interval \in [Link -> Intervals \union {0}]
    /\ home \in [Link -> Link \union {NoLink}]
    /\ made \subseteq Link
    /\ newest \in [Intervals -> Link \union {NoLink}]
    /\ hub \in [Link -> SUBSET Link]
    /\ timed \subseteq 0 .. Interval - 1
    /\ left \in [Link -> NoTimer .. Interval]
    /\ node \in [Link -> {"none", "linked", "freed"}]
    /\ live \in [Link -> BOOLEAN]
    /\ closing \in [Link -> {"open", "closing", "closed", "missed"}]
    /\ queue \in Seq(SUBSET [table : Link, nodes : SUBSET Link])
    /\ at \in [Worker -> {"idle", "walk", "call", "close", "free"}]
    /\ list \in [Worker -> SUBSET Link]
    /\ todo \in [Worker -> SUBSET Link]
    /\ pos \in [Worker -> Intervals \union {0}]
    /\ cur \in [Worker -> Link \union {NoLink}]
    /\ overlap \in BOOLEAN
    /\ failed \subseteq Link
    /\ \A w \in Worker : at[w] = "idle" => list[w] = {} /\ todo[w] = {}

(* Where the node of a link is: in tables, in lists that wait in the pool, *)
(* in the list of a pool thread, or with a pool thread that will free it.  *)
Jobs == UNION {{<<k, job>> : job \in queue[k]} : k \in 1 .. Len(queue)}
Held(w, l) == at[w] \in {"close", "free"} /\ cur[w] = l

Places(l) ==
    {<<"table", t>> : t \in {t \in Link : l \in hub[t]}}
    \union {<<"queue", j>> : j \in {j \in Jobs : l \in j[2].nodes}}
    \union {<<"list", w>> : w \in {w \in Worker : l \in list[w]}}
    \union {<<"held", w>> : w \in {w \in Worker : Held(w, l)}}

(* Tables, timers and pool threads pass the nodes on by splicing lists: a  *)
(* node is in exactly one place until it is freed, and then in none.       *)
NodeInOnePlace ==
    \A l \in Link :
        /\ Places(l) # {} <=> node[l] = "linked"
        /\ \A p, q \in Places(l) : p = q

(* tc_hash_hub_link_del locks a node it was told of long ago.  The node is *)
(* freed under it in one case only: its harbour function failed while the  *)
(* other thread, which had set the link's status, was on its way.          *)
FreedUntouched ==
    \A l \in Link : node[l] = "freed" /\ closing[l] = "closing" => l \in failed

(* Once tc_hash_hub_link_del has returned, no harbour function is running  *)
(* for the link, unless the link was closed before it had a node.          *)
CalledWhileOpen == \A l \in Link : Locked(l) => closing[l] # "closed"

(* Tables and timers are looked up and added without a lock that spans     *)
(* both; as long as links are added one after another there is one table   *)
(* for an interval and one timer for a slot.                               *)
OneOfEach ==
    ~overlap =>
        /\ \A t, u \in made : interval[t] = interval[u] => t = u
        /\ \A k, l \in Link :
               left[k] # NoTimer /\ left[l] # NoTimer /\ Id(k) = Id(l) => k = l

(* Where the two clocks agree, that is, where some link's timer is due in  *)
(* the ticks of a link's slot, the hub comes by, again and again: it calls *)
(* the harbour function of the link, or frees the node if it was cleared.  *)
Met(l) == \E k \in Link : left[k] # NoTimer /\ (phase + left[k]) % Interval = Id(l)
HubComesBy ==
    \A l \in Link :
        (stage[l] = "done" /\ node[l] = "linked" /\ Met(l)) ~> (Locked(l) \/ node[l] = "freed")

(* tc_hash_hub.h:5 says that tc_hub_add adds a harbor to a link: the       *)
(* harbour function of a link that was added is called, or the link closed.*)
AddedIsHarboured ==
    \A l \in Link : stage[l] = "done" ~> (Locked(l) \/ closing[l] # "open")
=============================================================================

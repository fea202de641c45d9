---------------------------- MODULE TcTimerList ----------------------------
(***************************************************************************)
(* The timer lists of libtc (test_client/tc_timer_list.c): links that are  *)
(* added within one second share one timer.  They form a batch; the batch  *)
(* is current until an adder, or the timer that runs every second, finds   *)
(* it a second old and gives it a timer of its own.  From then on the      *)
(* timer's function walks over the batch, calls the user's function on     *)
(* each entry, and drops the entries that fail or were cleared; when the   *)
(* batch counts no entries any more, the timer and the batch are freed.    *)
(* The one user is the receive check (test_client/tc_recv_check.c).        *)
(***************************************************************************)
EXTENDS TcList, Integers

CONSTANTS
    Link,      \* what is added, each once: an entry belongs to one link
    Batch,     \* bound: the batches that can be allocated
    NoBatch,   \* a null timer_node
    Prompt     \* assumption: adders finish before the first check of a batch

ASSUME ListAssumption == NoBatch \notin Batch /\ Prompt \in BOOLEAN

VARIABLES
    current,   \* handle->timer_node
    aged,      \* the current batch is a second old
    stage,     \* each batch: none, open, owed a timer by its last adder,
               \*   timed, freed
    entries,   \* the list of each batch
    count,     \* its count
    check,     \* where the timer's function is in each batch
    todo,      \* the entries it has still to visit
    adder,     \* where tc_timer_list_add is for each link
    parent,    \* its tmp, the batch it chose
    closer,    \* its flag: it found the batch a second old
    entry,     \* the data_node of each link: none, held, linked, freed
    live,      \* data_node->data is not 0
    closed,    \* tc_timer_list_handle_destroy was called
    cleared    \* history: entries of each batch dropped because cleared

batchVars == <<stage, entries, count>>
checkVars == <<check, todo>>
addVars   == <<adder, parent, closer>>
vars == <<current, aged, batchVars, checkVars, addVars, entry, live, closed, cleared>>

Init ==
    /\ current = NoBatch
    /\ aged = FALSE
    /\ stage = [b \in Batch |-> "none"]
    /\ entries = [b \in Batch |-> <<>>]
    /\ count = [b \in Batch |-> 0]
    /\ check = [b \in Batch |-> "idle"]
    /\ todo = [b \in Batch |-> <<>>]
    /\ adder = [l \in Link |-> "out"]
    /\ parent = [l \in Link |-> NoBatch]
    /\ closer = [l \in Link |-> FALSE]
    /\ entry = [l \in Link |-> "none"]
    /\ live = [l \in Link |-> FALSE]
    /\ closed = FALSE
    /\ cleared = [b \in Batch |-> 0]

-----------------------------------------------------------------------------
(* tc_timer_list_add.  The entry is allocated, and its address handed to   *)
(* the link, before any lock is taken.                                     *)
AddAlloc(l) ==
    /\ ~closed
    /\ adder[l] = "out"
    /\ adder' = [adder EXCEPT ![l] = "choose"]
    /\ entry' = [entry EXCEPT ![l] = "held"]
    /\ live' = [live EXCEPT ![l] = TRUE]
    /\ UNCHANGED <<current, aged, batchVars, checkVars, parent, closer, closed, cleared>>

(* Under timer_node_mutex: a batch is opened if there is none, or the      *)
(* current one is joined; if it is a second old it is current no longer.   *)
Open(l, b) ==
    /\ current = NoBatch
    /\ stage[b] = "none"
    /\ current' = b
    /\ aged' = FALSE
    /\ stage' = [stage EXCEPT ![b] = "open"]
    /\ parent' = [parent EXCEPT ![l] = b]
    /\ UNCHANGED closer

(* A plausible bug: the batch stays current after it is closed.            *)
JoinStillOpen(l, b) ==
    /\ current = b
    /\ parent' = [parent EXCEPT ![l] = b]
    /\ closer' = [closer EXCEPT ![l] = aged]
    /\ stage' = [stage EXCEPT ![b] = IF aged THEN "owed" ELSE @]
    /\ UNCHANGED <<current, aged>>

Join(l, b) ==
    /\ current = b
    /\ parent' = [parent EXCEPT ![l] = b]
    /\ closer' = [closer EXCEPT ![l] = aged]
    /\ stage' = [stage EXCEPT ![b] = IF aged THEN "owed" ELSE @]
    /\ current' = IF aged THEN NoBatch ELSE b
    /\ UNCHANGED aged

AddChoose(l) ==
    /\ adder[l] = "choose"
    /\ adder' = [adder EXCEPT ![l] = "link"]
    /\ \E b \in Batch : Open(l, b) \/ Join(l, b)
    /\ UNCHANGED <<entries, count, checkVars, entry, live, closed, cleared>>

(* Under the mutex of the batch, which a check holds while it walks.  A    *)
(* freed batch is beyond the model: the code would write to freed memory.  *)
Linkable(b) == stage[b] # "freed" /\ check[b] \notin {"read", "call"}

(* A plausible bug: the entry is not counted.                              *)
AddUncounted(l) ==
    /\ adder[l] = "link"
    /\ Linkable(parent[l])
    /\ adder' = [adder EXCEPT ![l] = IF closer[l] THEN "timer" ELSE "done"]
    /\ entry' = [entry EXCEPT ![l] = "linked"]
    /\ entries' = [entries EXCEPT ![parent[l]] = Append(@, l)]
    /\ UNCHANGED <<current, aged, stage, count, checkVars, parent, closer, live, closed, cleared>>

AddLink(l) ==
    /\ adder[l] = "link"
    /\ Linkable(parent[l])
    /\ adder' = [adder EXCEPT ![l] = IF closer[l] THEN "timer" ELSE "done"]
    /\ entry' = [entry EXCEPT ![l] = "linked"]
    /\ entries' = [entries EXCEPT ![parent[l]] = Append(@, l)]
    /\ count' = [count EXCEPT ![parent[l]] = @ + 1]
    /\ UNCHANGED <<current, aged, stage, checkVars, parent, closer, live, closed, cleared>>

(* The adder that closed the batch creates its timer.                      *)
AddTimer(l) ==
    /\ adder[l] = "timer"
    /\ adder' = [adder EXCEPT ![l] = "done"]
    /\ stage' = [stage EXCEPT ![parent[l]] = "timed"]
    /\ UNCHANGED <<current, aged, entries, count, checkVars, parent, closer, entry, live, closed,
                   cleared>>

AddStep(l) == AddChoose(l) \/ AddLink(l) \/ AddTimer(l)

-----------------------------------------------------------------------------
(* The second of the current batch is over.                                *)
Age ==
    /\ ~closed
    /\ current # NoBatch
    /\ ~aged
    /\ aged' = TRUE
    /\ UNCHANGED <<current, batchVars, checkVars, addVars, entry, live, closed, cleared>>

(* A plausible bug: the batch is given up without a timer.                 *)
EndUntimed ==
    /\ ~closed
    /\ current # NoBatch /\ aged
    /\ current' = NoBatch
    /\ UNCHANGED <<aged, batchVars, checkVars, addVars, entry, live, closed, cleared>>

(* tc_timer_list_end, every second: nobody may come to close the batch.    *)
End ==
    /\ ~closed
    /\ current # NoBatch /\ aged
    /\ stage' = [stage EXCEPT ![current] = "timed"]
    /\ current' = NoBatch
    /\ UNCHANGED <<aged, entries, count, checkVars, addVars, entry, live, closed, cleared>>

(* tc_timer_list_del, by whoever closes the link, at any time while the    *)
(* entry exists.  One who closes a link whose entry the walk has freed     *)
(* writes to freed memory, which is not followed.                          *)
Del(l) ==
    /\ ~closed
    /\ entry[l] \in {"held", "linked"}
    /\ live' = [live EXCEPT ![l] = FALSE]
    /\ UNCHANGED <<current, aged, batchVars, checkVars, addVars, entry, closed, cleared>>

-----------------------------------------------------------------------------
(* tc_timer_list_check, the function of a batch's timer; the heap timer    *)
(* runs it in one thread at a time.  It is skipped when the mutex is busy. *)
CheckStart(b) ==
    /\ ~closed
    /\ stage[b] = "timed" /\ check[b] = "idle"
    /\ Prompt => \A l \in Link : ~(adder[l] = "link" /\ parent[l] = b)
    /\ check' = [check EXCEPT ![b] = "read"]
    /\ todo' = [todo EXCEPT ![b] = entries[b]]
    /\ UNCHANGED <<current, aged, batchVars, addVars, entry, live, closed, cleared>>

(* list_del_init and TC_FREE of the next entry.                            *)
Drop(b) ==
    LET l == Head(todo[b])
    IN  /\ entries' = [entries EXCEPT ![b] = Delete(@, l)]
        /\ entry' = [entry EXCEPT ![l] = "freed"]
        /\ todo' = [todo EXCEPT ![b] = Tail(@)]

(* A plausible bug: the cleared entry is freed and stays in the list.      *)
FreeStillLinked(b) ==
    /\ check[b] = "read" /\ todo[b] # <<>>
    /\ ~live[Head(todo[b])]
    /\ entry' = [entry EXCEPT ![Head(todo[b])] = "freed"]
    /\ todo' = [todo EXCEPT ![b] = Tail(@)]
    /\ cleared' = [cleared EXCEPT ![b] = @ + 1]
    /\ UNCHANGED <<current, aged, batchVars, check, addVars, live, closed>>

(* A cleared entry is dropped, and still counted.                          *)
CheckCleared(b) ==
    /\ check[b] = "read" /\ todo[b] # <<>>
    /\ ~live[Head(todo[b])]
    /\ Drop(b)
    /\ cleared' = [cleared EXCEPT ![b] = @ + 1]
    /\ UNCHANGED <<current, aged, stage, count, check, addVars, live, closed>>

CheckLive(b) ==
    /\ check[b] = "read" /\ todo[b] # <<>>
    /\ live[Head(todo[b])]
    /\ check' = [check EXCEPT ![b] = "call"]
    /\ UNCHANGED <<current, aged, batchVars, todo, addVars, entry, live, closed, cleared>>

(* A plausible bug: the walk goes on to a next entry without looking       *)
(* whether there is one.                                                   *)
CallNext(b) ==
    /\ check[b] = "call"
    /\ todo' = [todo EXCEPT ![b] = Tail(@)]
    /\ UNCHANGED <<current, aged, batchVars, check, addVars, entry, live, closed, cleared>>

(* The data is read anew for the call, without the entry's mutex; a call   *)
(* on 0 does nothing.                                                      *)
CallOk(b) ==
    /\ check[b] = "call"
    /\ check' = [check EXCEPT ![b] = "read"]
    /\ todo' = [todo EXCEPT ![b] = Tail(@)]
    /\ UNCHANGED <<current, aged, batchVars, addVars, entry, live, closed, cleared>>

(* It may fail on an entry that another thread has cleared during the call.*)
CallFailed(b) ==
    /\ check[b] = "call"
    /\ check' = [check EXCEPT ![b] = "read"]
    /\ Drop(b)
    /\ count' = [count EXCEPT ![b] = @ - 1]
    /\ UNCHANGED <<current, aged, stage, addVars, live, closed, cleared>>

(* A plausible bug: the timer goes on when nothing is counted any more.    *)
NeverEmpty(b) ==
    /\ check[b] = "read" /\ todo[b] = <<>>
    /\ check' = [check EXCEPT ![b] = "idle"]
    /\ UNCHANGED <<current, aged, batchVars, todo, addVars, entry, live, closed, cleared>>

(* The mutex is given back; with nothing counted the timer is to be freed. *)
CheckEnd(b) ==
    /\ check[b] = "read" /\ todo[b] = <<>>
    /\ check' = [check EXCEPT ![b] = IF count[b] = 0 THEN "free" ELSE "idle"]
    /\ UNCHANGED <<current, aged, batchVars, todo, addVars, entry, live, closed, cleared>>

(* tc_timer_list_destroy frees what is in the list, and the batch.         *)
Dispose(b) ==
    /\ stage' = [stage EXCEPT ![b] = "freed"]
    /\ entries' = [entries EXCEPT ![b] = <<>>]
    /\ entry' = [l \in Link |-> IF l \in Elements(entries[b]) THEN "freed" ELSE entry[l]]

FreeBatch(b) ==
    /\ check[b] = "free"
    /\ check' = [check EXCEPT ![b] = "idle"]
    /\ Dispose(b)
    /\ UNCHANGED <<current, aged, count, todo, addVars, live, closed, cleared>>

CheckStep(b) ==
    \/ CheckStart(b) \/ CheckCleared(b) \/ CheckLive(b)
    \/ CallOk(b) \/ CallFailed(b) \/ CheckEnd(b) \/ FreeBatch(b)

-----------------------------------------------------------------------------
(* tc_timer_list_handle_destroy, when the program's threads have gone: the *)
(* current batch has no timer that could free it.                          *)
HandleDestroy ==
    /\ ~closed
    /\ \A l \in Link : adder[l] \in {"out", "done"}
    /\ \A b \in Batch : check[b] = "idle"
    /\ closed' = TRUE
    /\ IF current = NoBatch
       THEN UNCHANGED <<stage, entries, entry>>
       ELSE Dispose(current)
    /\ UNCHANGED <<current, aged, count, checkVars, addVars, live, cleared>>

Next ==
    \/ \E l \in Link : AddAlloc(l) \/ AddStep(l) \/ Del(l)
    \/ Age \/ End
    \/ \E b \in Batch : CheckStep(b)
    \/ HandleDestroy

Spec == Init /\ [][Next]_vars

(* Adders and timers are scheduled, and seconds pass.                      *)
Fairness ==
    /\ \A l \in Link : WF_vars(AddStep(l))
    /\ WF_vars(Age) /\ WF_vars(End)
    /\ \A b \in Batch : WF_vars(CheckStep(b))

FairSpec == Spec /\ Fairness

-----------------------------------------------------------------------------
TypeOK ==
    /\ current \in Batch \cup {NoBatch}
    /\ aged \in BOOLEAN
    /\ stage \in [Batch -> {"none", "open", "owed", "timed", "freed"}]
    /\ entries \in [Batch -> Seq(Link)]
    /\ count \in [Batch -> Int]
    /\ check \in [Batch -> {"idle", "read", "call", "free"}]
    /\ todo \in [Batch -> Seq(Link)]
    /\ \A b \in Batch : check[b] = "call" => todo[b] # <<>>
    /\ adder \in [Link -> {"out", "choose", "link", "timer", "done"}]
    /\ parent \in [Link -> Batch \cup {NoBatch}]
    /\ \A l \in Link : adder[l] \in {"link", "timer"} => parent[l] \in Batch
    /\ closer \in [Link -> BOOLEAN]
    /\ entry \in [Link -> {"none", "held", "linked", "freed"}]
    /\ live \in [Link -> BOOLEAN]
    /\ closed \in BOOLEAN
    /\ cleared \in [Batch -> Nat]

(* Every batch gets one timer and no more, whoever closes it: the current  *)
(* batch is the only one that is open, and a batch without a timer that is *)
(* not current is owed one by exactly one adder.                           *)
Owes(l, b) == closer[l] /\ parent[l] = b /\ adder[l] \in {"link", "timer"}
OneTimer ==
    ~closed => \A b \in Batch :
        /\ stage[b] = "open" <=> b = current
        /\ stage[b] = "owed" <=> \E l \in Link : Owes(l, b)
        /\ \A l, m \in Link : Owes(l, b) /\ Owes(m, b) => l = m

(* An entry is in the list of the batch its adder chose, once, and in no   *)
(* other; no list holds an entry that was freed.                           *)
EntryInOnePlace ==
    \A b \in Batch :
        /\ NoRepeat(entries[b])
        /\ \A l \in Elements(entries[b]) : entry[l] = "linked" /\ parent[l] = b

(* A batch that has a timer is freed only when nothing is in it and nobody *)
(* is about to add to it, if adders finish before its first check.         *)
FreedIsEmpty ==
    Prompt /\ ~closed => \A b \in Batch :
        check[b] = "free" \/ stage[b] = "freed" =>
            /\ entries[b] = <<>>
            /\ \A l \in Link : adder[l] = "link" => parent[l] # b

(* A link that is in a list is called on again and again until it leaves.  *)
AtCall(l) == \E b \in Batch : check[b] = "call" /\ Head(todo[b]) = l
EveryLinkIsChecked ==
    \A l \in Link : (entry[l] = "linked" /\ live[l]) ~>
        (AtCall(l) \/ ~live[l] \/ entry[l] = "freed" \/ closed)

(* A batch all of whose entries failed is freed, unless a late adder still *)
(* puts one in.  (One with an entry that was cleared is not freed: its     *)
(* count stays above zero.)                                                *)
EmptyBatchIsFreed ==
    \A b \in Batch : (stage[b] = "timed" /\ entries[b] = <<>>) ~>
        (stage[b] = "freed" \/ entries[b] # <<>> \/ cleared[b] > 0 \/ closed)
=============================================================================

----------------------------- MODULE TcWorkPool -----------------------------
(***************************************************************************)
(* What a pool of test_client/tc_thread.c promises to those who submit     *)
(* work, without threads, lists or wake-ups.  A node belongs to its owner  *)
(* until it is submitted; it is then queued until a callback takes it up,  *)
(* may be queued once more (a pool runs its group function and then its    *)
(* execute function), and comes back to its owner only from a callback.    *)
(* Closing the pool stops callbacks from starting, and what is queued may  *)
(* then be lost.                                                           *)
(***************************************************************************)
CONSTANT Node

VARIABLES
    where,   \* who has each node
    closed   \* the program is exiting

vars == <<where, closed>>

Init ==
    /\ where = [n \in Node |-> "owned"]
    /\ closed = FALSE

Move(n, from, to) ==
    /\ where[n] = from
    /\ where' = [where EXCEPT ![n] = to]
    /\ UNCHANGED closed

Submit(n)  == Move(n, "owned", "queued")
Start(n)   == ~closed /\ Move(n, "queued", "running")
Requeue(n) == Move(n, "running", "queued")
Return(n)  == Move(n, "running", "owned")

Lose(S) ==
    /\ closed
    /\ \A n \in S : where[n] = "queued"
    /\ where' = [n \in Node |-> IF n \in S THEN "lost" ELSE where[n]]
    /\ UNCHANGED closed

Close ==
    /\ closed' = TRUE
    /\ UNCHANGED where

Next ==
    \/ \E n \in Node : Submit(n) \/ Start(n) \/ Requeue(n) \/ Return(n)
    \/ \E S \in SUBSET Node : Lose(S)
    \/ Close

Spec == Init /\ [][Next]_vars
=============================================================================

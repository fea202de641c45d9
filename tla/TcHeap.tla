------------------------------- MODULE TcHeap -------------------------------
(***************************************************************************)
(* The priority queue of libtc (test_client/tc_heap.c): a binary min-heap  *)
(* of linked nodes.  Three structures are kept over the same nodes:        *)
(*   - the tree (parent, left, right), which orders the data;              *)
(*   - the chain that starts at last and follows prev, the nodes in use    *)
(*     in the order they were put to use;                                  *)
(*   - the queue of nodes that can still take something: an empty node     *)
(*     takes a datum, a full one takes two children.                       *)
(* Data are the callers' pointers; the user comparison function orders     *)
(* them by a key (the tick of a timer).  Every operation runs under        *)
(* heap_mutex and is one step.                                             *)
(***************************************************************************)
EXTENDS TcList, Integers, FiniteSets

CONSTANTS
    Item,      \* the pointers callers put in
    Rank,      \* the values user_cmp_func compares them by
    NoItem,    \* (unsigned long)-1, an empty node
    MaxNode    \* bound: how many nodes are ever allocated

ASSUME HeapAssumption ==
    /\ IsFiniteSet(Item)
    /\ Rank \subseteq Int
    /\ NoItem \notin Item
    /\ MaxNode \in Nat \ {0}

Root == 1          \* the node tc_heap_create makes
Null == 0
NodeId == 1 .. MaxNode

VARIABLES
    key,           \* the rank of each item, the callers' own data
    allocated,     \* the number of nodes allocated so far
    data,          \* user_data
    parent, left, right, prev,
    queue,         \* heap_data->head
    last,          \* heap_head.last
    inside,        \* history: the items added and not yet got
    regrown,       \* history: some node got children a second time
    freed          \* the nodes tc_heap_destroy freed, none before it is called

tree == <<parent, left, right>>
heapVars == <<allocated, data, tree, prev, queue, last, inside, regrown, freed>>
vars == <<key, heapVars>>

(* tc_heap_create.                                                         *)
Create ==
    /\ allocated = 1
    /\ data = [n \in NodeId |-> NoItem]
    /\ parent = [n \in NodeId |-> Null]
    /\ left = [n \in NodeId |-> Null]
    /\ right = [n \in NodeId |-> Null]
    /\ prev = [n \in NodeId |-> Null]
    /\ queue = <<Root>>
    /\ last = Root
    /\ inside = {}
    /\ regrown = FALSE
    /\ freed = {}

Init == Create /\ key \in [Item -> Rank]

(* user_cmp_func returns TC_OK: a is to come after b.                      *)
After(a, b) == key[a] > key[b]

(* What a walk from n over the links can meet: the least set of nodes with *)
(* n and, but for Null, whatever a link of one of its nodes points to.     *)
Reached(n, links) ==
    {m \in NodeId : \A S \in SUBSET NodeId :
        n \in S /\ (\A f \in links : \A k \in S : f[k] = Null \/ f[k] \in S) => m \in S}

(* tc_heap_swap_val, from node to node: x starts in n and ends where the   *)
(* walk does, the others on its way step back by one.                      *)
Swapped(d, x, n, next) ==
    LET Along[walk \in SUBSET NodeId] ==
            [m \in NodeId |-> IF m \notin walk THEN d[m]
                              ELSE IF next[m] = Null THEN x ELSE d[next[m]]]
    IN  IF next[n] = Null THEN [d EXCEPT ![n] = x] ELSE Along[Reached(n, {next})]

(* A plausible bug: the datum is never moved up.                           *)
NoSiftUp(p, x, n) == [data EXCEPT ![n] = x]

(* tc_heap_add_adjust, where p is parent: x, put in n, rises while the     *)
(* parent's datum does not come before it.                                 *)
SiftUp(p, x, n) ==
    Swapped(data, x, n, [m \in NodeId |->
        IF m = Root \/ p[m] = Null \/ data[p[m]] = NoItem \/ After(x, data[p[m]])
        THEN Null ELSE p[m]])

Full(d, n) == n # Null /\ d[n] # NoItem

(* tc_heap_del_adjust's choice among the children.                         *)
Child(d, n) ==
    IF Full(d, left[n]) /\ Full(d, right[n])
    THEN IF After(d[right[n]], d[left[n]]) THEN left[n] ELSE right[n]
    ELSE IF Full(d, right[n]) THEN right[n] ELSE left[n]

(* tc_heap_del_adjust: x, put in the root of d, sinks while it comes after *)
(* a child's datum.                                                        *)
SiftDown(d, x) ==
    Swapped(d, x, Root, [m \in NodeId |->
        IF \/ left[m] = Null /\ right[m] = Null
           \/ x = NoItem \/ d[Child(d, m)] = NoItem \/ ~After(x, d[Child(d, m)])
        THEN Null ELSE Child(d, m)])

(* A node that is put to use remembers the one put to use before it.       *)
Chained(n) == [prev EXCEPT ![n] = last]

(* A node that got its children leaves the queue; the empty child is the   *)
(* first to take an item.                                                  *)
NewChildren(l, r) == <<r>> \o Append(Tail(queue), l)

-----------------------------------------------------------------------------
(* tc_heap_node_add, when the first node of the queue is empty: it takes   *)
(* the item and goes to the end of the queue.                              *)
Reuse(x) ==
    LET n == Head(queue)
    IN  /\ data[n] = NoItem
        /\ data' = SiftUp(parent, x, n)
        /\ prev' = Chained(n)
        /\ last' = n
        /\ queue' = Append(Tail(queue), n)
        /\ UNCHANGED <<allocated, tree, regrown>>

(* When it is full: it leaves the queue and gets two new children, the     *)
(* left one with the item and the right one empty, first in the queue.     *)
Grow(x) ==
    LET n == Head(queue)
        l == allocated + 1
        r == allocated + 2
    IN  /\ data[n] # NoItem
        /\ r <= MaxNode
        /\ allocated' = r
        /\ parent' = [parent EXCEPT ![l] = n, ![r] = n]
        /\ left' = [left EXCEPT ![n] = l]
        /\ right' = [right EXCEPT ![n] = r]
        /\ prev' = Chained(l)
        /\ last' = l
        /\ data' = SiftUp(parent', x, l)
        /\ queue' = NewChildren(l, r)
        /\ regrown' = (regrown \/ left[n] # Null)

Add(x) ==
    /\ freed = {}
    /\ x \notin inside
    /\ Reuse(x) \/ Grow(x)
    /\ inside' = inside \cup {x}
    /\ UNCHANGED freed

(* A plausible bug in tc_heap_node_del: the last node is not emptied.      *)
KeepLast == [data EXCEPT ![Root] = data[last], ![last] = data[Root]]

(* tc_heap_node_del: the root's datum goes, the last one takes its place.  *)
MoveLastToRoot == [data EXCEPT ![Root] = data[last], ![last] = NoItem]

(* A plausible bug: the emptied node stays where it was in the queue.      *)
NotRequeued == queue

(* The emptied node is the first to take an item again.                    *)
Requeued == <<last>> \o Delete(queue, last)

(* A plausible bug: the first node's missing prev is followed.             *)
StepBackBlindly == prev[last]

StepBack == IF last = Root \/ prev[last] = Null THEN last ELSE prev[last]

(* tc_heap_root_data_get, which is followed by tc_heap_node_del.  On an    *)
(* empty heap it succeeds too and hands out -1.                            *)
Get ==
    /\ freed = {}
    /\ inside' = inside \ {data[Root]}
    /\ queue' = Requeued
    /\ last' = StepBack
    /\ data' = IF last' = last THEN MoveLastToRoot ELSE SiftDown(MoveLastToRoot, data[last])
    /\ UNCHANGED <<allocated, tree, prev, regrown, freed>>

Reachable == Reached(Root, {left, right})

(* tc_heap_destroy frees what it reaches, and the data with it.            *)
Destroy ==
    /\ freed = {}
    /\ freed' = Reachable
    /\ UNCHANGED <<allocated, data, tree, prev, queue, last, inside, regrown>>

(* The heap by itself: the ranks of the data stay what they are.           *)
Next ==
    \/ \E x \in Item : Add(x) /\ UNCHANGED key
    \/ Get /\ UNCHANGED key
    \/ Destroy /\ UNCHANGED key

Spec == Init /\ [][Next]_vars

-----------------------------------------------------------------------------
TypeOK ==
    /\ key \in [Item -> Rank]
    /\ allocated \in NodeId
    /\ data \in [NodeId -> Item \cup {NoItem}]
    /\ parent \in [NodeId -> 0 .. allocated]
    /\ left \in [NodeId -> 0 .. allocated]
    /\ right \in [NodeId -> 0 .. allocated]
    /\ prev \in [NodeId -> 0 .. allocated]
    /\ queue \in Seq(NodeId)
    /\ last \in 1 .. allocated
    /\ inside \subseteq Item
    /\ regrown \in BOOLEAN
    /\ freed \subseteq 1 .. allocated

(* The heap neither loses nor doubles what is put into it, whatever the    *)
(* shape of the tree: each item added and not got is in one node.          *)
InUse == {n \in NodeId : data[n] # NoItem}
KeepsItems ==
    /\ {data[n] : n \in InUse} = inside
    /\ \A m, n \in InUse : m # n => data[m] # data[n]

(* The chain from last over prev is the nodes in use, and the root is one  *)
(* of them: so tc_heap_node_del finds every item sooner or later, and the  *)
(* root is never empty while something is inside.                          *)
ChainIsComplete ==
    inside # {} => Root \in InUse /\ Reached(last, {prev}) = InUse

(* The queue never runs out of nodes, lists none twice and lists every     *)
(* empty one: there is always a place for the next item.                   *)
QueueHasRoom ==
    /\ queue # <<>>
    /\ NoRepeat(queue)
    /\ \A n \in 1 .. allocated : data[n] = NoItem => n \in Elements(queue)

(* What the head comment promises, a priority queue made of a min-heap:    *)
(* what tc_heap_root_data_get hands out next is least of all.              *)
RootIsLeast == \A x \in inside : key[data[Root]] <= key[x]

(* Nodes are only freed by tc_heap_destroy, yet a long life costs nothing: *)
(* an emptied node is used before a new one is allocated, so the nodes     *)
(* outnumber the items that were inside at one time by no more than one.   *)
NodesBounded == allocated <= Cardinality(Item) + 1

(* The three together: whatever was added and got, every item is within    *)
(* reach of tc_heap_node_del, there is room for the next, and the room is  *)
(* bounded.                                                                *)
TreeIsComplete == ChainIsComplete /\ QueueHasRoom /\ NodesBounded

(* As long as no node gets children a second time, which takes a heap that *)
(* shrinks and grows again, it is the priority queue it promises to be,    *)
(* and tc_heap_destroy frees every node that was allocated.  After that,   *)
(* overwritten children and the data in them are out of its reach.         *)
SoundWhileGrowing ==
    ~regrown => RootIsLeast /\ (freed # {} => freed = 1 .. allocated)
=============================================================================

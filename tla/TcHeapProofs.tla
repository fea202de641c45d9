---------------------------- MODULE TcHeapProofs ----------------------------
(* Proofs about TcHeap.                                                     *)
EXTENDS TcHeap, TcListLemmas, FiniteSetTheorems, WellFoundedInduction

(* A nonempty set of naturals has a least element.                         *)
LEMMA LeastNumber ==
    ASSUME NEW T, T \subseteq Nat, T # {}
    PROVE  \E x \in T : \A y \in T : x <= y
<1> DEFINE Less == {p \in Nat \X Nat : p[1] < p[2]}
<1>1. IsWellFoundedOn(Less, Nat)
  BY NatLessThanWellFounded, Zenon DEF OpToRel
<1>2. PICK x \in T : \A y \in T : <<y, x>> \notin Less
  <2> HIDE DEF Less
  <2> QED
    BY <1>1, WFMin
<1>3. ASSUME NEW y \in T
      PROVE  x <= y
  <2>1. x \in Nat /\ y \in Nat
    OBVIOUS
  <2>2. <<y, x>>[1] = y /\ <<y, x>>[2] = x /\ <<y, x>> \in Nat \X Nat
    BY <2>1
  <2>3. ~(y < x)
    BY <1>2, <2>2
  <2> QED
    BY <2>1, <2>3
<1> QED
  BY <1>3

-----------------------------------------------------------------------------
(* A walk over one link.  height falls along it, so it comes to an end.    *)

(* Whatever n and the links lead to in one closed set is all within it.    *)
LEMMA ReachedWithin ==
    ASSUME NEW n, NEW links, NEW S \in SUBSET NodeId, n \in S,
           \A f \in links : \A k \in S : f[k] = Null \/ f[k] \in S
    PROVE  Reached(n, links) \subseteq S
BY DEF Reached

(* The nodes of a walk lead to nodes of the walk.                          *)
LEMMA ReachedClosed ==
    ASSUME NEW n \in NodeId, NEW links
    PROVE  /\ n \in Reached(n, links)
           /\ Reached(n, links) \subseteq NodeId
           /\ \A f \in links : \A k \in Reached(n, links) :
                 f[k] \in NodeId => f[k] \in Reached(n, links)
BY DEF Reached, NodeId, Null

(* One step taken, the rest of the walk is the walk from there.            *)
LEMMA WalkUnfolds ==
    ASSUME NEW n \in NodeId, NEW next \in [NodeId -> NodeId \cup {Null}]
    PROVE  Reached(n, {next}) =
               {n} \cup (IF next[n] = Null THEN {} ELSE Reached(next[n], {next}))
<1>1. CASE next[n] = Null
  <2>1. Reached(n, {next}) \subseteq {n}
    BY <1>1 DEF Reached
  <2> QED
    BY <2>1, <1>1, ReachedClosed
<1>2. CASE next[n] # Null
  <2> DEFINE R == Reached(next[n], {next})
  <2>1. next[n] \in NodeId
    BY <1>2
  <2>2. /\ R \subseteq NodeId /\ next[n] \in R
        /\ \A k \in R : next[k] \in NodeId => next[k] \in R
    BY <2>1, ReachedClosed
  <2> HIDE DEF R
  <2>3. Reached(n, {next}) \subseteq {n} \cup R
    <3> DEFINE S == {n} \cup R
    <3>1. \A f \in {next} : \A k \in S : f[k] = Null \/ f[k] \in S
      BY <2>2
    <3>2. S \in SUBSET NodeId /\ n \in S
      BY <2>2
    <3> HIDE DEF S
    <3>3. Reached(n, {next}) \subseteq S
      BY <3>1, <3>2, ReachedWithin
    <3> QED
      BY <3>3 DEF S
  <2>4. /\ Reached(n, {next}) \subseteq NodeId /\ n \in Reached(n, {next})
        /\ \A k \in Reached(n, {next}) : next[k] \in NodeId => next[k] \in Reached(n, {next})
    BY ReachedClosed
  <2>5. R \subseteq Reached(n, {next})
    BY <2>1, <2>4, ReachedWithin DEF R
  <2> QED
    BY <1>2, <2>3, <2>4, <2>5 DEF R
<1> QED
  BY <1>1, <1>2

(* A height that falls along a link.                                       *)
Falls(next, height) ==
    /\ height \in [NodeId -> Nat]
    /\ \A m \in NodeId : next[m] # Null => height[next[m]] < height[m]

(* Each node of the walk but the first is the next of one, and is lower    *)
(* than the first.                                                         *)
LEMMA WalkStart ==
    ASSUME NEW n \in NodeId, NEW next \in [NodeId -> NodeId \cup {Null}],
           NEW height, Falls(next, height), NEW W, W = Reached(n, {next})
    PROVE  /\ n \in W
           /\ W \subseteq NodeId
           /\ \A m \in W : next[m] # Null => next[m] \in W
           /\ \A m \in W : m = n \/ height[m] < height[n]
           /\ \A m \in W : m = n \/ \E k \in W : next[k] = m
<1>1. /\ n \in W /\ W \subseteq NodeId
      /\ \A m \in W : next[m] # Null => next[m] \in W
  BY ReachedClosed
<1> DEFINE S == {m \in W : m = n \/ (height[m] < height[n] /\ \E k \in W : next[k] = m)}
<1>2. S \in SUBSET NodeId /\ n \in S
  BY <1>1
<1>3. \A f \in {next} : \A m \in S : f[m] = Null \/ f[m] \in S
  <2> SUFFICES ASSUME NEW m \in S, next[m] # Null
               PROVE  next[m] \in S
    OBVIOUS
  <2>1. next[m] \in W /\ next[m] \in NodeId /\ m \in W
    BY <1>1
  <2>2. height[next[m]] < height[m] /\ height[m] \in Nat /\ height[n] \in Nat
        /\ height[next[m]] \in Nat
    BY <1>1, <2>1 DEF Falls
  <2> QED
    BY <2>1, <2>2
<1>4. W \subseteq S
  <2> HIDE DEF S
  <2> QED
    BY <1>2, <1>3, ReachedWithin
<1> QED
  BY <1>1, <1>4

(* So whatever a walk meets is lower than where it started.               *)
LEMMA WalkFalls ==
    ASSUME NEW n \in NodeId, NEW next \in [NodeId -> NodeId \cup {Null}],
           NEW height, Falls(next, height), NEW m \in Reached(n, {next})
    PROVE  m = n \/ height[m] < height[n]
<1> DEFINE W == Reached(n, {next})
<1>1. m \in W /\ W = Reached(n, {next})
  OBVIOUS
<1> HIDE DEF W
<1> QED
  BY <1>1, WalkStart

(* Of two nodes of the walk one is higher or on the walk from the other.   *)
LEMMA WalkOrder ==
    ASSUME NEW n \in NodeId, NEW next \in [NodeId -> NodeId \cup {Null}],
           NEW height, Falls(next, height), NEW W, W = Reached(n, {next})
    PROVE  \A m, k \in W : height[m] < height[k] \/ k \in Reached(m, {next})
<1>1. /\ n \in W /\ W \subseteq NodeId
      /\ \A m \in W : next[m] # Null => next[m] \in W
  BY WalkStart
<1> DEFINE S == {m \in W : \A k \in W : height[m] < height[k] \/ k \in Reached(m, {next})}
<1>2. S \in SUBSET NodeId /\ n \in S
  BY <1>1
<1>3. \A f \in {next} : \A m \in S : f[m] = Null \/ f[m] \in S
  <2> SUFFICES ASSUME NEW m \in S, next[m] # Null, NEW k \in W
               PROVE  height[next[m]] < height[k] \/ k \in Reached(next[m], {next})
    BY <1>1
  <2>1. m \in NodeId /\ next[m] \in NodeId /\ k \in NodeId
    BY <1>1
  <2>2. height[next[m]] < height[m] /\ height[m] \in Nat /\ height[k] \in Nat
        /\ height[next[m]] \in Nat
    BY <2>1 DEF Falls
  <2>3. Reached(m, {next}) = {m} \cup Reached(next[m], {next})
    BY <2>1, WalkUnfolds
  <2>4. CASE height[m] < height[k]
    BY <2>2, <2>4
  <2>5. CASE k \in Reached(m, {next})
    BY <2>2, <2>3, <2>5
  <2> QED
    BY <2>4, <2>5
<1>4. W \subseteq S
  <2> HIDE DEF S
  <2> QED
    BY <1>2, <1>3, ReachedWithin
<1> QED
  BY <1>4

(* A walk has one end, the lowest node, and passes no node twice.          *)
LEMMA WalkEnd ==
    ASSUME NEW n \in NodeId, NEW next \in [NodeId -> NodeId \cup {Null}],
           NEW height, Falls(next, height), NEW W, W = Reached(n, {next})
    PROVE  /\ \E m \in W : next[m] = Null
           /\ \A m, k \in W : next[m] = Null => height[m] <= height[k]
           /\ \A m, k \in W : next[m] = next[k] => m = k
<1>1. /\ n \in W /\ W \subseteq NodeId
      /\ \A m \in W : next[m] # Null => next[m] \in W
  BY WalkStart
<1>2. \A m, k \in W : height[m] < height[k] \/ k \in Reached(m, {next})
  BY WalkOrder
<1>3. \A m \in W : height[m] \in Nat
  BY <1>1 DEF Falls
<1>4. \E m \in W : next[m] = Null
  <2> DEFINE H == {height[m] : m \in W}
  <2>1. PICK x \in H : \A y \in H : x <= y
    <3>1. H \subseteq Nat /\ H # {}
      BY <1>1, <1>3
    <3> HIDE DEF H
    <3> QED
      BY <3>1, LeastNumber
  <2>2. PICK m \in W : x = height[m]
    OBVIOUS
  <2>3. SUFFICES ASSUME next[m] # Null PROVE FALSE
    OBVIOUS
  <2>4. next[m] \in W /\ height[next[m]] < height[m] /\ height[next[m]] \in H
    BY <1>1, <2>3 DEF Falls
  <2> QED
    BY <1>3, <2>1, <2>2, <2>4
<1>5. ASSUME NEW m \in W, NEW k \in W, next[m] = Null
      PROVE  height[m] <= height[k]
  <2>1. Reached(m, {next}) = {m}
    BY <1>1, <1>5, WalkUnfolds
  <2> QED
    BY <1>2, <1>3, <2>1
<1>6. ASSUME NEW m \in W, NEW k \in W, next[m] = next[k]
      PROVE  ~(height[m] < height[k])
  <2> SUFFICES ASSUME height[m] < height[k]
               PROVE  FALSE
    OBVIOUS
  <2>1. m \in Reached(k, {next}) /\ m # k
    <3>1. ~(height[k] < height[m]) /\ m # k
      BY <1>3
    <3>2. m \in Reached(k, {next})
      BY <1>2, <3>1, Zenon
    <3> QED
      BY <3>1, <3>2
  <2>2. next[k] # Null /\ m \in Reached(next[k], {next})
    <3>1. Reached(k, {next}) =
              {k} \cup (IF next[k] = Null THEN {} ELSE Reached(next[k], {next}))
      BY <1>1, WalkUnfolds
    <3> QED
      BY <2>1, <3>1
  <2>3. next[k] \in NodeId
    BY <1>1, <2>2
  <2>4. m = next[k] \/ height[m] < height[next[k]]
    BY <2>2, <2>3, WalkFalls, Zenon
  <2>5. height[next[k]] < height[m] /\ height[next[k]] \in Nat /\ height[m] \in Nat
    BY <1>1, <1>6, <2>2, <2>3 DEF Falls
  <2> QED
    BY <2>5, <2>4
<1>7. ASSUME NEW m \in W, NEW k \in W, next[m] = next[k], m # k
      PROVE  FALSE
  <2>1. height[m] = height[k]
    <3>1. ~(height[m] < height[k])
      BY <1>6, <1>7, Zenon
    <3>2. ~(height[k] < height[m])
      BY <1>6, <1>7, Zenon
    <3> QED
      BY <1>3, <3>1, <3>2
  <2>2. k \in NodeId
    BY <1>1
  <2>3. height[k] < height[m] \/ m \in Reached(k, {next})
    BY <1>2
  <2>4. height[m] < height[k]
    <3>1. m \in Reached(k, {next})
      BY <1>3, <2>1, <2>3
    <3>2. m = k \/ height[m] < height[k]
      BY <2>2, <3>1, WalkFalls, Zenon
    <3> QED
      BY <1>7, <3>2, Zenon
  <2> QED
    BY <1>3, <2>1, <2>4
<1> QED
  BY <1>4, <1>5, <1>7

-----------------------------------------------------------------------------
(* Sifting swaps the data along a walk.                                    *)

Slots == [NodeId -> Item \cup {NoItem}]

Used(d) == {n \in NodeId : d[n] # NoItem}

(* What the nodes hold after a walk.                                       *)
LEMMA SwappedValue ==
    ASSUME NEW n \in NodeId, NEW next \in [NodeId -> NodeId \cup {Null}],
           NEW d \in Slots, NEW x \in Item \cup {NoItem},
           NEW W, W = Reached(n, {next})
    PROVE  Swapped(d, x, n, next) =
             [m \in NodeId |-> IF m \notin W THEN d[m]
                               ELSE IF next[m] = Null THEN x ELSE d[next[m]]]
<1>1. n \in W /\ W \subseteq NodeId
  BY ReachedClosed
<1>2. CASE next[n] = Null
  <2>1. W = {n}
    BY <1>2, WalkUnfolds
  <2> QED
    BY <1>1, <1>2, <2>1 DEF Swapped, Slots
<1>3. CASE next[n] # Null
  BY <1>1, <1>3 DEF Swapped, Slots
<1> QED
  BY <1>2, <1>3

(* Nodes are numbers other than 0, and the root is one.                    *)
LEMMA NodeFacts == NodeId \subseteq Nat /\ Root \in NodeId /\ Null \notin NodeId
BY HeapAssumption DEF NodeId, Root, Null

(* Where each datum comes from: a one-to-one map of the nodes onto         *)
(* themselves that takes the end of the walk to its start.                 *)
Turned(n, next) ==
    [m \in NodeId |-> IF m \notin Reached(n, {next}) THEN m
                      ELSE IF next[m] = Null THEN n ELSE next[m]]

(* Turning the walk's nodes round is one-to-one and onto, and stays on the *)
(* walk.                                                                   *)
LEMMA WalkTurns ==
    ASSUME NEW n \in NodeId, NEW next \in [NodeId -> NodeId \cup {Null}],
           NEW height, Falls(next, height), NEW W, W = Reached(n, {next})
    PROVE  /\ Turned(n, next) \in [NodeId -> NodeId]
           /\ \A m, k \in NodeId : Turned(n, next)[m] = Turned(n, next)[k] => m = k
           /\ \A m \in NodeId : \E k \in NodeId : Turned(n, next)[k] = m
           /\ \A m \in NodeId : m \in W <=> Turned(n, next)[m] \in W
           /\ \A m \in W : next[m] # n
<1>1. n \in W /\ W \subseteq NodeId /\ \A m \in W : next[m] # Null => next[m] \in W
  BY WalkStart
<1>2. \A m \in W : m = n \/ height[m] < height[n]
  BY WalkStart
<1>3. \A m \in W : m = n \/ \E k \in W : next[k] = m
  BY WalkStart
<1>4. \E m \in W : next[m] = Null
  BY WalkEnd
<1>5. \A m, k \in W : next[m] = next[k] => m = k
  BY WalkEnd
<1> DEFINE from == Turned(n, next)
<1>6. from = [m \in NodeId |-> IF m \notin W THEN m
                               ELSE IF next[m] = Null THEN n ELSE next[m]]
  BY DEF Turned
<1> HIDE DEF from
<1>7. from \in [NodeId -> NodeId]
  BY <1>1, <1>6
<1>8. \A m \in W : next[m] # n
  <2> SUFFICES ASSUME NEW m \in W, next[m] = n
               PROVE  FALSE
    OBVIOUS
  <2>1. height[n] < height[m] /\ height[n] \in Nat /\ height[m] \in Nat
    BY <1>1, NodeFacts DEF Falls
  <2>2. m # n => height[m] < height[n]
    BY <1>2
  <2> QED
    BY <2>1, <2>2
<1>9. \A m \in NodeId : m \in W <=> from[m] \in W
  BY <1>1, <1>6
<1>10. ASSUME NEW m \in NodeId, NEW k \in NodeId, from[m] = from[k]
      PROVE  m = k
  <2>1. CASE m \notin W
    BY <1>6, <1>9, <1>10, <2>1
  <2>2. CASE m \in W
    <3>1. k \in W
      BY <1>9, <1>10, <2>2
    <3>2. next[m] = next[k]
      BY <1>6, <1>8, <1>10, <2>2, <3>1
    <3> QED
      BY <1>5, <2>2, <3>1, <3>2
  <2> QED
    BY <2>1, <2>2
<1>11. ASSUME NEW m \in NodeId
      PROVE  \E k \in NodeId : from[k] = m
  <2>1. CASE m \notin W
    BY <1>6, <2>1
  <2>2. CASE m = n
    BY <1>1, <1>4, <1>6, <2>2
  <2>3. CASE m \in W /\ m # n
    BY <1>1, <1>3, <1>6, <2>3, NodeFacts
  <2> QED
    BY <2>1, <2>2, <2>3
<1> QED
  BY <1>7, <1>8, <1>9, <1>10, <1>11 DEF from

(* e uses the nodes f uses, for the same data, once each if f does.        *)
Keeps(f, e) ==
    /\ e \in Slots
    /\ Used(e) = Used(f)
    /\ {e[m] : m \in Used(e)} = {f[m] : m \in Used(f)}
    /\ (\A m, k \in Used(f) : m # k => f[m] # f[k])
         => \A m, k \in Used(e) : m # k => e[m] # e[k]

(* Swapping fills n and leaves the same nodes in use, with the same data   *)
(* in them, once each.                                                     *)
LEMMA SwappedKeeps ==
    ASSUME NEW n \in NodeId, NEW next \in [NodeId -> NodeId \cup {Null}],
           NEW height, Falls(next, height),
           NEW d \in Slots, NEW x \in Item,
           \A m \in NodeId : next[m] # Null => d[next[m]] # NoItem,
           NEW f, f = [d EXCEPT ![n] = x],
           NEW e, e = Swapped(d, x, n, next)
    PROVE  Keeps(f, e)
<1> DEFINE W == Reached(n, {next})
           from == Turned(n, next)
<1>1. W = Reached(n, {next})
  OBVIOUS
<1>2. from = Turned(n, next)
  OBVIOUS
<1> HIDE DEF W, from
<1>3. /\ from \in [NodeId -> NodeId]
      /\ \A m, k \in NodeId : from[m] = from[k] => m = k
      /\ \A m \in NodeId : \E k \in NodeId : from[k] = m
      /\ \A m \in NodeId : m \in W <=> from[m] \in W
      /\ \A m \in W : next[m] # n
  BY <1>1, <1>2, WalkTurns
<1>4. /\ n \in W /\ W \subseteq NodeId
      /\ \A m \in W : m = n \/ \E k \in W : next[k] = m
  <2>1. n \in W /\ W \subseteq NodeId
    BY <1>1, WalkStart
  <2>2. \A m \in W : m = n \/ \E k \in W : next[k] = m
    BY <1>1, WalkStart
  <2> QED
    BY <2>1, <2>2
<1>5. e = [m \in NodeId |-> IF m \notin W THEN d[m]
                            ELSE IF next[m] = Null THEN x ELSE d[next[m]]]
  BY <1>1, SwappedValue
<1>6. from = [m \in NodeId |-> IF m \notin W THEN m
                               ELSE IF next[m] = Null THEN n ELSE next[m]]
  BY <1>1, <1>2 DEF Turned
<1>7. f \in Slots /\ f[n] = x /\ x # NoItem /\ \A m \in NodeId : m # n => f[m] = d[m]
  BY HeapAssumption DEF Slots
<1>8. ASSUME NEW m \in NodeId
      PROVE  e[m] = f[from[m]]
  BY <1>3, <1>4, <1>5, <1>6, <1>7
<1>9. e \in Slots
  BY <1>3, <1>5, <1>7, <1>8 DEF Slots
<1>10. ASSUME NEW m \in W
       PROVE  f[m] # NoItem
  BY <1>3, <1>4, <1>7, NodeFacts
<1>11. \A m \in NodeId : f[from[m]] = NoItem <=> f[m] = NoItem
  BY <1>3, <1>6, <1>10
<1>12. Used(e) = Used(f)
  BY <1>8, <1>11 DEF Used
<1>13. {e[m] : m \in Used(e)} \subseteq {f[m] : m \in Used(f)}
  BY <1>3, <1>8, <1>11, <1>12 DEF Used
<1>14. {f[m] : m \in Used(f)} \subseteq {e[m] : m \in Used(e)}
  <2> SUFFICES ASSUME NEW v \in {f[m] : m \in Used(f)}
               PROVE  \E k \in Used(e) : e[k] = v
    OBVIOUS
  <2>1. PICK m \in Used(f) : v = f[m]
    OBVIOUS
  <2>2. PICK k \in NodeId : from[k] = m
    BY <1>3 DEF Used
  <2>3. e[k] = f[m] /\ f[m] # NoItem
    BY <1>8, <2>2 DEF Used
  <2>4. k \in Used(e)
    BY <2>3 DEF Used
  <2> QED
    BY <2>1, <2>3, <2>4
<1>15. ASSUME \A m, k \in Used(f) : m # k => f[m] # f[k],
              NEW m \in Used(e), NEW k \in Used(e), m # k
       PROVE  e[m] # e[k]
  <2>1. m \in NodeId /\ k \in NodeId /\ e[m] = f[from[m]] /\ e[k] = f[from[k]]
    BY <1>8 DEF Used
  <2>2. from[m] \in Used(f) /\ from[k] \in Used(f) /\ from[m] # from[k]
    BY <1>3, <1>11, <1>12, <1>15, <2>1 DEF Used
  <2> QED
    BY <1>15, <2>1, <2>2
<1> QED
  BY <1>9, <1>12, <1>13, <1>14, <1>15 DEF Keeps

-----------------------------------------------------------------------------
(* What sifting does to the order: p gives each node its parent.           *)

Rooted(p, d) == \A m \in Used(d) \ {Root} : p[m] \in Used(d)

Sorted(p, d) == \A m \in Used(d) \ {Root} : key[d[p[m]]] <= key[d[m]]

Parents == {p \in [NodeId -> NodeId \cup {Null}] : \A m \in NodeId : p[m] < m}

(* The walk of tc_heap_add_adjust climbs from node to parent.              *)
Rise(p, x) == [m \in NodeId |->
    IF m = Root \/ p[m] = Null \/ data[p[m]] = NoItem \/ After(x, data[p[m]])
    THEN Null ELSE p[m]]

Up == [m \in NodeId |-> m]

(* A datum that rises goes from a node to a lower one, so its walk ends.   *)
LEMMA RiseFalls ==
    ASSUME NEW p \in Parents, NEW x
    PROVE  /\ Rise(p, x) \in [NodeId -> NodeId \cup {Null}]
           /\ Falls(Rise(p, x), Up)
<1>1. Rise(p, x) \in [NodeId -> NodeId \cup {Null}]
  BY DEF Rise, Parents
<1>2. ASSUME NEW m \in NodeId, Rise(p, x)[m] # Null
      PROVE  Up[Rise(p, x)[m]] < Up[m]
  BY <1>2 DEF Rise, Parents, Up
<1> QED
  BY <1>1, <1>2, NodeFacts DEF Falls, Up

(* tc_heap_add_adjust fills the node it starts from and keeps the data.    *)
LEMMA SiftUpKeeps ==
    ASSUME NEW p \in Parents, NEW n \in NodeId, NEW x \in Item, data \in Slots,
           NEW f, f = [data EXCEPT ![n] = x]
    PROVE  Keeps(f, SiftUp(p, x, n))
<1> DEFINE next == Rise(p, x)
           e == Swapped(data, x, n, next)
<1>1. next \in [NodeId -> NodeId \cup {Null}] /\ Falls(next, Up)
  BY RiseFalls
<1>2. \A m \in NodeId : next[m] # Null => data[next[m]] # NoItem
  BY DEF Rise
<1>3. SiftUp(p, x, n) = e
  BY DEF SiftUp, Rise
<1>4. e = Swapped(data, x, n, next)
  OBVIOUS
<1> HIDE DEF next, e
<1>5. Keeps(f, e)
  BY <1>4, <1>1, <1>2, SwappedKeeps
<1> QED
  BY <1>3, <1>5

(* An ordered tree is ordered when tc_heap_add_adjust has added an item    *)
(* to an empty node under a full one.                                      *)
LEMMA SiftUpSorts ==
    ASSUME NEW p \in Parents, NEW n \in NodeId, NEW x \in Item, data \in Slots,
           key \in [Item -> Int], data[n] = NoItem,
           Rooted(p, data), Sorted(p, data), n # Root => p[n] \in Used(data),
           NEW e, e = SiftUp(p, x, n)
    PROVE  Sorted(p, e)
<1> DEFINE next == Rise(p, x)
           f == [data EXCEPT ![n] = x]
           W == Reached(n, {next})
<1>1. next \in [NodeId -> NodeId \cup {Null}] /\ Falls(next, Up)
  BY RiseFalls
<1>2. /\ \A m \in NodeId : next[m] # Null =>
            /\ next[m] = p[m] /\ m # Root /\ p[m] # Null
            /\ data[p[m]] # NoItem /\ ~After(x, data[p[m]])
      /\ \A m \in NodeId : next[m] = Null /\ m # Root /\ p[m] \in Used(data) =>
            After(x, data[p[m]])
  BY NodeFacts DEF Rise, Used
<1>3. e = Swapped(data, x, n, next)
  BY DEF SiftUp, Rise
<1>4. f = [data EXCEPT ![n] = x] /\ W = Reached(n, {next})
  OBVIOUS
<1>5. e \in Slots /\ Used(e) = Used(f)
  BY SiftUpKeeps DEF Keeps
<1>6. Used(f) = Used(data) \cup {n}
  BY HeapAssumption DEF Used, Slots
<1> HIDE DEF next, f, W
<1>7. n \in W /\ W \subseteq NodeId /\ \A m \in W : next[m] # Null => next[m] \in W
  BY <1>1, <1>4, WalkStart
<1>8. \A m \in W : m = n \/ \E k \in W : next[k] = m
  BY <1>1, <1>4, WalkStart
<1>9. \A m, k \in W : next[m] = Null => Up[m] <= Up[k]
  BY <1>1, <1>4, WalkEnd
<1>10. e = [m \in NodeId |-> IF m \notin W THEN data[m]
                             ELSE IF next[m] = Null THEN x ELSE data[next[m]]]
  BY <1>1, <1>3, <1>4, SwappedValue
<1>11. \A m \in Used(data) : data[m] \in Item /\ key[data[m]] \in Int
  BY DEF Used, Slots
<1>12. \A a, b \in Item : key[a] \in Int /\ key[b] \in Int /\ (After(a, b) <=> key[a] > key[b])
  BY DEF After
<1> SUFFICES ASSUME NEW m \in Used(e) \ {Root}
             PROVE  key[e[p[m]]] <= key[e[m]]
  BY DEF Sorted
<1>13. /\ m \in NodeId /\ p[m] \in Used(data) /\ p[m] \in NodeId
       /\ p[m] # n /\ p[m] < m
       /\ m # n => m \in Used(data) /\ key[data[p[m]]] <= key[data[m]]
  BY <1>5, <1>6 DEF Rooted, Sorted, Used, Parents
<1> DEFINE q == p[m]
<1>14. /\ m \in NodeId /\ q \in NodeId /\ q \in Used(data) /\ q # n /\ q < m /\ q = p[m]
       /\ m # n => m \in Used(data) /\ key[data[q]] <= key[data[m]]
  BY <1>13
<1> HIDE DEF q
(* A parent on the walk gets the item, or what was in its own parent:      *)
(* both come no later than what it held.                                   *)
<1>15. ASSUME q \in W
       PROVE  key[e[q]] <= key[data[q]]
  <2>1. PICK k \in W : next[k] = q
    BY <1>8, <1>14, <1>15
  <2>2. key[x] <= key[data[q]]
    BY <1>2, <1>7, <1>11, <1>12, <1>14, <2>1, NodeFacts
  <2>3. CASE next[q] = Null
    BY <1>10, <1>14, <1>15, <2>2, <2>3
  <2>4. CASE next[q] # Null
    <3>1. e[q] = data[p[q]] /\ q # Root
      BY <1>2, <1>10, <1>14, <1>15, <2>4
    <3> QED
      BY <1>14, <3>1 DEF Sorted
  <2> QED
    BY <2>3, <2>4
<1>16. CASE m \notin W
  <2>1. m # n /\ e[m] = data[m]
    BY <1>7, <1>10, <1>14, <1>16
  <2>2. e[q] = data[q] \/ key[e[q]] <= key[data[q]]
    BY <1>10, <1>14, <1>15
  <2>3. key[e[q]] \in Int
    <3>1. q \in Used(e)
      BY <1>5, <1>6, <1>14
    <3>2. e[q] \in Item
      BY <1>5, <3>1 DEF Used, Slots
    <3> QED
      BY <3>2
  <2>4. key[data[m]] \in Int /\ key[data[q]] \in Int /\ key[data[q]] <= key[data[m]]
    BY <1>11, <1>14, <2>1
  <2>5. key[e[q]] <= key[data[q]]
    BY <2>2, <2>4
  <2> QED
    BY <1>14, <2>1, <2>3, <2>4, <2>5
<1>17. CASE m \in W /\ next[m] = Null
  <2>1. e[m] = x /\ After(x, data[q])
    BY <1>2, <1>10, <1>14, <1>17
  <2>2. q \notin W
    <3> SUFFICES ASSUME q \in W
                 PROVE  FALSE
      OBVIOUS
    <3>1. Up[m] <= Up[q]
      BY <1>9, <1>17
    <3>2. Up[m] = m /\ Up[q] = q /\ m \in Nat /\ q \in Nat
      BY <1>14, NodeFacts DEF Up
    <3> QED
      BY <1>14, <3>1, <3>2
  <2>3. e[q] = data[q]
    BY <1>10, <1>14, <2>2
  <2> QED
    BY <1>11, <1>12, <1>14, <2>1, <2>3
<1>18. CASE m \in W /\ next[m] # Null
  <2>1. next[m] = q /\ q \in W /\ e[m] = data[q]
    BY <1>2, <1>7, <1>10, <1>14, <1>18
  <2> QED
    BY <1>14, <1>15, <2>1
<1> QED
  BY <1>14, <1>16, <1>17, <1>18

(* x stays below the root when the root holds what comes before it.        *)
LEMMA SiftUpKeepsRoot ==
    ASSUME NEW p \in Parents, NEW n \in NodeId, NEW x \in Item, data \in Slots,
           n # Root, data[Root] # NoItem, After(x, data[Root])
    PROVE  SiftUp(p, x, n)[Root] = data[Root]
<1> DEFINE next == Rise(p, x)
           W == Reached(n, {next})
<1>1. next \in [NodeId -> NodeId \cup {Null}] /\ Falls(next, Up)
  BY RiseFalls
<1>2. \A m \in NodeId : next[m] # Root
  BY NodeFacts DEF Rise
<1>3. SiftUp(p, x, n) = Swapped(data, x, n, next)
  BY DEF SiftUp, Rise
<1>4. W = Reached(n, {next})
  OBVIOUS
<1> HIDE DEF next, W
<1>5. W \subseteq NodeId
  BY <1>1, <1>4, WalkStart
<1>6. \A m \in W : m = n \/ \E k \in W : next[k] = m
  BY <1>1, <1>4, WalkStart
<1>7. Root \notin W
  BY <1>2, <1>5, <1>6
<1>8. Swapped(data, x, n, next) =
        [m \in NodeId |-> IF m \notin W THEN data[m]
                          ELSE IF next[m] = Null THEN x ELSE data[next[m]]]
  BY <1>1, <1>4, SwappedValue
<1> QED
  BY <1>3, <1>7, <1>8, NodeFacts

(* The two children of a node have it as their parent.                     *)
Linked ==
    /\ left \in [NodeId -> NodeId \cup {Null}]
    /\ right \in [NodeId -> NodeId \cup {Null}]
    /\ \A n \in NodeId : left[n] = Null <=> right[n] = Null
    /\ \A n \in NodeId : left[n] # Null => left[n] # right[n]
    /\ \A n \in NodeId : \A c \in {left[n], right[n]} : c # Null => n < c /\ parent[c] = n

(* The walk of tc_heap_del_adjust goes from node to child.                 *)
Sink(d, x) == [m \in NodeId |->
    IF \/ left[m] = Null /\ right[m] = Null
       \/ x = NoItem \/ d[Child(d, m)] = NoItem \/ ~After(x, d[Child(d, m)])
    THEN Null ELSE Child(d, m)]

Down == [m \in NodeId |-> MaxNode - m]

(* The child that a datum may sink to is a child of the node, and exists if*)
(* the node has any.                                                       *)
LEMMA ChildIsOne ==
    ASSUME Linked, NEW d, NEW n \in NodeId
    PROVE  /\ Child(d, n) \in {left[n], right[n]}
           /\ Child(d, n) \in NodeId \cup {Null}
           /\ Child(d, n) # Null => n < Child(d, n) /\ parent[Child(d, n)] = n
           /\ left[n] # Null \/ right[n] # Null => Child(d, n) \in NodeId
BY DEF Child, Linked

(* It goes to the child whose datum comes first.                           *)
LEMMA ChildLeast ==
    ASSUME Linked, NEW d \in Slots, NEW n \in NodeId, key \in [Item -> Int],
           NEW c \in Used(d), c \in {left[n], right[n]}
    PROVE  Child(d, n) \in Used(d) /\ key[d[Child(d, n)]] <= key[d[c]]
<1>1. \A m \in Used(d) : m \in NodeId /\ m # Null /\ d[m] \in Item /\ key[d[m]] \in Int
  BY NodeFacts DEF Used, Slots
<1>2. \A m \in NodeId \cup {Null} : Full(d, m) <=> m \in Used(d)
  BY NodeFacts DEF Full, Used
<1>3. left[n] \in NodeId \cup {Null} /\ right[n] \in NodeId \cup {Null}
  BY DEF Linked
<1>4. CASE Full(d, left[n]) /\ Full(d, right[n])
  BY <1>1, <1>2, <1>3, <1>4 DEF Child, After
<1>5. CASE ~(Full(d, left[n]) /\ Full(d, right[n]))
  BY <1>1, <1>2, <1>3, <1>5 DEF Child
<1> QED
  BY <1>4, <1>5

(* A datum that sinks goes from a node to a higher one, so its walk ends.  *)
LEMMA SinkFalls ==
    ASSUME Linked, NEW d, NEW x
    PROVE  /\ Sink(d, x) \in [NodeId -> NodeId \cup {Null}]
           /\ Falls(Sink(d, x), Down)
<1>1. Sink(d, x) \in [NodeId -> NodeId \cup {Null}]
  BY ChildIsOne DEF Sink
<1>2. Down \in [NodeId -> Nat]
  BY HeapAssumption DEF Down, NodeId
<1>3. ASSUME NEW m \in NodeId, Sink(d, x)[m] # Null
      PROVE  Down[Sink(d, x)[m]] < Down[m]
  <2>1. Sink(d, x)[m] \in NodeId /\ m < Sink(d, x)[m]
    BY <1>1, <1>3, ChildIsOne DEF Sink
  <2> QED
    BY <2>1, HeapAssumption DEF Down, NodeId
<1> QED
  BY <1>1, <1>2, <1>3 DEF Falls

(* tc_heap_del_adjust keeps the data of the nodes in use.                  *)
LEMMA SiftDownKeeps ==
    ASSUME Linked, NEW d \in Slots, NEW x \in Item, d[Root] = x
    PROVE  Keeps(d, SiftDown(d, x))
<1> DEFINE next == Sink(d, x)
           e == Swapped(d, x, Root, next)
           f == [d EXCEPT ![Root] = x]
<1>1. next \in [NodeId -> NodeId \cup {Null}] /\ Falls(next, Down)
  BY SinkFalls
<1>2. \A m \in NodeId : next[m] # Null => d[next[m]] # NoItem
  BY DEF Sink
<1>3. SiftDown(d, x) = e
  BY DEF SiftDown, Sink
<1>4. e = Swapped(d, x, Root, next) /\ f = [d EXCEPT ![Root] = x]
  OBVIOUS
<1>5. f = d
  BY NodeFacts DEF Slots
<1> HIDE DEF next, e, f
<1>6. Keeps(f, e)
  BY <1>1, <1>2, <1>4, SwappedKeeps, NodeFacts
<1> QED
  BY <1>3, <1>5, <1>6

(* When each full node but the root is the child of its parent, and the    *)
(* order holds below the root, tc_heap_del_adjust makes it hold.           *)
LEMMA SiftDownSorts ==
    ASSUME Linked, parent \in Parents, NEW d \in Slots, NEW x \in Item, d[Root] = x,
           key \in [Item -> Int], Rooted(parent, d),
           \A m \in Used(d) \ {Root} : parent[m] # Root => key[d[parent[m]]] <= key[d[m]],
           \A m \in Used(d) \ {Root} : m \in {left[parent[m]], right[parent[m]]},
           NEW e, e = SiftDown(d, x)
    PROVE  Sorted(parent, e)
<1> DEFINE next == Sink(d, x)
           W == Reached(Root, {next})
<1>1. next \in [NodeId -> NodeId \cup {Null}] /\ Falls(next, Down)
  BY SinkFalls
<1>2. \A m \in NodeId : next[m] # Null =>
        /\ next[m] \in NodeId /\ m < next[m] /\ parent[next[m]] = m
        /\ next[m] = Child(d, m) /\ next[m] \in Used(d) /\ After(x, d[next[m]])
  <2> SUFFICES ASSUME NEW m \in NodeId, next[m] # Null
               PROVE  /\ next[m] \in NodeId /\ m < next[m] /\ parent[next[m]] = m
                      /\ next[m] = Child(d, m) /\ next[m] \in Used(d)
                      /\ After(x, d[next[m]])
    OBVIOUS
  <2>1. next[m] = Child(d, m) /\ d[next[m]] # NoItem /\ After(x, d[next[m]])
    BY DEF Sink
  <2> QED
    BY <1>1, <2>1, ChildIsOne DEF Used
<1>3. ASSUME NEW m \in NodeId, next[m] = Null, NEW c \in Used(d),
             c \in {left[m], right[m]}
      PROVE  ~After(x, d[Child(d, m)])
  <2>1. Child(d, m) \in Used(d)
    BY <1>3, ChildLeast
  <2>2. d[Child(d, m)] # NoItem /\ x # NoItem /\ c # Null
    BY <2>1, HeapAssumption, NodeFacts DEF Used
  <2>3. Child(d, m) # Null
    BY <2>1, NodeFacts DEF Used
  <2> QED
    BY <1>3, <2>2, <2>3 DEF Sink
<1>4. e = Swapped(d, x, Root, next) /\ W = Reached(Root, {next})
  BY DEF SiftDown, Sink
<1>5. Used(e) = Used(d)
  BY SiftDownKeeps DEF Keeps
<1> HIDE DEF next, W
<1>6. Root \in W /\ W \subseteq NodeId /\ \A m \in W : next[m] # Null => next[m] \in W
  BY <1>1, <1>4, WalkStart, NodeFacts
<1>7. \A m \in W : m = Root \/ \E k \in W : next[k] = m
  BY <1>1, <1>4, WalkStart, NodeFacts
<1>8. e = [m \in NodeId |-> IF m \notin W THEN d[m]
                            ELSE IF next[m] = Null THEN x ELSE d[next[m]]]
  BY <1>1, <1>4, SwappedValue, NodeFacts
<1>9. \A m \in Used(d) : m \in NodeId /\ d[m] \in Item /\ key[d[m]] \in Int
  BY DEF Used, Slots
<1>10. \A a, b \in Item : key[a] \in Int /\ key[b] \in Int /\ (After(a, b) <=> key[a] > key[b])
  BY DEF After
<1> SUFFICES ASSUME NEW m \in Used(e) \ {Root}
             PROVE  key[e[parent[m]]] <= key[e[m]]
  BY DEF Sorted
<1> DEFINE q == parent[m]
<1>11. /\ m \in Used(d) /\ m # Root /\ m \in NodeId /\ q \in Used(d) /\ q \in NodeId
       /\ q = parent[m] /\ m \in {left[q], right[q]}
       /\ q # Root => key[d[q]] <= key[d[m]]
  BY <1>5, <1>9 DEF Rooted
<1> HIDE DEF q
(* The first of the children comes no later than this one.                 *)
<1>12. Child(d, q) \in Used(d) /\ key[d[Child(d, q)]] <= key[d[m]]
  BY <1>11, ChildLeast
<1>13. CASE m \notin W
  <2>1. e[m] = d[m]
    BY <1>8, <1>11, <1>13
  <2>2. CASE q \notin W
    BY <1>6, <1>8, <1>11, <2>1, <2>2
  <2>3. CASE q \in W /\ next[q] = Null
    <3>1. ~After(x, d[Child(d, q)]) /\ e[q] = x
      BY <1>3, <1>8, <1>11, <2>3
    <3>2. key[x] <= key[d[Child(d, q)]]
      BY <1>9, <1>10, <1>12, <3>1
    <3>3. key[x] \in Int /\ key[d[Child(d, q)]] \in Int /\ key[d[m]] \in Int
      BY <1>9, <1>10, <1>11, <1>12
    <3> QED
      BY <1>11, <1>12, <2>1, <3>1, <3>2, <3>3
  <2>4. CASE q \in W /\ next[q] # Null
    <3>1. e[q] = d[Child(d, q)]
      BY <1>2, <1>8, <1>11, <2>4
    <3> QED
      BY <1>11, <1>12, <2>1, <3>1
  <2> QED
    BY <2>2, <2>3, <2>4
<1>14. CASE m \in W
  <2>1. q \in W /\ next[q] = m /\ e[q] = d[m]
    <3>1. PICK k \in W : next[k] = m
      BY <1>7, <1>11, <1>14
    <3>2. k = q
      BY <1>2, <1>6, <1>11, <3>1, NodeFacts
    <3> QED
      BY <1>8, <1>11, <3>1, <3>2, NodeFacts
  <2>2. After(x, d[m])
    BY <1>2, <1>11, <2>1, NodeFacts
  <2>3. CASE next[m] = Null
    <3>1. e[m] = x /\ d[m] \in Item /\ key[d[m]] < key[x]
      BY <1>8, <1>9, <1>10, <1>11, <1>14, <2>2, <2>3
    <3> QED
      BY <1>10, <1>11, <2>1, <3>1
  <2>4. CASE next[m] # Null
    <3>1. e[m] = d[next[m]] /\ next[m] \in Used(d) /\ parent[next[m]] = m /\ m < next[m]
      BY <1>2, <1>8, <1>11, <1>14, <2>4
    <3>2. next[m] # Root
      BY <1>11, <3>1 DEF NodeId, Root
    <3>3. key[d[m]] <= key[d[next[m]]]
      BY <1>11, <3>1, <3>2
    <3> QED
      BY <1>11, <2>1, <3>1, <3>3
  <2> QED
    BY <2>3, <2>4
<1> QED
  BY <1>11, <1>13, <1>14

-----------------------------------------------------------------------------
(* The order of the queue's nodes.                                         *)

Before(q, a, b) == \E i, j \in DOMAIN q : i < j /\ q[i] = a /\ q[j] = b

(* A node at the end comes after all the others.                           *)
LEMMA AppendBefore ==
    ASSUME NEW S, NEW s \in Seq(S), NEW e \in S
    PROVE  /\ \A a, b \in S : Before(s, a, b) => Before(Append(s, e), a, b)
           /\ \A a \in Elements(s) : Before(Append(s, e), a, e)
<1> DEFINE q == Append(s, e)
<1>1. /\ q \in Seq(S)
      /\ Len(q) = Len(s) + 1
      /\ \A i \in 1 .. Len(s) : q[i] = s[i]
      /\ q[Len(s) + 1] = e
  BY AppendProperties
<1>2. Len(s) \in Nat /\ DOMAIN s = 1 .. Len(s) /\ DOMAIN q = 1 .. Len(s) + 1
  BY <1>1, LenProperties
<1> HIDE DEF q
<1>3. ASSUME NEW a \in S, NEW b \in S, Before(s, a, b)
      PROVE  Before(q, a, b)
  BY <1>1, <1>2, <1>3 DEF Before
<1>4. ASSUME NEW a \in Elements(s)
      PROVE  Before(q, a, e)
  BY <1>1, <1>2 DEF Before, Elements
<1> QED
  BY <1>3, <1>4 DEF q

(* Taking the first node keeps the order of the others.                    *)
LEMMA TailBefore ==
    ASSUME NEW S, NEW s \in Seq(S), s # <<>>
    PROVE  /\ \A a, b \in S : Before(s, a, b) /\ a # Head(s) => Before(Tail(s), a, b)
           /\ NoRepeat(s) => \A a \in S : ~Before(s, a, Head(s))
<1> DEFINE q == Tail(s)
<1>1. /\ Head(s) = s[1]
      /\ Len(q) = Len(s) - 1
      /\ q \in Seq(S)
      /\ \A i \in 1 .. Len(q) : q[i] = s[i + 1]
  BY HeadTailProperties
<1>2. Len(s) \in Nat \ {0} /\ DOMAIN s = 1 .. Len(s) /\ DOMAIN q = 1 .. Len(s) - 1
  BY <1>1, LenProperties, EmptySeq
<1> HIDE DEF q
<1>3. ASSUME NEW a \in S, NEW b \in S, Before(s, a, b), a # Head(s)
      PROVE  Before(q, a, b)
  <2>1. PICK i \in 1 .. Len(s), j \in 1 .. Len(s) : i < j /\ s[i] = a /\ s[j] = b
    BY <1>2, <1>3 DEF Before
  <2>2. i - 1 \in DOMAIN q /\ j - 1 \in DOMAIN q /\ i - 1 < j - 1
    BY <1>1, <1>2, <1>3, <2>1
  <2>3. q[i - 1] = a /\ q[j - 1] = b
    BY <1>1, <1>2, <2>1, <2>2
  <2> QED
    BY <2>2, <2>3 DEF Before
<1>4. ASSUME NoRepeat(s), NEW a \in S, Before(s, a, Head(s))
      PROVE  FALSE
  BY <1>1, <1>2, <1>4 DEF Before, NoRepeat
<1> QED
  BY <1>3, <1>4 DEF q

(* A node put at the head comes before all the others.                     *)
LEMMA ConsBefore ==
    ASSUME NEW S, NEW s \in Seq(S), NEW e \in S
    PROVE  /\ <<e>> \o s \in Seq(S)
           /\ <<e>> \o s # <<>>
           /\ Elements(<<e>> \o s) = Elements(s) \cup {e}
           /\ NoRepeat(s) /\ e \notin Elements(s) => NoRepeat(<<e>> \o s)
           /\ \A a, b \in S : Before(s, a, b) => Before(<<e>> \o s, a, b)
           /\ \A b \in Elements(s) : Before(<<e>> \o s, e, b)
           /\ Head(<<e>> \o s) = e
<1> DEFINE q == <<e>> \o s
<1>1. <<e>> \in Seq(S) /\ Len(<<e>>) = 1 /\ <<e>>[1] = e
  OBVIOUS
<1>2. /\ q \in Seq(S)
      /\ Len(q) = Len(s) + 1
      /\ \A i \in 1 .. Len(s) + 1 : q[i] = IF i <= 1 THEN <<e>>[i] ELSE s[i - 1]
  <2>1. Len(s) \in Nat
    BY LenProperties
  <2> QED
    BY <1>1, <2>1, ConcatProperties
<1>3. Len(s) \in Nat /\ DOMAIN s = 1 .. Len(s) /\ DOMAIN q = 1 .. Len(s) + 1
  BY <1>2, LenProperties
<1> HIDE DEF q
<1>4. q[1] = e /\ \A i \in 1 .. Len(s) : i + 1 \in DOMAIN q /\ q[i + 1] = s[i]
  BY <1>1, <1>2, <1>3
<1>5. Elements(q) = Elements(s) \cup {e}
  <2>1. ASSUME NEW v \in Elements(q)
        PROVE  v \in Elements(s) \cup {e}
    <3>1. PICK i \in 1 .. Len(s) + 1 : v = q[i]
      BY <1>3 DEF Elements
    <3> QED
      BY <1>1, <1>2, <1>3, <3>1 DEF Elements
  <2>2. ASSUME NEW v \in Elements(s)
        PROVE  v \in Elements(q)
    BY <1>3, <1>4 DEF Elements
  <2>3. e \in Elements(q)
    BY <1>3, <1>4 DEF Elements
  <2> QED
    BY <2>1, <2>2, <2>3
<1>6. ASSUME NoRepeat(s), e \notin Elements(s)
      PROVE  NoRepeat(q)
  <2> SUFFICES ASSUME NEW i \in 1 .. Len(s) + 1, NEW j \in 1 .. Len(s) + 1, q[i] = q[j]
               PROVE  i = j
    BY <1>3 DEF NoRepeat
  <2>1. \A k \in 1 .. Len(s) : s[k] # e
    BY <1>3, <1>6 DEF Elements
  <2>2. \A k \in 1 .. Len(s) + 1 : k = 1 \/ (k - 1 \in 1 .. Len(s) /\ q[k] = s[k - 1])
    BY <1>2, <1>3
  <2>3. CASE i = 1 \/ j = 1
    BY <1>4, <2>1, <2>2, <2>3
  <2>4. CASE i # 1 /\ j # 1
    <3>1. i - 1 = j - 1
      BY <1>3, <1>6, <2>2, <2>4 DEF NoRepeat
    <3> QED
      BY <3>1
  <2> QED
    BY <2>3, <2>4
<1>7. ASSUME NEW a \in S, NEW b \in S, Before(s, a, b)
      PROVE  Before(q, a, b)
  <2>1. PICK i \in 1 .. Len(s), j \in 1 .. Len(s) : i < j /\ s[i] = a /\ s[j] = b
    BY <1>3, <1>7 DEF Before
  <2>2. i + 1 \in DOMAIN q /\ j + 1 \in DOMAIN q /\ i + 1 < j + 1
    BY <1>4, <2>1
  <2>3. q[i + 1] = a /\ q[j + 1] = b
    BY <1>4, <2>1
  <2> QED
    BY <2>2, <2>3 DEF Before
<1>8. ASSUME NEW b \in Elements(s)
      PROVE  Before(q, e, b)
  <2>1. PICK i \in 1 .. Len(s) : s[i] = b
    BY <1>3 DEF Elements
  <2>2. 1 \in DOMAIN q /\ i + 1 \in DOMAIN q /\ 1 < i + 1
    BY <1>3, <1>4, <2>1
  <2> QED
    BY <1>4, <2>1, <2>2 DEF Before
<1>9. q # <<>> /\ Head(q) = e
  BY <1>2, <1>3, <1>4, EmptySeq, HeadTailProperties
<1> QED
  BY <1>2, <1>5, <1>6, <1>7, <1>8, <1>9 DEF q

(* Deleting a node keeps the order of the others.                          *)
LEMMA DeleteBefore ==
    ASSUME NEW S, NEW s \in Seq(S), NEW e
    PROVE  \A a, b \in S \ {e} : Before(s, a, b) => Before(Delete(s, e), a, b)
<1>1. Len(s) \in Nat /\ DOMAIN s = 1 .. Len(s)
  BY LenProperties
<1>2. CASE e \notin Elements(s)
  BY <1>2 DEF Delete
<1>3. CASE e \in Elements(s)
  <2> DEFINE k == CHOOSE i \in 1 .. Len(s) : s[i] = e
             d == [i \in 1 .. Len(s) - 1 |-> IF i < k THEN s[i] ELSE s[i + 1]]
  <2>1. k \in 1 .. Len(s) /\ s[k] = e
    BY <1>1, <1>3 DEF Elements
  <2>2. Delete(s, e) = d
    BY <1>3 DEF Delete
  <2> HIDE DEF k
  <2> SUFFICES ASSUME NEW a \in S \ {e}, NEW b \in S \ {e}, Before(s, a, b)
               PROVE  Before(d, a, b)
    BY <2>2
  <2>3. PICK i \in 1 .. Len(s), j \in 1 .. Len(s) : i < j /\ s[i] = a /\ s[j] = b
    BY <1>1 DEF Before
  <2> DEFINE Place(n) == IF n < k THEN n ELSE n - 1
  <2>4. \A n \in 1 .. Len(s) : n # k => Place(n) \in DOMAIN d /\ d[Place(n)] = s[n]
    BY <1>1, <2>1
  <2>5. Place(i) < Place(j) /\ i # k /\ j # k
    BY <1>1, <2>1, <2>3
  <2> HIDE DEF Place, d
  <2> QED
    BY <2>3, <2>4, <2>5 DEF Before
<1> QED
  BY <1>2, <1>3

-----------------------------------------------------------------------------
(* The inductive invariant.                                                *)

Nodes == 1 .. allocated

(* Nodes are numbered in the order they are allocated in: a parent comes   *)
(* before its children, which come in pairs.                               *)
Shaped ==
    /\ parent \in Parents
    /\ \A n \in Nodes \ {Root} : parent[n] \in Nodes
    /\ Linked
    /\ \A n \in NodeId \ Nodes : data[n] = NoItem /\ left[n] = Null /\ right[n] = Null

(* Until a node gets children again each node is a child of its parent.    *)
Fresh == ~regrown => \A n \in Nodes \ {Root} : n \in {left[parent[n]], right[parent[n]]}

(* The queue names the empty nodes first, and of two of them a parent      *)
(* before its child.                                                       *)
Queued ==
    /\ QueueHasRoom
    /\ Elements(queue) \subseteq Nodes
    /\ \A m, n \in Elements(queue) : data[m] = NoItem /\ data[n] # NoItem => Before(queue, m, n)
    /\ \A n \in Nodes \ {Root} : data[n] = NoItem /\ data[parent[n]] = NoItem =>
          Before(queue, parent[n], n)

(* s is the nodes in use in the order they were put to use: the root came  *)
(* first, each other one after its parent, and prev leads back over them.  *)
Chain(k, s) ==
    /\ s \in [1 .. k -> NodeId]
    /\ \A i, j \in 1 .. k : s[i] = s[j] => i = j
    /\ {s[i] : i \in 1 .. k} = InUse
    /\ k > 0 => s[1] = Root /\ s[k] = last
    /\ k = 0 => last = Root /\ Head(queue) = Root
    /\ \A i \in 2 .. k : prev[s[i]] = s[i - 1] /\ \E j \in 1 .. i - 1 : s[j] = parent[s[i]]

RootPrev == prev[Root] \in {Null, Root}

InChain == RootPrev /\ \E k \in Nat : \E s \in [1 .. k -> NodeId] : Chain(k, s)

(* Nodes are only allocated when all are in use.                           *)
Bounded == NodesBounded /\ (regrown => Cardinality(Item) > 3)

Ordered == ~regrown => Sorted(parent, data)

Freed == freed # {} /\ ~regrown => freed = Nodes

(* What holds of the structure, whatever the ranks are and become.         *)
HeapSound ==
    /\ TypeOK
    /\ Shaped
    /\ Fresh
    /\ KeepsItems
    /\ Queued
    /\ InChain
    /\ Bounded
    /\ Freed

HeapInv == HeapSound /\ Ordered

(* The nodes in use hang together: the root is one, and so is the parent   *)
(* of any other.                                                           *)
LEMMA InUseRooted ==
    ASSUME InChain
    PROVE  Rooted(parent, data) /\ (InUse # {} => Root \in InUse)
<1>1. PICK k \in Nat : \E s \in [1 .. k -> NodeId] : Chain(k, s)
  BY DEF InChain
<1>2. PICK s \in [1 .. k -> NodeId] : Chain(k, s)
  BY <1>1
<1>3. ASSUME NEW m \in InUse
      PROVE  Root \in InUse /\ (m = Root \/ parent[m] \in InUse)
  <2>1. PICK i \in 1 .. k : m = s[i]
    BY <1>2 DEF Chain
  <2>2. s[1] = Root /\ 1 \in 1 .. k
    BY <1>2, <2>1 DEF Chain
  <2>3. Root \in InUse
    BY <1>2, <2>2 DEF Chain
  <2>4. CASE i = 1
    BY <2>1, <2>2, <2>3, <2>4
  <2>5. CASE i # 1
    <3>1. PICK j \in 1 .. i - 1 : s[j] = parent[m]
      BY <1>2, <2>1, <2>5 DEF Chain
    <3>2. j \in 1 .. k
      BY <2>1, <3>1
    <3> QED
      BY <1>2, <2>3, <3>1, <3>2 DEF Chain
  <2> QED
    BY <2>4, <2>5
<1> QED
  BY <1>3 DEF Rooted, InUse, Used

(* The first node of the queue is empty and under a full one, or no node   *)
(* is empty.                                                               *)
LEMMA QueueHead ==
    ASSUME TypeOK, Shaped, Queued, InChain, NEW n, n = Head(queue)
    PROVE  /\ n \in Nodes /\ n \in NodeId
           /\ data[n] = NoItem /\ n # Root => parent[n] \in InUse
           /\ data[n] # NoItem => InUse = Nodes
<1>1. queue \in Seq(NodeId) /\ queue # <<>> /\ NoRepeat(queue)
  BY DEF TypeOK, Queued, QueueHasRoom
<1>2. n \in Elements(queue) /\ n \in Nodes /\ n \in NodeId
  BY <1>1, PopElements DEF Queued
<1>3. \A m \in NodeId : ~Before(queue, m, n)
  BY <1>1, TailBefore
<1>4. Nodes \subseteq NodeId
  BY HeapAssumption DEF TypeOK, Nodes, NodeId
<1>5. ASSUME data[n] = NoItem, n # Root
      PROVE  parent[n] \in InUse
  <2>1. parent[n] \in NodeId
    BY <1>2, <1>4, <1>5 DEF Shaped
  <2>2. data[parent[n]] # NoItem
    BY <1>2, <1>3, <1>5, <2>1 DEF Queued
  <2> QED
    BY <2>1, <2>2 DEF InUse
<1>6. ASSUME data[n] # NoItem
      PROVE  InUse = Nodes
  <2>1. ASSUME NEW m \in Nodes, data[m] = NoItem
        PROVE  FALSE
    <3>1. m \in Elements(queue) /\ m \in NodeId
      BY <1>4, <2>1 DEF Queued, QueueHasRoom, Nodes
    <3> QED
      BY <1>2, <1>3, <1>6, <2>1, <3>1 DEF Queued
  <2>2. \A m \in NodeId \ Nodes : data[m] = NoItem
    BY DEF Shaped
  <2> QED
    BY <1>4, <2>1, <2>2 DEF InUse
<1> QED
  BY <1>2, <1>5, <1>6

(* A node that is put to use joins the chain.                              *)
LEMMA ChainGrows ==
    ASSUME TypeOK, InChain, NEW n \in NodeId \ InUse,
           InUse' = InUse \cup {n}, prev' = Chained(n), last' = n,
           InUse = {} => n = Root,
           \A m \in InUse : parent'[m] = parent[m],
           n # Root => parent'[n] \in InUse
    PROVE  InChain'
<1>1. PICK k \in Nat : \E s \in [1 .. k -> NodeId] : Chain(k, s)
  BY DEF InChain
<1>2. PICK s \in [1 .. k -> NodeId] : Chain(k, s)
  BY <1>1
<1> DEFINE t == [i \in 1 .. k + 1 |-> IF i = k + 1 THEN n ELSE s[i]]
<1>3. /\ k + 1 \in Nat /\ t \in [1 .. k + 1 -> NodeId] /\ t[k + 1] = n
      /\ \A i \in 1 .. k : i \in 1 .. k + 1 /\ t[i] = s[i] /\ s[i] \in InUse /\ t[i] # n
      /\ \A i \in 1 .. k + 1 : i = k + 1 \/ i \in 1 .. k
  BY <1>2 DEF Chain
<1> HIDE DEF t
<1>4. \A i, j \in 1 .. k + 1 : t[i] = t[j] => i = j
  <2>1. \A i, j \in 1 .. k : t[i] = t[j] => i = j
    BY <1>2, <1>3 DEF Chain
  <2> QED
    BY <1>3, <2>1
<1>5. {t[i] : i \in 1 .. k + 1} = InUse'
  <2>1. \A i \in 1 .. k + 1 : t[i] \in InUse \cup {n}
    BY <1>3
  <2>2. ASSUME NEW m \in InUse \cup {n}
        PROVE  \E i \in 1 .. k + 1 : t[i] = m
    <3>1. k + 1 \in 1 .. k + 1
      BY <1>3
    <3>2. CASE m \in InUse
      <4>1. PICK i \in 1 .. k : s[i] = m
        BY <1>2, <3>2 DEF Chain
      <4> QED
        BY <1>3, <4>1
    <3> QED
      BY <1>3, <3>1, <3>2
  <2> QED
    BY <2>1, <2>2
<1>6. k = 0 => InUse = {}
  BY <1>2 DEF Chain
<1>7. t[1] = Root
  BY <1>2, <1>3, <1>6 DEF Chain
<1>8. \A m \in NodeId : prev'[m] = IF m = n THEN last ELSE prev[m]
  BY DEF Chained, TypeOK
<1>9. ASSUME NEW i \in 2 .. k + 1
      PROVE  prev'[t[i]] = t[i - 1] /\ \E j \in 1 .. i - 1 : t[j] = parent'[t[i]]
  <2>1. CASE i = k + 1
    <3>1. k > 0 /\ k \in 1 .. k /\ i - 1 = k
      BY <1>2, <2>1
    <3>2. prev'[n] = s[k] /\ t[i - 1] = s[k]
      BY <1>2, <1>3, <1>8, <3>1 DEF Chain
    <3>3. n # Root
      BY <1>3, <1>4, <1>7, <2>1, <3>1
    <3>4. PICK j \in 1 .. k : s[j] = parent'[n]
      BY <1>2, <3>3 DEF Chain
    <3> QED
      BY <1>3, <2>1, <3>1, <3>2, <3>4
  <2>2. CASE i # k + 1
    <3>1. i \in 2 .. k /\ i - 1 \in 1 .. k /\ i \in 1 .. k
      BY <1>2, <2>2
    <3>2. prev[s[i]] = s[i - 1] /\ \E j \in 1 .. i - 1 : s[j] = parent[s[i]]
      BY <1>2, <3>1 DEF Chain
    <3>3. t[i] = s[i] /\ s[i] # n /\ s[i] \in NodeId /\ t[i - 1] = s[i - 1]
          /\ parent'[s[i]] = parent[s[i]]
      BY <1>3, <3>1
    <3>4. \A j \in 1 .. i - 1 : t[j] = s[j]
      BY <1>3, <3>1
    <3> QED
      BY <1>8, <3>2, <3>3, <3>4
  <2> QED
    BY <2>1, <2>2
<1>10. Chain(k + 1, t)'
  BY <1>3, <1>4, <1>5, <1>7, <1>9 DEF Chain
<1>11. RootPrev'
  <2>1. n = Root => last = Root
    <3>1. k > 0 => s[1] = Root /\ s[1] \in InUse
      BY <1>2, <1>3 DEF Chain
    <3> QED
      BY <1>2, <3>1 DEF Chain
  <2> QED
    BY <1>8, <2>1, NodeFacts DEF InChain, RootPrev
<1> QED
  BY <1>3, <1>10, <1>11 DEF InChain

(* An item in a node that was empty joins the items inside.                *)
LEMMA FillKeeps ==
    ASSUME data \in Slots, KeepsItems, NEW n \in NodeId \ InUse,
           NEW x \in Item, x \notin inside, Keeps([data EXCEPT ![n] = x], data'),
           inside' = inside \cup {x}
    PROVE  data' \in Slots /\ InUse' = InUse \cup {n} /\ KeepsItems'
<1> DEFINE f == [data EXCEPT ![n] = x]
<1>1. f[n] = x /\ x # NoItem /\ \A m \in NodeId : m # n => f[m] = data[m]
  BY HeapAssumption DEF Slots
<1>2. Keeps(f, data')
  OBVIOUS
<1> HIDE DEF f
<1>3. Used(f) = InUse \cup {n}
  BY <1>1 DEF Used, InUse
<1>4. InUse' = Used(data')
  BY DEF InUse, Used
<1>5. \A m \in InUse : m # n /\ m \in NodeId /\ f[m] = data[m] /\ data[m] # x
  BY <1>1 DEF InUse, KeepsItems
<1>6. \A m, k \in Used(f) : m # k => f[m] # f[k]
  BY <1>1, <1>3, <1>5 DEF KeepsItems
<1>7. {f[m] : m \in Used(f)} = inside \cup {x}
  <2>1. \A m \in Used(f) : f[m] \in inside \cup {x}
    BY <1>1, <1>3, <1>5 DEF KeepsItems
  <2>2. ASSUME NEW v \in inside \cup {x}
        PROVE  \E m \in Used(f) : f[m] = v
    <3>1. CASE v = x
      BY <1>1, <1>3, <3>1
    <3>2. CASE v \in inside
      <4>1. PICK m \in InUse : data[m] = v
        BY <3>2 DEF KeepsItems
      <4> QED
        BY <1>3, <1>5, <4>1
    <3> QED
      BY <3>1, <3>2
  <2> QED
    BY <2>1, <2>2
<1>8. Used(data') = Used(f) /\ data' \in Slots
  BY <1>2 DEF Keeps
<1>9. {data'[m] : m \in InUse'} = inside'
  BY <1>2, <1>4, <1>7, <1>8 DEF Keeps
<1>10. \A m, k \in InUse' : m # k => data'[m] # data'[k]
  BY <1>2, <1>4, <1>6, <1>8 DEF Keeps
<1> QED
  BY <1>3, <1>4, <1>8, <1>9, <1>10 DEF KeepsItems

(* An item goes to the first empty node.                                   *)
LEMMA ReuseKeeps ==
    ASSUME HeapSound, NEW x \in Item, freed = {}, x \notin inside, Reuse(x),
           inside' = inside \cup {x}, UNCHANGED <<freed, key>>
    PROVE  HeapSound' /\ (Ordered => Ordered')
<1> DEFINE n == Head(queue)
           f == [data EXCEPT ![n] = x]
<1>1. /\ TypeOK /\ Shaped /\ Queued /\ InChain /\ KeepsItems
      /\ data \in Slots /\ parent \in Parents /\ queue \in Seq(NodeId) /\ queue # <<>>
      /\ NoRepeat(queue) /\ Elements(queue) \subseteq Nodes
  BY DEF HeapSound, TypeOK, Slots, Shaped, Queued, QueueHasRoom
<1>2. /\ n = Head(queue) /\ data[n] = NoItem /\ data' = SiftUp(parent, x, n)
      /\ prev' = Chained(n) /\ last' = n
      /\ queue' = Append(Tail(queue), n)
      /\ UNCHANGED <<allocated, tree, regrown>>
  BY DEF Reuse
<1> HIDE DEF n
<1>3. n \in Nodes /\ n \in NodeId /\ n \notin InUse /\ (n # Root => parent[n] \in InUse)
  BY <1>1, <1>2, QueueHead DEF InUse
<1>4. Keeps(f, data')
  BY <1>1, <1>2, <1>3, SiftUpKeeps
<1>5. data' \in Slots /\ InUse' = InUse \cup {n} /\ KeepsItems'
  BY <1>1, <1>3, <1>4, FillKeeps
<1> HIDE DEF f
<1>6. Nodes' = Nodes /\ Nodes \subseteq NodeId /\ parent' = parent /\ left' = left /\ right' = right
  BY <1>1, <1>2, HeapAssumption DEF Nodes, tree, TypeOK, NodeId
<1>7. \A m \in NodeId : data'[m] = NoItem <=> (m # n /\ data[m] = NoItem)
  BY <1>5 DEF InUse
<1>8. /\ Tail(queue) \in Seq(NodeId) /\ NoRepeat(Tail(queue)) /\ n \notin Elements(Tail(queue))
      /\ Elements(queue) = Elements(Tail(queue)) \cup {n}
  BY <1>1, <1>2, PopElements
<1>9. /\ queue' \in Seq(NodeId) /\ queue' # <<>> /\ NoRepeat(queue')
      /\ Elements(queue') = Elements(queue)
  <2> DEFINE q == Tail(queue)
  <2>1. q \in Seq(NodeId) /\ NoRepeat(q) /\ n \notin Elements(q) /\ queue' = Append(q, n)
    BY <1>2, <1>8
  <2>2. Elements(queue) = Elements(q) \cup {n}
    BY <1>8
  <2> HIDE DEF q
  <2>3. queue' \in Seq(NodeId) /\ Len(queue') = Len(q) + 1
    BY <1>3, <2>1, AppendElements
  <2>4. Elements(queue') = Elements(q) \cup {n} /\ NoRepeat(queue')
    BY <1>3, <2>1, AppendElements
  <2> QED
    BY <2>1, <2>2, <2>3, <2>4, EmptySeq, LenProperties
<1>10. \A a, b \in NodeId : Before(queue, a, b) /\ a # n => Before(queue', a, b)
  BY <1>1, <1>2, <1>3, <1>8, TailBefore, AppendBefore
<1>11. \A a \in Elements(queue) : a # n => Before(queue', a, n)
  BY <1>2, <1>3, <1>8, AppendBefore
<1>12. Queued'
  <2>1. QueueHasRoom'
    BY <1>1, <1>6, <1>7, <1>9 DEF QueueHasRoom, Queued, Nodes
  <2>2. \A a, b \in Elements(queue') :
           data'[a] = NoItem /\ data'[b] # NoItem => Before(queue', a, b)
    BY <1>1, <1>6, <1>7, <1>9, <1>10, <1>11 DEF Queued
  <2>3. \A m \in Nodes' \ {Root} : data'[m] = NoItem /\ data'[parent'[m]] = NoItem =>
           Before(queue', parent'[m], m)
    <3> SUFFICES ASSUME NEW m \in Nodes \ {Root}, data'[m] = NoItem,
                        data'[parent[m]] = NoItem
                 PROVE  Before(queue', parent[m], m)
      BY <1>6
    <3>1. m \in NodeId /\ parent[m] \in NodeId
      BY <1>1, <1>6 DEF Shaped
    <3> QED
      BY <1>1, <1>7, <1>10, <3>1 DEF Queued
  <2> QED
    BY <1>1, <1>6, <1>9, <2>1, <2>2, <2>3 DEF Queued
<1>13. InUse = {} => n = Root /\ last = Root
  <2>1. PICK k \in Nat : \E s \in [1 .. k -> NodeId] : Chain(k, s)
    BY <1>1 DEF InChain
  <2>2. PICK s \in [1 .. k -> NodeId] : Chain(k, s)
    BY <2>1
  <2>3. ASSUME InUse = {}
        PROVE  k = 0
    <3> SUFFICES ASSUME k # 0
                 PROVE  FALSE
      OBVIOUS
    <3>1. s[1] \in InUse
      BY <2>2 DEF Chain
    <3> QED
      BY <2>3, <3>1
  <2> QED
    BY <1>2, <2>2, <2>3 DEF Chain
<1>14. InChain'
  BY <1>1, <1>2, <1>3, <1>5, <1>6, <1>13, ChainGrows
<1>15. Shaped'
  BY <1>1, <1>3, <1>6, <1>7 DEF Shaped, Linked
<1>16. TypeOK'
  <2>1. prev' \in [NodeId -> 0 .. allocated]
    BY <1>1, <1>2 DEF TypeOK, Chained
  <2>2. inside' \subseteq Item /\ last' \in 1 .. allocated
    BY <1>1, <1>2, <1>3 DEF TypeOK, Nodes
  <2> QED
    BY <1>1, <1>2, <1>5, <1>6, <1>9, <2>1, <2>2 DEF TypeOK, Slots
<1>17. Ordered => Ordered'
  <2> SUFFICES ASSUME Ordered, ~regrown
               PROVE  Sorted(parent, data')
    BY <1>2, <1>6 DEF Ordered, Sorted
  <2>1. key \in [Item -> Int] /\ Sorted(parent, data)
    BY HeapAssumption DEF HeapSound, TypeOK, Ordered
  <2>2. Rooted(parent, data) /\ (n # Root => parent[n] \in Used(data))
    BY <1>1, <1>3, InUseRooted DEF InUse, Used
  <2> QED
    BY <1>1, <1>2, <1>3, <2>1, <2>2, SiftUpSorts
<1>18. Fresh' /\ Bounded' /\ Freed'
  BY <1>2, <1>6 DEF HeapSound, Fresh, Bounded, NodesBounded, Freed
<1> QED
  BY <1>5, <1>12, <1>14, <1>15, <1>16, <1>17, <1>18 DEF HeapSound

(* When all nodes are in use and an item is not, the items are more.       *)
LEMMA MoreItems ==
    ASSUME TypeOK, KeepsItems, InUse = Nodes, NEW x \in Item \ inside
    PROVE  allocated + 1 <= Cardinality(Item) /\ Cardinality(Item) \in Nat
<1> DEFINE f == [m \in Nodes |-> data[m]]
           T == Item \ {x}
<1>1. f \in Injection(Nodes, T)
  <2>1. \A m \in Nodes : data[m] \in inside
    BY DEF KeepsItems
  <2>2. inside \subseteq T
    BY DEF TypeOK
  <2>3. \A m, k \in Nodes : data[m] = data[k] => m = k
    BY DEF KeepsItems
  <2>4. f \in [Nodes -> T]
    BY <2>1, <2>2
  <2>5. IsInjective(f)
    BY <2>3 DEF IsInjective
  <2> QED
    BY <2>4, <2>5 DEF Injection
<1>2. IsFiniteSet(Item) /\ Cardinality(Item) \in Nat
  BY HeapAssumption, FS_CardinalityType
<1>3. IsFiniteSet(T) /\ Cardinality(T) = Cardinality(Item) - 1
  BY <1>2, FS_RemoveElement
<1>4. Cardinality(Nodes) = allocated
  <2>1. allocated \in Nat \ {0}
    BY NodeFacts DEF TypeOK, NodeId
  <2> QED
    BY <2>1, FS_Interval DEF Nodes
<1> HIDE DEF f, T
<1>5. Cardinality(Nodes) <= Cardinality(T)
  BY <1>1, <1>3, FS_Injection
<1>6. allocated \in Nat
  BY NodeFacts DEF TypeOK
<1> QED
  BY <1>2, <1>3, <1>4, <1>5, <1>6

(* When no node is empty the first of the queue gets two children: a full  *)
(* one and an empty one.                                                   *)
LEMMA GrowKeeps ==
    ASSUME HeapSound, NEW x \in Item, freed = {}, x \notin inside, Grow(x),
           inside' = inside \cup {x}, UNCHANGED <<freed, key>>
    PROVE  HeapSound' /\ (Ordered => Ordered')
<1> DEFINE n == Head(queue)
           l == allocated + 1
           r == allocated + 2
           f == [data EXCEPT ![l] = x]
<1>1. /\ TypeOK /\ Shaped /\ Queued /\ InChain /\ KeepsItems /\ Linked
      /\ data \in Slots /\ parent \in Parents /\ queue \in Seq(NodeId) /\ queue # <<>>
      /\ NoRepeat(queue) /\ Elements(queue) \subseteq Nodes
  BY DEF HeapSound, TypeOK, Slots, Shaped, Queued, QueueHasRoom
<1>2. /\ n = Head(queue) /\ data[n] # NoItem /\ data' = SiftUp(parent', x, l)
      /\ prev' = Chained(l) /\ last' = l /\ queue' = NewChildren(l, r)
      /\ allocated' = r /\ r <= MaxNode
      /\ parent' = [parent EXCEPT ![l] = n, ![r] = n]
      /\ left' = [left EXCEPT ![n] = l] /\ right' = [right EXCEPT ![n] = r]
      /\ regrown' = (regrown \/ left[n] # Null)
  BY DEF Grow
<1>3. n \in Nodes /\ n \in NodeId /\ InUse = Nodes
  BY <1>1, <1>2, QueueHead
<1>4. /\ allocated \in Nat /\ allocated >= 1 /\ MaxNode \in Nat /\ Nodes \subseteq NodeId
      /\ l = allocated + 1 /\ r = allocated + 2 /\ l \in NodeId \ Nodes /\ r \in NodeId \ Nodes
      /\ l # r /\ n < l /\ n < r /\ l # Root /\ r # Root
      /\ Nodes' = Nodes \cup {l, r} /\ Nodes' \subseteq NodeId
  <2>1. allocated \in Nat /\ allocated >= 1 /\ MaxNode \in Nat
    BY <1>1, HeapAssumption DEF TypeOK, NodeId
  <2>2. allocated' = allocated + 2 /\ allocated + 2 <= MaxNode
    BY <1>2
  <2>3. n \in 1 .. allocated
    BY <1>3 DEF Nodes
  <2>4. Nodes' = Nodes \cup {l, r} /\ Nodes' \subseteq NodeId /\ Nodes \subseteq NodeId
    BY <2>1, <2>2 DEF NodeId, Nodes
  <2>5. l \in NodeId \ Nodes /\ r \in NodeId \ Nodes
    BY <2>1, <2>2 DEF NodeId, Nodes
  <2> QED
    BY <2>1, <2>3, <2>4, <2>5 DEF Root
<1> HIDE DEF n, l, r
<1>5. /\ \A m \in NodeId : parent'[m] = IF m = l \/ m = r THEN n ELSE parent[m]
      /\ \A m \in NodeId : left'[m] = IF m = n THEN l ELSE left[m]
      /\ \A m \in NodeId : right'[m] = IF m = n THEN r ELSE right[m]
      /\ \A m \in Nodes : parent'[m] = parent[m]
  BY <1>1, <1>2, <1>3, <1>4 DEF TypeOK
<1>6. parent' \in Parents
  <2>1. parent' \in [NodeId -> NodeId \cup {Null}]
    BY <1>1, <1>2, <1>3 DEF Parents
  <2>2. \A m \in NodeId : parent'[m] < m
    BY <1>1, <1>4, <1>5 DEF Parents
  <2> QED
    BY <2>1, <2>2 DEF Parents
<1>7. l \notin InUse /\ data[l] = NoItem
  BY <1>1, <1>3, <1>4 DEF InUse
<1>8. Keeps(f, data')
  BY <1>1, <1>2, <1>4, <1>6, SiftUpKeeps
<1>9. data' \in Slots /\ InUse' = InUse \cup {l} /\ KeepsItems'
  BY <1>1, <1>4, <1>7, <1>8, FillKeeps
<1> HIDE DEF f
<1>10. \A m \in NodeId : data'[m] = NoItem <=> m \notin Nodes /\ m # l
  BY <1>3, <1>9 DEF InUse
<1>11. InChain'
  <2>1. InUse # {}
    BY <1>3
  <2>2. l \in NodeId \ InUse /\ parent'[l] \in InUse
    BY <1>3, <1>4, <1>5, <1>7
  <2>3. \A m \in InUse : parent'[m] = parent[m]
    BY <1>3, <1>5
  <2> QED
    BY <1>1, <1>2, <1>9, <2>1, <2>2, <2>3, ChainGrows
<1>12. Shaped'
  <2>1. \A m \in Nodes' \ {Root} : parent'[m] \in Nodes'
    BY <1>1, <1>3, <1>4, <1>5 DEF Shaped
  <2>2. Linked'
    <3>1. left' \in [NodeId -> NodeId \cup {Null}] /\ right' \in [NodeId -> NodeId \cup {Null}]
      BY <1>1, <1>2, <1>4 DEF Linked
    <3>2. \A m \in NodeId : left'[m] = Null <=> right'[m] = Null
      BY <1>1, <1>4, <1>5, NodeFacts DEF Linked
    <3>3. ASSUME NEW m \in NodeId, NEW c \in {left'[m], right'[m]}, c # Null
          PROVE  m < c /\ parent'[c] = m
      <4>1. CASE m = n
        BY <1>3, <1>4, <1>5, <3>3, <4>1
      <4>2. CASE m # n
        <5>1. c \in {left[m], right[m]} /\ m < c /\ parent[c] = m /\ c \in NodeId
          BY <1>1, <1>5, <3>3, <4>2 DEF Linked
        <5>2. c \in Nodes
          <6>1. left[m] \in 0 .. allocated /\ right[m] \in 0 .. allocated
            BY <1>1 DEF TypeOK
          <6> QED
            BY <3>3, <5>1, <6>1 DEF Nodes, Null
        <5> QED
          BY <1>5, <5>1, <5>2
      <4> QED
        BY <4>1, <4>2
    <3>4. \A m \in NodeId : left'[m] # Null => left'[m] # right'[m]
      BY <1>1, <1>4, <1>5 DEF Linked
    <3> QED
      BY <3>1, <3>2, <3>3, <3>4 DEF Linked
  <2>3. \A m \in NodeId \ Nodes' : data'[m] = NoItem /\ left'[m] = Null /\ right'[m] = Null
    BY <1>1, <1>3, <1>4, <1>5, <1>10 DEF Shaped
  <2> QED
    BY <1>6, <2>1, <2>2, <2>3 DEF Shaped
<1>13. Fresh'
  <2> SUFFICES ASSUME ~regrown', NEW m \in Nodes' \ {Root}
               PROVE  m \in {left'[parent'[m]], right'[parent'[m]]}
    BY DEF Fresh
  <2>1. CASE m \in {l, r}
    BY <1>3, <1>4, <1>5, <2>1
  <2>2. CASE m \in Nodes
    <3>1. m \in {left[parent[m]], right[parent[m]]} /\ parent[m] \in NodeId /\ m \in NodeId
      BY <1>1, <1>2, <1>4, <2>2 DEF HeapSound, Fresh, Shaped
    <3>2. parent[m] # n
      <4>1. left[n] = Null /\ right[n] = Null
        BY <1>1, <1>2, <1>3 DEF Linked
      <4> QED
        BY <3>1, <4>1, NodeFacts
    <3> QED
      BY <1>5, <2>2, <3>1, <3>2
  <2> QED
    BY <1>4, <2>1, <2>2
<1>14. /\ queue' \in Seq(NodeId) /\ queue' # <<>> /\ NoRepeat(queue')
       /\ Elements(queue') \subseteq Nodes' /\ r \in Elements(queue')
       /\ \A b \in Elements(queue') : b # r => Before(queue', r, b)
  <2> DEFINE q == Tail(queue)
             p == Append(q, l)
  <2>1. q \in Seq(NodeId) /\ NoRepeat(q) /\ Elements(q) \subseteq Nodes /\ queue' = <<r>> \o p
    BY <1>1, <1>2, PopElements DEF NewChildren
  <2>2. p = Append(q, l)
    OBVIOUS
  <2> HIDE DEF q, p
  <2>3. p \in Seq(NodeId) /\ Elements(p) = Elements(q) \cup {l}
    BY <1>4, <2>1, <2>2, AppendElements
  <2>4. NoRepeat(p)
    <3>1. l \notin Elements(q)
      BY <1>4, <2>1
    <3> QED
      BY <1>4, <2>1, <2>2, <3>1, AppendElements
  <2>5. queue' \in Seq(NodeId) /\ queue' # <<>>
    BY <1>4, <2>1, <2>3, ConsBefore
  <2>6. Elements(queue') = Elements(p) \cup {r} /\ \A b \in Elements(p) : Before(queue', r, b)
    BY <1>4, <2>1, <2>3, ConsBefore
  <2>7. NoRepeat(queue')
    <3>1. r \notin Elements(p)
      BY <1>4, <2>1, <2>3
    <3> QED
      BY <1>4, <2>1, <2>3, <2>4, <3>1, ConsBefore
  <2> QED
    BY <1>4, <2>1, <2>3, <2>5, <2>6, <2>7
<1>15. Queued'
  <2>1. QueueHasRoom'
    BY <1>4, <1>10, <1>14 DEF QueueHasRoom, Nodes
  <2>2. \A a, b \in Elements(queue') :
           data'[a] = NoItem /\ data'[b] # NoItem => Before(queue', a, b)
    BY <1>4, <1>10, <1>14
  <2>3. \A m \in Nodes' \ {Root} : data'[m] = NoItem => data'[parent'[m]] # NoItem
    BY <1>3, <1>4, <1>5, <1>10
  <2> QED
    BY <1>14, <2>1, <2>2, <2>3 DEF Queued
<1>16. TypeOK'
  <2>1. 0 .. allocated \subseteq 0 .. allocated' /\ allocated' \in NodeId
    BY <1>2, <1>4 DEF NodeId
  <2>2. n \in 0 .. allocated' /\ l \in 0 .. allocated' /\ r \in 0 .. allocated'
    BY <1>2, <1>3, <1>4 DEF Nodes
  <2>3. /\ parent' \in [NodeId -> 0 .. allocated']
        /\ left' \in [NodeId -> 0 .. allocated']
        /\ right' \in [NodeId -> 0 .. allocated']
        /\ prev' \in [NodeId -> 0 .. allocated']
    <3>1. /\ parent \in [NodeId -> 0 .. allocated'] /\ left \in [NodeId -> 0 .. allocated']
          /\ right \in [NodeId -> 0 .. allocated'] /\ prev \in [NodeId -> 0 .. allocated']
          /\ last \in 0 .. allocated'
      <4> DEFINE A == 0 .. allocated
                 B == 0 .. allocated'
      <4>1. /\ parent \in [NodeId -> A] /\ left \in [NodeId -> A] /\ right \in [NodeId -> A]
            /\ prev \in [NodeId -> A]
        BY <1>1, Zenon DEF TypeOK
      <4>2. last \in A
        BY <1>1 DEF TypeOK
      <4>3. A \subseteq B
        BY <2>1
      <4> HIDE DEF A, B
      <4>4. /\ parent \in [NodeId -> B] /\ left \in [NodeId -> B] /\ right \in [NodeId -> B]
            /\ prev \in [NodeId -> B] /\ last \in B
        BY <4>1, <4>2, <4>3
      <4> QED
        BY <4>4 DEF B
    <3> QED
      BY <1>2, <2>2, <3>1 DEF Chained
  <2>4. last' \in 1 .. allocated' /\ inside' \subseteq Item /\ regrown' \in BOOLEAN
        /\ freed' \subseteq 1 .. allocated'
    BY <1>1, <1>2, <1>4 DEF TypeOK
  <2> QED
    BY <1>1, <1>9, <1>14, <2>1, <2>3, <2>4 DEF TypeOK, Slots
<1>17. Ordered => Ordered'
  <2> SUFFICES ASSUME Ordered, ~regrown
               PROVE  Sorted(parent', data')
    BY <1>2 DEF Ordered, Sorted
  <2>1. key \in [Item -> Int] /\ Sorted(parent, data)
    BY HeapAssumption DEF HeapSound, TypeOK, Ordered
  <2>2. Rooted(parent, data) /\ Used(data) = Nodes
    BY <1>1, <1>3, InUseRooted DEF InUse, Used
  <2>3. Rooted(parent', data) /\ Sorted(parent', data) /\ parent'[l] \in Used(data)
    BY <1>3, <1>4, <1>5, <2>1, <2>2 DEF Rooted, Sorted
  <2> QED
    BY <1>1, <1>2, <1>4, <1>6, <1>7, <2>1, <2>3, SiftUpSorts
<1>18. Bounded'
  <2>1. allocated + 1 <= Cardinality(Item) /\ Cardinality(Item) \in Nat
    BY <1>1, <1>3, MoreItems
  <2>2. NodesBounded'
    BY <1>2, <1>4, <2>1 DEF NodesBounded
  <2>3. left[n] # Null => allocated >= 3
    <3> SUFFICES ASSUME left[n] # Null
                 PROVE  allocated >= 3
      OBVIOUS
    <3>1. n < left[n] /\ n < right[n] /\ left[n] # right[n]
      BY <1>1, <1>3, NodeFacts DEF Linked
    <3>2. left[n] \in 0 .. allocated /\ right[n] \in 0 .. allocated /\ n \in 1 .. allocated
      BY <1>1, <1>3 DEF TypeOK, Nodes
    <3> QED
      BY <1>4, <3>1, <3>2
  <2>4. regrown => Cardinality(Item) > 3
    BY DEF HeapSound, Bounded
  <2>5. left[n] # Null => Cardinality(Item) > 3
    BY <1>4, <2>1, <2>3
  <2> QED
    BY <1>2, <2>2, <2>4, <2>5 DEF Bounded
<1>19. Freed'
  BY DEF Freed
<1> QED
  BY <1>9, <1>11, <1>12, <1>13, <1>15, <1>16, <1>17, <1>18, <1>19 DEF HeapSound

(* How the chain ends: tc_heap_node_del finds the node put to use before   *)
(* the last one, unless that is the root, and loses the last one's place.  *)
LEMMA ChainShrinks ==
    ASSUME TypeOK, InChain, last' = StepBack, InUse' = InUse \ {last},
           UNCHANGED <<prev, parent>>, Head(queue') = last
    PROVE  /\ InChain'
           /\ InUse = {} => last = Root
           /\ InUse # {} => last \in InUse
           /\ last' = last => last = Root /\ InUse \subseteq {Root}
           /\ last' # last => last # Root /\ Root \in InUse
           /\ \A m \in InUse \ {Root} : parent[m] # last
<1>1. PICK k \in Nat : \E s \in [1 .. k -> NodeId] : Chain(k, s)
  BY DEF InChain
<1>2. PICK s \in [1 .. k -> NodeId] : Chain(k, s)
  BY <1>1
<1>3. \A i \in 1 .. k : s[i] \in InUse /\ s[i] \in NodeId /\ s[i] # Null
  BY <1>2, NodeFacts DEF Chain
<1>4. \A m \in InUse : \E i \in 1 .. k : s[i] = m
  BY <1>2 DEF Chain
<1>5. \A i, j \in 1 .. k : s[i] = s[j] => i = j
  BY <1>2 DEF Chain
<1>6. CASE k = 0
  <2>1. InUse = {} /\ last = Root /\ last' = Root
    BY <1>2, <1>4, <1>6 DEF Chain, StepBack
  <2>2. Chain(0, s)'
    BY <1>2, <1>6, <2>1 DEF Chain
  <2>3. s \in [1 .. 0 -> NodeId] /\ 0 \in Nat
    BY <1>6
  <2>4. InChain'
    BY <2>2, <2>3 DEF InChain, RootPrev
  <2> QED
    BY <2>1, <2>4
<1>7. CASE k # 0
  <2>1. k \in 1 .. k /\ 1 \in 1 .. k /\ k > 0
    BY <1>7
  <2>2. s[1] = Root /\ s[k] = last /\ Root \in InUse /\ last \in InUse
    BY <1>2, <1>3, <2>1 DEF Chain
  <2>3. ASSUME NEW m \in InUse \ {Root}, parent[m] = last
        PROVE  FALSE
    <3>1. PICK i \in 1 .. k : s[i] = m
      BY <1>4
    <3>2. i \in 2 .. k
      BY <2>2, <2>3, <3>1
    <3>3. PICK j \in 1 .. i - 1 : s[j] = parent[s[i]]
      BY <1>2, <3>2 DEF Chain
    <3>4. j \in 1 .. k /\ j # k /\ s[j] = s[k]
      BY <2>2, <2>3, <3>1, <3>2, <3>3
    <3> QED
      BY <1>5, <2>1, <3>4
  <2>4. CASE k = 1
    <3>1. last = Root /\ last' = Root /\ InUse \subseteq {Root} /\ InUse' = {}
      BY <1>4, <2>2, <2>4 DEF StepBack
    <3> DEFINE t == [i \in 1 .. 0 |-> Root]
    <3>2. t \in [1 .. 0 -> NodeId] /\ Chain(0, t)'
      BY <3>1 DEF Chain
    <3>3. InChain'
      BY <3>2 DEF InChain, RootPrev
    <3> QED
      BY <2>2, <2>3, <3>1, <3>3
  <2>5. CASE k # 1
    <3>1. k - 1 \in Nat /\ k - 1 \in 1 .. k /\ k \in 2 .. k /\ k - 1 # k
      BY <2>1, <2>5
    <3>2. prev[last] = s[k - 1] /\ s[k - 1] # Null /\ s[k - 1] # last
      BY <1>2, <1>3, <1>5, <2>1, <2>2, <3>1 DEF Chain
    <3>3. last # Root
      BY <1>5, <2>1, <2>2, <2>5
    <3>4. last' = s[k - 1] /\ last' # last
      BY <3>2, <3>3 DEF StepBack
    <3> DEFINE t == [i \in 1 .. k - 1 |-> s[i]]
    <3>5. t \in [1 .. k - 1 -> NodeId] /\ \A i \in 1 .. k - 1 : t[i] = s[i] /\ i \in 1 .. k /\ i # k
      BY <1>3, <3>1
    <3> HIDE DEF t
    <3>6. \A i, j \in 1 .. k - 1 : t[i] = t[j] => i = j
      BY <1>5, <3>5
    <3>7. {t[i] : i \in 1 .. k - 1} = InUse'
      <4>1. \A i \in 1 .. k - 1 : t[i] \in InUse /\ t[i] # last
        BY <1>3, <1>5, <2>1, <2>2, <3>5
      <4>2. ASSUME NEW m \in InUse \ {last}
            PROVE  \E i \in 1 .. k - 1 : t[i] = m
        <5>1. PICK i \in 1 .. k : s[i] = m
          BY <1>4
        <5>2. i \in 1 .. k - 1
          BY <2>2, <3>1, <5>1
        <5> QED
          BY <3>5, <5>1, <5>2
      <4> QED
        BY <4>1, <4>2
    <3>8. t[1] = Root /\ t[k - 1] = last' /\ k - 1 > 0
      BY <2>2, <3>1, <3>4, <3>5
    <3>9. ASSUME NEW i \in 2 .. k - 1
          PROVE  prev[t[i]] = t[i - 1] /\ \E j \in 1 .. i - 1 : t[j] = parent[t[i]]
      <4>1. i \in 2 .. k /\ i \in 1 .. k - 1 /\ i - 1 \in 1 .. k - 1
            /\ \A j \in 1 .. i - 1 : j \in 1 .. k - 1
        BY <3>1
      <4>2. prev[s[i]] = s[i - 1] /\ \E j \in 1 .. i - 1 : s[j] = parent[s[i]]
        BY <1>2, <4>1 DEF Chain
      <4> QED
        BY <3>5, <4>1, <4>2
    <3>10. Chain(k - 1, t)'
      BY <3>5, <3>6, <3>7, <3>8, <3>9 DEF Chain
    <3>11. InChain'
      BY <3>1, <3>5, <3>10 DEF InChain, RootPrev
    <3> QED
      BY <2>2, <2>3, <3>3, <3>4, <3>11
  <2> QED
    BY <2>4, <2>5
<1> QED
  BY <1>6, <1>7

(* The last node's datum takes the place of the root's: one item fewer.    *)
LEMMA MovedToRoot ==
    ASSUME data \in Slots, KeepsItems, last \in NodeId,
           InUse = {} => last = Root, InUse # {} => last \in InUse /\ Root \in InUse,
           NEW d, d = MoveLastToRoot
    PROVE  /\ d \in Slots
           /\ \A m \in NodeId : d[m] = IF m = last THEN NoItem
                                       ELSE IF m = Root THEN data[last] ELSE data[m]
           /\ Used(d) = InUse \ {last}
           /\ {d[m] : m \in Used(d)} = inside \ {data[Root]}
           /\ \A m, k \in Used(d) : m # k => d[m] # d[k]
<1>1. d \in Slots
  BY NodeFacts DEF MoveLastToRoot, Slots
<1>2. \A m \in NodeId : d[m] = IF m = last THEN NoItem
                               ELSE IF m = Root THEN data[last] ELSE data[m]
  BY DEF MoveLastToRoot, Slots
<1>3. Used(d) = InUse \ {last}
  BY <1>2 DEF Used, InUse
<1>4. \A m, k \in InUse : m # k => data[m] # data[k]
  BY DEF KeepsItems
<1>5. \A m, k \in Used(d) : m # k => d[m] # d[k]
  BY <1>2, <1>3, <1>4 DEF InUse
<1>6. \A m \in Used(d) : d[m] \in inside \ {data[Root]}
  <2> SUFFICES ASSUME NEW m \in Used(d)
               PROVE  d[m] \in inside \ {data[Root]}
    OBVIOUS
  <2>1. m \in InUse /\ m # last /\ last \in InUse /\ Root \in InUse /\ m \in NodeId
    BY <1>3 DEF InUse
  <2>2. CASE m = Root
    BY <1>2, <1>4, <2>1, <2>2 DEF KeepsItems
  <2>3. CASE m # Root
    BY <1>2, <1>4, <2>1, <2>3 DEF KeepsItems
  <2> QED
    BY <2>2, <2>3
<1>7. ASSUME NEW v \in inside \ {data[Root]}
      PROVE  \E m \in Used(d) : d[m] = v
  <2>1. PICK m \in InUse : data[m] = v
    BY DEF KeepsItems
  <2>2. m # Root /\ m \in NodeId /\ Root \in InUse
    BY <2>1 DEF InUse
  <2>3. CASE m = last
    BY <1>2, <1>3, <2>1, <2>2, <2>3, NodeFacts
  <2>4. CASE m # last
    BY <1>2, <1>3, <2>1, <2>2, <2>4
  <2> QED
    BY <2>3, <2>4
<1>8. {d[m] : m \in Used(d)} = inside \ {data[Root]}
  BY <1>6, <1>7
<1> QED
  BY <1>1, <1>2, <1>3, <1>5, <1>8

(* tc_heap_root_data_get and tc_heap_node_del.                             *)
LEMMA GetKeeps ==
    ASSUME HeapSound, Get, UNCHANGED key
    PROVE  HeapSound' /\ (Ordered => Ordered')
<1> DEFINE d == MoveLastToRoot
           q == Delete(queue, last)
<1>1. /\ TypeOK /\ Shaped /\ Queued /\ InChain /\ KeepsItems /\ Linked
      /\ data \in Slots /\ parent \in Parents /\ queue \in Seq(NodeId)
      /\ NoRepeat(queue) /\ Elements(queue) \subseteq Nodes
  BY DEF HeapSound, TypeOK, Slots, Shaped, Queued, QueueHasRoom
<1>2. /\ freed = {} /\ inside' = inside \ {data[Root]} /\ queue' = <<last>> \o q
      /\ last' = StepBack
      /\ data' = IF last' = last THEN d ELSE SiftDown(d, data[last])
      /\ allocated' = allocated /\ parent' = parent /\ left' = left /\ right' = right
      /\ prev' = prev /\ regrown' = regrown /\ freed' = freed
  BY DEF Get, Requeued, tree
<1>3. d = MoveLastToRoot /\ q = Delete(queue, last)
  OBVIOUS
<1> HIDE DEF d, q
<1>4. last \in NodeId /\ last \in Nodes /\ Nodes \subseteq NodeId /\ Nodes' = Nodes
  BY <1>1, <1>2, HeapAssumption DEF TypeOK, NodeId, Nodes
<1>5. /\ q \in Seq(NodeId) /\ Elements(q) \subseteq Elements(queue)
      /\ Elements(queue) \subseteq Elements(q) \cup {last}
      /\ NoRepeat(q) /\ last \notin Elements(q)
  BY <1>1, <1>3, DeleteElements
<1>6. queue' \in Seq(NodeId) /\ queue' # <<>> /\ Head(queue') = last
  BY <1>2, <1>4, <1>5, ConsBefore
<1>7. Elements(queue') = Elements(q) \cup {last} /\ NoRepeat(queue')
  BY <1>2, <1>4, <1>5, ConsBefore
<1>8. \A b \in Elements(q) : Before(queue', last, b)
  BY <1>2, <1>4, <1>5, ConsBefore
<1>9. \A a, b \in NodeId \ {last} : Before(queue, a, b) => Before(queue', a, b)
  <2>1. \A a, b \in NodeId \ {last} : Before(queue, a, b) => Before(q, a, b)
    BY <1>1, <1>3, DeleteBefore
  <2>2. \A a, b \in NodeId : Before(q, a, b) => Before(queue', a, b)
    BY <1>2, <1>4, <1>5, ConsBefore
  <2> QED
    BY <2>1, <2>2
(* What the chain says of the last node, before the data have moved.       *)
<1>10. PICK k \in Nat : \E s \in [1 .. k -> NodeId] : Chain(k, s)
  BY <1>1 DEF InChain
<1>11. PICK s \in [1 .. k -> NodeId] : Chain(k, s)
  BY <1>10
<1>12. /\ InUse = {} => last = Root
       /\ InUse # {} => last \in InUse /\ Root \in InUse
  <2>1. k = 0 => last = Root /\ InUse = {}
    BY <1>11 DEF Chain
  <2>2. k # 0 => 1 \in 1 .. k /\ k \in 1 .. k /\ k > 0
    OBVIOUS
  <2>3. k # 0 => s[1] = Root /\ s[k] = last /\ s[1] \in InUse /\ s[k] \in InUse
    BY <1>11, <2>2 DEF Chain
  <2> QED
    BY <2>1, <2>3
<1>13. /\ d \in Slots /\ Used(d) = InUse \ {last}
       /\ \A m \in NodeId : d[m] = IF m = last THEN NoItem
                                   ELSE IF m = Root THEN data[last] ELSE data[m]
  BY <1>1, <1>3, <1>4, <1>12, MovedToRoot
<1>14. {d[m] : m \in Used(d)} = inside' /\ \A m, n \in Used(d) : m # n => d[m] # d[n]
  <2>1. {d[m] : m \in Used(d)} = inside \ {data[Root]}
    BY <1>1, <1>3, <1>4, <1>12, MovedToRoot
  <2>2. \A m, n \in Used(d) : m # n => d[m] # d[n]
    BY <1>1, <1>3, <1>4, <1>12, MovedToRoot
  <2> QED
    BY <1>2, <2>1, <2>2
<1>15. last' # last => last # Root /\ last \in InUse
  <2>1. last' # last => last # Root
    BY <1>2 DEF StepBack
  <2> QED
    BY <1>12, <2>1
<1>16. last' # last => data[last] \in Item /\ d[Root] = data[last]
  BY <1>1, <1>13, <1>15, NodeFacts DEF InUse, Slots
<1>17. data' \in Slots /\ InUse' = InUse \ {last} /\ KeepsItems'
  <2>1. InUse' = Used(data')
    BY DEF InUse, Used
  <2>2. Keeps(d, data')
    <3>1. CASE last' = last
      BY <1>2, <1>13, <3>1 DEF Keeps
    <3>2. CASE last' # last
      BY <1>1, <1>2, <1>13, <1>16, <3>2, SiftDownKeeps
    <3> QED
      BY <3>1, <3>2
  <2>3. data' \in Slots /\ Used(data') = Used(d)
        /\ {data'[m] : m \in Used(data')} = {d[m] : m \in Used(d)}
        /\ \A m, n \in Used(data') : m # n => data'[m] # data'[n]
    BY <1>14, <2>2 DEF Keeps
  <2> QED
    BY <1>13, <1>14, <2>1, <2>3 DEF KeepsItems
<1>18. InChain'
  BY <1>1, <1>2, <1>6, <1>17, ChainShrinks
<1>19. /\ last' = last => InUse \subseteq {Root} /\ last = Root
       /\ \A m \in InUse \ {Root} : parent[m] # last
  BY <1>1, <1>2, <1>6, <1>17, ChainShrinks
<1>20. \A m \in NodeId : data'[m] = NoItem <=> (m = last \/ data[m] = NoItem)
  BY <1>17 DEF InUse
<1>21. Queued'
  <2>1. QueueHasRoom'
    <3>1. \A m \in 1 .. allocated : data'[m] = NoItem => m \in Elements(queue')
      BY <1>1, <1>4, <1>5, <1>7, <1>20 DEF Queued, QueueHasRoom, Nodes
    <3> QED
      BY <1>2, <1>6, <1>7, <3>1 DEF QueueHasRoom
  <2>2. Elements(queue') \subseteq Nodes'
    BY <1>1, <1>4, <1>5, <1>7
  <2>3. ASSUME NEW a \in Elements(queue'), NEW b \in Elements(queue'),
               data'[a] = NoItem, data'[b] # NoItem
        PROVE  Before(queue', a, b)
    <3>1. a \in NodeId /\ b \in NodeId /\ b # last
      BY <1>4, <1>20, <2>2, <2>3
    <3>2. CASE a = last
      BY <1>7, <1>8, <2>3, <3>1, <3>2
    <3>3. CASE a # last
      BY <1>1, <1>5, <1>7, <1>9, <1>20, <2>3, <3>1, <3>3 DEF Queued
    <3> QED
      BY <3>2, <3>3
  <2>4. ASSUME NEW m \in Nodes \ {Root}, data'[m] = NoItem, data'[parent[m]] = NoItem
        PROVE  Before(queue', parent[m], m)
    <3>1. m \in NodeId /\ parent[m] \in NodeId /\ parent[m] # m
      <4>1. m \in NodeId /\ parent[m] \in NodeId /\ parent[m] < m
        BY <1>1, <1>4 DEF Shaped, Parents
      <4> QED
        BY <4>1, NodeFacts
    <3>2. m \in Elements(queue')
      BY <1>2, <2>1, <2>4 DEF QueueHasRoom, Nodes
    <3>3. CASE parent[m] = last
      BY <1>7, <1>8, <3>1, <3>2, <3>3
    <3>4. CASE parent[m] # last /\ m = last
      <4>1. m \in InUse
        BY <1>12, <3>4
      <4>2. parent[m] \in InUse
        BY <1>1, <4>1, InUseRooted DEF Rooted, InUse, Used
      <4> QED
        BY <1>20, <2>4, <3>1, <3>4, <4>2 DEF InUse
    <3>5. CASE parent[m] # last /\ m # last
      BY <1>1, <1>9, <1>20, <2>4, <3>1, <3>5 DEF Queued
    <3> QED
      BY <3>3, <3>4, <3>5
  <2> QED
    BY <1>2, <1>4, <2>1, <2>2, <2>3, <2>4 DEF Queued
<1>22. Shaped'
  <2>1. Linked'
    BY <1>1, <1>2 DEF Linked
  <2>2. \A m \in NodeId \ Nodes' : data'[m] = NoItem
    BY <1>1, <1>4, <1>20 DEF Shaped
  <2> QED
    BY <1>1, <1>2, <1>4, <2>1, <2>2 DEF Shaped
<1>23. TypeOK'
  <2>1. last' \in 1 .. allocated
    <3>1. prev[last] \in 0 .. allocated
      BY <1>1, <1>4 DEF TypeOK
    <3>2. last \in 1 .. allocated
      BY <1>4 DEF Nodes
    <3>3. allocated \in Nat
      BY <1>1, NodeFacts DEF TypeOK
    <3> QED
      BY <1>2, <3>1, <3>2, <3>3 DEF StepBack, Null
  <2> QED
    BY <1>1, <1>2, <1>6, <1>17, <2>1 DEF TypeOK, Slots
<1>24. Ordered => Ordered'
  <2> SUFFICES ASSUME Ordered, ~regrown
               PROVE  Sorted(parent, data')
    BY <1>2 DEF Ordered, Sorted
  <2>1. CASE last' = last
    <3>1. Used(data') = {}
      BY <1>17, <1>19, <2>1 DEF InUse, Used
    <3> QED
      BY <3>1 DEF Sorted
  <2>2. CASE last' # last
    <3>1. key \in [Item -> Int] /\ Sorted(parent, data)
      BY HeapAssumption DEF HeapSound, TypeOK, Ordered
    <3>2. \A m \in Used(d) \ {Root} : m \in InUse /\ m # last /\ m \in NodeId
      BY <1>13 DEF InUse
    <3>3. \A m \in Used(d) \ {Root} : parent[m] \in InUse /\ parent[m] # last
      BY <1>1, <1>19, <3>2, InUseRooted DEF Rooted, InUse, Used
    <3>4. Rooted(parent, d)
      BY <1>13, <3>3 DEF Rooted
    <3>5. \A m \in Used(d) \ {Root} : parent[m] # Root => key[d[parent[m]]] <= key[d[m]]
      <4> SUFFICES ASSUME NEW m \in Used(d) \ {Root}, parent[m] # Root
                   PROVE  key[d[parent[m]]] <= key[d[m]]
        OBVIOUS
      <4>1. d[m] = data[m] /\ d[parent[m]] = data[parent[m]]
        BY <1>13, <3>2, <3>3 DEF InUse
      <4> QED
        BY <3>1, <3>2, <4>1 DEF Sorted, InUse, Used
    <3>6. \A m \in Used(d) \ {Root} : m \in {left[parent[m]], right[parent[m]]}
      <4>1. InUse \subseteq Nodes
        BY <1>1 DEF Shaped, InUse
      <4> QED
        BY <3>2, <4>1 DEF HeapSound, Fresh
    <3>7. data' = SiftDown(d, data[last])
      BY <1>2, <2>2
    <3> QED
      BY <1>1, <1>13, <1>16, <2>2, <3>1, <3>4, <3>5, <3>6, <3>7, SiftDownSorts
  <2> QED
    BY <2>1, <2>2
<1>25. Fresh' /\ Bounded' /\ Freed'
  BY <1>2, <1>4 DEF HeapSound, Fresh, Bounded, NodesBounded, Freed
<1> QED
  BY <1>17, <1>18, <1>21, <1>22, <1>23, <1>24, <1>25 DEF HeapSound

(* As long as each node is a child of its parent, the root leads to all.   *)
LEMMA AllReachable ==
    ASSUME HeapSound
    PROVE  Reachable \subseteq Nodes /\ (~regrown => Reachable = Nodes)
<1>1. /\ TypeOK /\ Shaped /\ Root \in Nodes /\ Nodes \subseteq NodeId
      /\ left \in [NodeId -> 0 .. allocated] /\ right \in [NodeId -> 0 .. allocated]
  <2>1. TypeOK /\ Shaped
    BY DEF HeapSound
  <2>2. allocated \in 1 .. MaxNode /\ MaxNode \in Nat
    BY <2>1, HeapAssumption DEF TypeOK, NodeId
  <2>3. Root \in Nodes /\ Nodes \subseteq NodeId
    BY <2>2 DEF Nodes, NodeId, Root
  <2> QED
    BY <2>1, <2>3 DEF TypeOK
<1> DEFINE links == {left, right}
<1>2. Reachable = Reached(Root, links)
  BY DEF Reachable
<1>3. \A f \in links : \A m \in Nodes : f[m] = Null \/ f[m] \in Nodes
  <2>1. \A m \in Nodes : left[m] \in 0 .. allocated /\ right[m] \in 0 .. allocated
    BY <1>1
  <2> QED
    BY <2>1 DEF Nodes, Null
<1>4. /\ Root \in Reachable
      /\ \A f \in links : \A m \in Reachable : f[m] \in NodeId => f[m] \in Reachable
  BY <1>2, ReachedClosed, NodeFacts
<1>5. Reachable \subseteq Nodes
  <2> HIDE DEF links
  <2> QED
    BY <1>1, <1>2, <1>3, ReachedWithin
<1>6. ASSUME ~regrown, NEW c \in Nodes, c \notin Reachable
      PROVE  FALSE
  <2> DEFINE T == {m \in Nodes : m \notin Reachable}
  <2>1. T \subseteq Nat /\ T # {}
    BY <1>1, <1>6, NodeFacts
  <2>2. PICK m \in T : \A n \in T : m <= n
    <3> HIDE DEF T
    <3> QED
      BY <2>1, LeastNumber
  <2>3. m \in Nodes \ {Root} /\ m \in NodeId
    BY <1>1, <1>4
  <2>4. parent[m] \in Nodes /\ parent[m] < m /\ m \in {left[parent[m]], right[parent[m]]}
    BY <1>1, <1>6, <2>3 DEF HeapSound, Fresh, Shaped, Parents
  <2>5. parent[m] \in Reachable
    <3>1. parent[m] \in Nat /\ m \in Nat
      BY <1>1, <2>3, <2>4, NodeFacts
    <3> QED
      BY <2>2, <2>4, <3>1
  <2> QED
    BY <1>4, <2>3, <2>4, <2>5
<1> QED
  BY <1>5, <1>6

(* tc_heap_destroy frees allocated nodes only, and all while the tree is   *)
(* whole.                                                                  *)
LEMMA DestroyKeeps ==
    ASSUME HeapSound, Destroy, UNCHANGED key
    PROVE  HeapSound' /\ (Ordered => Ordered')
<1>1. /\ freed' = Reachable
      /\ UNCHANGED <<allocated, data, parent, left, right, prev, queue, last, inside, regrown>>
  BY DEF Destroy, tree
<1>2. Reachable \subseteq Nodes /\ (~regrown => Reachable = Nodes)
  BY AllReachable
<1>3. Nodes' = Nodes /\ InUse' = InUse
  BY <1>1 DEF Nodes, InUse
<1>4. TypeOK'
  BY <1>1, <1>2 DEF HeapSound, TypeOK, Nodes
<1>5. Shaped' /\ Fresh' /\ KeepsItems'
  BY <1>1, <1>3 DEF HeapSound, Shaped, Linked, Fresh, KeepsItems
<1>6. Queued' /\ InChain'
  <2>1. Queued'
    BY <1>1, <1>3 DEF HeapSound, Queued, QueueHasRoom
  <2>2. PICK k \in Nat : \E s \in [1 .. k -> NodeId] : Chain(k, s)
    BY DEF HeapSound, InChain
  <2>3. PICK s \in [1 .. k -> NodeId] : Chain(k, s)
    BY <2>2
  <2>4. Chain(k, s)'
    BY <1>1, <1>3, <2>3 DEF Chain
  <2> QED
    BY <1>1, <2>1, <2>4 DEF HeapSound, InChain, RootPrev
<1>7. Bounded' /\ (Ordered => Ordered') /\ Freed'
  BY <1>1, <1>2, <1>3 DEF HeapSound, Bounded, NodesBounded, Ordered, Sorted, Freed
<1> QED
  BY <1>4, <1>5, <1>6, <1>7 DEF HeapSound

-----------------------------------------------------------------------------
(* What every step keeps.                                                  *)

(* tc_heap_create makes a heap for which the invariant holds.              *)
LEMMA CreateInv ==
    ASSUME Create, key \in [Item -> Rank]
    PROVE  HeapInv
<1>1. /\ allocated = 1 /\ last = Root /\ inside = {} /\ freed = {} /\ regrown = FALSE
      /\ queue = <<Root>> /\ data = [n \in NodeId |-> NoItem]
      /\ parent = [n \in NodeId |-> Null] /\ left = [n \in NodeId |-> Null]
      /\ right = [n \in NodeId |-> Null] /\ prev = [n \in NodeId |-> Null]
  BY DEF Create
<1>2. Nodes = {Root} /\ Root \in NodeId /\ InUse = {} /\ Root = 1 /\ Null = 0
  BY <1>1, NodeFacts DEF Nodes, InUse, Root, Null
<1>3. queue \in Seq(NodeId) /\ queue # <<>> /\ Head(queue) = Root
      /\ DOMAIN queue = {1} /\ queue[1] = Root
  BY <1>1, <1>2
<1>4. Elements(queue) = {Root} /\ NoRepeat(queue)
  BY <1>3 DEF Elements, NoRepeat
<1>5. TypeOK
  <2>1. 0 \in 0 .. 1 /\ 1 \in 1 .. 1
    OBVIOUS
  <2> QED
    BY <1>1, <1>2, <1>3, <2>1 DEF TypeOK
<1>6. Shaped
  <2>1. parent \in Parents
    BY <1>1, <1>2, NodeFacts DEF Parents, NodeId
  <2>2. Linked
    BY <1>1 DEF Linked
  <2> QED
    BY <1>1, <1>2, <2>1, <2>2 DEF Shaped
<1>7. Fresh /\ KeepsItems
  BY <1>1, <1>2 DEF Fresh, KeepsItems
<1>8. Queued
  <2>1. QueueHasRoom
    BY <1>2, <1>3, <1>4 DEF QueueHasRoom, Nodes
  <2> QED
    BY <1>1, <1>2, <1>4, <2>1 DEF Queued
<1>9. InChain
  <2> DEFINE t == [i \in 1 .. 0 |-> Root]
  <2>1. t \in [1 .. 0 -> NodeId] /\ 1 .. 0 = {}
    OBVIOUS
  <2>2. Chain(0, t)
    BY <1>1, <1>2, <1>3, <2>1 DEF Chain
  <2> QED
    BY <1>1, <1>2, <2>1, <2>2 DEF InChain, RootPrev
<1>10. Bounded
  <2>1. Cardinality(Item) \in Nat
    BY HeapAssumption, FS_CardinalityType
  <2> QED
    BY <1>1, <2>1 DEF Bounded, NodesBounded
<1>11. Ordered /\ Freed
  BY <1>1, <1>2 DEF Ordered, Sorted, Used, InUse, Freed
<1> QED
  BY <1>5, <1>6, <1>7, <1>8, <1>9, <1>10, <1>11 DEF HeapInv, HeapSound

(* tc_heap_node_add keeps the invariant, reusing a node or growing the     *)
(* tree.                                                                   *)
LEMMA AddKeeps ==
    ASSUME HeapSound, NEW x \in Item, Add(x), UNCHANGED key
    PROVE  HeapSound' /\ (Ordered => Ordered')
BY ReuseKeeps, GrowKeeps DEF Add

(* The callers may change ranks: the structure takes no notice, and if     *)
(* they leave the order of what is inside, neither does the order.         *)
LEMMA KeysMayChange ==
    ASSUME HeapSound, UNCHANGED heapVars, key' \in [Item -> Rank]
    PROVE  /\ HeapSound'
           /\ Ordered /\ (\A a, b \in inside : key[a] <= key[b] => key'[a] <= key'[b])
                => Ordered'
<1>1. UNCHANGED <<allocated, data, parent, left, right, prev, queue, last, inside, regrown, freed>>
  BY DEF heapVars, tree
<1>2. Nodes' = Nodes /\ InUse' = InUse
  BY <1>1 DEF Nodes, InUse
<1>3. TypeOK'
  BY <1>1 DEF HeapSound, TypeOK
<1>4. Shaped' /\ Fresh' /\ KeepsItems'
  BY <1>1, <1>2 DEF HeapSound, Shaped, Linked, Fresh, KeepsItems
<1>5. Queued'
  BY <1>1, <1>2 DEF HeapSound, Queued, QueueHasRoom
<1>6. InChain'
  <2>1. PICK k \in Nat : \E s \in [1 .. k -> NodeId] : Chain(k, s)
    BY DEF HeapSound, InChain
  <2>2. PICK s \in [1 .. k -> NodeId] : Chain(k, s)
    BY <2>1
  <2>3. Chain(k, s)'
    BY <1>1, <1>2, <2>2 DEF Chain
  <2> QED
    BY <1>1, <2>3 DEF HeapSound, InChain, RootPrev
<1>7. Ordered /\ (\A a, b \in inside : key[a] <= key[b] => key'[a] <= key'[b]) => Ordered'
  <2>1. Rooted(parent, data) /\ InUse = Used(data)
    BY InUseRooted DEF HeapSound, InUse, Used
  <2>2. \A m \in Used(data) : data[m] \in inside
    BY <2>1 DEF HeapSound, KeepsItems
  <2> SUFFICES ASSUME Ordered, ~regrown,
                      \A a, b \in inside : key[a] <= key[b] => key'[a] <= key'[b],
                      NEW m \in Used(data) \ {Root}
               PROVE  key'[data[parent[m]]] <= key'[data[m]]
    BY <1>1 DEF Ordered, Sorted
  <2>3. key[data[parent[m]]] <= key[data[m]]
    BY DEF HeapSound, Ordered, Sorted
  <2> QED
    BY <2>1, <2>2, <2>3 DEF Rooted
<1>8. Bounded' /\ Freed'
  BY <1>1, <1>2 DEF HeapSound, Bounded, NodesBounded, Freed
<1> QED
  BY <1>3, <1>4, <1>5, <1>6, <1>7, <1>8 DEF HeapSound

(* So does every step of the heap by itself.                               *)
LEMMA StepInv ==
    ASSUME HeapInv, [Next]_vars
    PROVE  HeapInv'
<1>1. ASSUME NEW x \in Item, Add(x), UNCHANGED key
      PROVE  HeapInv'
  BY <1>1, AddKeeps DEF HeapInv
<1>2. CASE Get /\ UNCHANGED key
  BY <1>2, GetKeeps DEF HeapInv
<1>3. CASE Destroy /\ UNCHANGED key
  BY <1>3, DestroyKeeps DEF HeapInv
<1>4. CASE UNCHANGED vars
  <2>1. UNCHANGED heapVars /\ key' = key
    BY <1>4 DEF vars
  <2>2. key' \in [Item -> Rank]
    BY <2>1 DEF HeapInv, HeapSound, TypeOK
  <2> QED
    BY <2>1, <2>2, KeysMayChange DEF HeapInv
<1> QED
  BY <1>1, <1>2, <1>3, <1>4 DEF Next

(* The root of a heap that is not empty holds one of the items, and while  *)
(* no node got children twice the one that comes first.                    *)
LEMMA RootHolds ==
    ASSUME HeapSound
    PROVE  /\ inside = {} => data[Root] = NoItem
           /\ inside # {} => Root \in InUse /\ data[Root] \in inside
           /\ Ordered /\ ~regrown => RootIsLeast
<1>1. Rooted(parent, data) /\ (InUse # {} => Root \in InUse) /\ InUse = Used(data)
  BY InUseRooted DEF HeapSound, InUse, Used
<1>2. {data[n] : n \in InUse} = inside
  BY DEF HeapSound, KeepsItems
<1>3. inside = {} => data[Root] = NoItem
  BY <1>2, NodeFacts DEF InUse
<1>4. inside # {} => Root \in InUse /\ data[Root] \in inside
  BY <1>1, <1>2
<1>5. ASSUME Ordered, ~regrown
      PROVE  RootIsLeast
  <2>1. key \in [Item -> Int] /\ Sorted(parent, data) /\ parent \in Parents /\ data \in Slots
    BY <1>5, HeapAssumption DEF HeapSound, TypeOK, Ordered, Shaped, Slots
  <2>2. \A m \in InUse : m \in NodeId /\ m \in Nat /\ key[data[m]] \in Int
    BY <2>1, NodeFacts DEF InUse, Slots
  <2> DEFINE T == {m \in InUse : ~(key[data[Root]] <= key[data[m]])}
  <2>3. T = {}
    <3> SUFFICES ASSUME T # {}
                 PROVE  FALSE
      OBVIOUS
    <3>1. T \subseteq Nat
      BY <2>2
    <3>2. PICK m \in T : \A n \in T : m <= n
      <4> HIDE DEF T
      <4> QED
        BY <3>1, LeastNumber
    <3>3. m # Root /\ m \in InUse /\ Root \in InUse
      BY <1>1, <2>2
    <3>4. parent[m] \in InUse /\ key[data[parent[m]]] <= key[data[m]] /\ parent[m] < m
      BY <1>1, <2>1, <2>2, <3>3 DEF Rooted, Sorted, Parents
    <3>5. parent[m] \notin T
      BY <2>2, <3>2, <3>3, <3>4
    <3>6. key[data[Root]] <= key[data[parent[m]]]
      BY <3>4, <3>5
    <3> QED
      BY <2>2, <3>2, <3>3, <3>4, <3>6
  <2>4. ASSUME NEW x \in inside
        PROVE  key[data[Root]] <= key[x]
    <3>1. PICK m \in InUse : data[m] = x
      BY <1>2
    <3> QED
      BY <2>3, <3>1
  <2> QED
    BY <2>4 DEF RootIsLeast
<1> QED
  BY <1>3, <1>4, <1>5

(* What comes after the root's datum leaves it there.                      *)
LEMMA RootStays ==
    ASSUME HeapSound, NEW x \in Item, Add(x), UNCHANGED key,
           data[Root] # NoItem, After(x, data[Root])
    PROVE  data'[Root] = data[Root]
<1>1. data \in Slots /\ parent \in Parents /\ allocated \in Nat /\ allocated >= 1
  BY NodeFacts DEF HeapSound, TypeOK, Slots, Shaped, NodeId
<1>2. CASE Reuse(x)
  <2> DEFINE n == Head(queue)
  <2>1. data' = SiftUp(parent, x, n) /\ data[n] = NoItem
    BY <1>2 DEF Reuse
  <2>2. n \in NodeId
    BY QueueHead DEF HeapSound
  <2> QED
    BY <1>1, <2>1, <2>2, SiftUpKeepsRoot
<1>3. CASE Grow(x)
  <2> DEFINE l == allocated + 1
  <2>1. data' = SiftUp(parent', x, l) /\ allocated + 2 <= MaxNode
    BY <1>3 DEF Grow
  <2>2. l \in NodeId /\ l # Root
    BY <1>1, <2>1, HeapAssumption DEF NodeId, Root
  <2>3. parent' \in Parents
    BY AddKeeps DEF HeapSound, Shaped, Parents
  <2> HIDE DEF l
  <2> QED
    BY <1>1, <2>1, <2>2, <2>3, SiftUpKeepsRoot
<1> QED
  BY <1>2, <1>3 DEF Add

(* The chain leads from the last node to every node in use.                *)
LEMMA ChainReached ==
    ASSUME HeapSound, inside # {}
    PROVE  Reached(last, {prev}) = InUse
<1>1. PICK k \in Nat : \E s \in [1 .. k -> NodeId] : Chain(k, s)
  BY DEF HeapSound, InChain
<1>2. PICK s \in [1 .. k -> NodeId] : Chain(k, s)
  BY <1>1
<1> DEFINE R == Reached(last, {prev})
<1>3. \A i \in 1 .. k : s[i] \in InUse /\ s[i] \in NodeId
  BY <1>2 DEF Chain
<1>4. k > 0 /\ k \in 1 .. k /\ s[k] = last /\ last \in InUse /\ last \in NodeId /\ s[1] = Root
  <2>1. InUse # {}
    BY DEF HeapSound, KeepsItems
  <2>2. k # 0
    BY <1>2, <2>1 DEF Chain
  <2>3. k > 0 /\ k \in 1 .. k
    BY <2>2
  <2> QED
    BY <1>2, <1>3, <2>3 DEF Chain
<1>5. prev[Root] \in {Null, Root}
  BY DEF HeapSound, InChain, RootPrev
<1>6. R \subseteq InUse
  <2>1. \A f \in {prev} : \A m \in InUse : f[m] = Null \/ f[m] \in InUse
    <3> SUFFICES ASSUME NEW m \in InUse
                 PROVE  prev[m] = Null \/ prev[m] \in InUse
      OBVIOUS
    <3>1. PICK i \in 1 .. k : s[i] = m
      BY <1>2 DEF Chain
    <3>2. CASE i = 1
      BY <1>3, <1>4, <1>5, <3>1, <3>2
    <3>3. CASE i # 1
      <4>1. i \in 2 .. k /\ i - 1 \in 1 .. k
        BY <3>3
      <4> QED
        BY <1>2, <1>3, <3>1, <4>1 DEF Chain
    <3> QED
      BY <3>2, <3>3
  <2>2. InUse \in SUBSET NodeId
    BY DEF InUse
  <2> QED
    BY <1>4, <2>1, <2>2, ReachedWithin
<1>7. last \in R /\ \A m \in R : prev[m] \in NodeId => prev[m] \in R
  BY <1>4, ReachedClosed
<1>8. InUse \subseteq R
  <2> HIDE DEF R
  <2> DEFINE T == {j \in Nat : j < k /\ s[k - j] \notin R}
  <2>1. T = {}
    <3> SUFFICES ASSUME T # {}
                 PROVE  FALSE
      OBVIOUS
    <3>1. PICK j \in T : \A i \in T : j <= i
      <4>1. T \subseteq Nat
        OBVIOUS
      <4> HIDE DEF T
      <4> QED
        BY <4>1, LeastNumber
    <3>2. j # 0
      BY <1>4, <1>7
    <3>3. j - 1 \in Nat /\ j - 1 < k /\ j - 1 \notin T
      BY <3>1, <3>2
    <3>4. s[k - (j - 1)] \in R
      BY <3>3
    <3>5. k - (j - 1) \in 2 .. k /\ (k - (j - 1)) - 1 = k - j /\ k - j \in 1 .. k
      BY <3>2, <1>4
    <3>6. prev[s[k - (j - 1)]] = s[k - j]
      BY <1>2, <3>5 DEF Chain
    <3> QED
      BY <1>3, <1>7, <3>4, <3>5, <3>6
  <2>2. ASSUME NEW m \in InUse
        PROVE  m \in R
    <3>1. PICK i \in 1 .. k : s[i] = m
      BY <1>2 DEF Chain
    <3>2. k - i \in Nat /\ k - i < k /\ k - (k - i) = i
      OBVIOUS
    <3> QED
      BY <2>1, <3>1, <3>2
  <2> QED
    BY <2>2
<1> QED
  BY <1>6, <1>8

-----------------------------------------------------------------------------
(* The tree, the chain and the queue stay consistent whatever is added and *)
(* got, also when nodes get children again.                                *)
THEOREM AlwaysInv == Spec => []HeapInv
<1>1. Init => HeapInv
  BY CreateInv DEF Init
<1>2. HeapInv /\ [Next]_vars => HeapInv'
  BY StepInv
<1> QED
  BY <1>1, <1>2, PTL DEF Spec

(* The state of the heap is of its type for any items and ranks.           *)
THEOREM TypeCorrect == Spec => []TypeOK
<1>1. HeapInv => TypeOK
  BY DEF HeapInv, HeapSound
<1> QED
  BY <1>1, AlwaysInv, PTL

(* tc_heap_node_add and tc_heap_node_del lose no item and double none.     *)
THEOREM ItemsKept == Spec => []KeepsItems
<1>1. HeapInv => KeepsItems
  BY DEF HeapInv, HeapSound
<1> QED
  BY <1>1, AlwaysInv, PTL

(* The chain of prev names every node in use and the queue every empty     *)
(* one, and nodes never outnumber the items by more than one.              *)
THEOREM TreeComplete == Spec => []TreeIsComplete
<1>1. HeapInv => TreeIsComplete
  BY RootHolds, ChainReached
     DEF HeapInv, HeapSound, Queued, Bounded, TreeIsComplete, ChainIsComplete
<1> QED
  BY <1>1, AlwaysInv, PTL

(* Until a node gets children a second time the root is the least item and *)
(* tc_heap_destroy frees every node.                                       *)
THEOREM OrderKept == Spec => []SoundWhileGrowing
<1>1. HeapInv => SoundWhileGrowing
  BY RootHolds DEF HeapInv, HeapSound, Freed, Nodes, SoundWhileGrowing
<1> QED
  BY <1>1, AlwaysInv, PTL

(* With up to three items no node ever does: such a heap is the priority   *)
(* queue its head comment promises, without a condition.                   *)
THEOREM ThreeAreSafe ==
    ASSUME Cardinality(Item) <= 3
    PROVE  Spec => []RootIsLeast
<1>1. HeapInv => RootIsLeast
  <2>1. Cardinality(Item) \in Nat
    BY HeapAssumption, FS_CardinalityType
  <2>2. HeapInv => ~regrown
    BY <2>1 DEF HeapInv, HeapSound, Bounded
  <2> QED
    BY <2>2, RootHolds DEF HeapInv
<1> QED
  BY <1>1, AlwaysInv, PTL
=============================================================================

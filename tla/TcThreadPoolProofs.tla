------------------------- MODULE TcThreadPoolProofs -------------------------
(* What holds of the thread pool for any number of pools, threads and      *)
(* nodes: its type invariant, and that a node is in one place only; that   *)
(* on the way to a member none overtakes another; and, of the end of a     *)
(* program, what the counter of threads is worth, what becomes of the      *)
(* nodes at the exit, and that the pool keeps the promise of TcWorkPool.   *)
EXTENDS TcThreadPool, TcListLemmas, FiniteSetTheorems, TLAPS

-----------------------------------------------------------------------------
(* The shape of a thread's name, and the two ways to give a node away.     *)
LEMMA ThreadShape ==
    /\ \A g \in Group : Master(g) \in Thread /\ Master(g)[1] = g /\ Master(g)[2] = 0
    /\ \A t \in Thread : t[1] \in Group /\ t = <<t[1], t[2]>>
BY DEF Thread, Master

(* The list a master hands on to (tg_member[i]) is that of a pool thread.  *)
LEMMA MemberIsThread == \A g \in Group : \A i \in Members(g) : <<g, i>> \in Thread
BY DEF Thread

(* The corrections of tc_master_thread's index keep it a member's index.   *)
LEMMA RRNextInRange ==
    ASSUME NEW n \in Nat, n > 1, NEW c \in Nat, c < n
    PROVE  RRNext(c, n) \in Nat /\ RRNext(c, n) < n
BY DEF RRNext

Shape == TypeOK /\ CreationInOrder

(* tc_thread_init leaves the state in shape.                               *)
LEMMA ShapeInit == Init => Shape
<1> SUFFICES ASSUME Init
             PROVE  Shape
  OBVIOUS
<1> USE PoolAssumption DEF Init
<1>1. <<>> \in Seq(Node)
  BY EmptySeq
<1>2. list \in [Thread -> Seq(Node)] /\ order \in [Group -> Seq(Node)]
  BY <1>1
<1>3. \A t \in Thread : held[t] = NoNode /\ pc[t] = "unborn"
  OBVIOUS
<1>4. \A g \in Group : TgCount[g] > 1 => rr[g] < TgCount[g]
  OBVIOUS
<1>5. TypeOK
  <2>1. /\ creator \in [Group -> {"none", "claimed", "spawned", "members", "mspawned", "ready"}]
        /\ nmemb \in [Group -> Nat]
        /\ rr \in [Group -> Nat]
    OBVIOUS
  <2>2. /\ pc \in [Thread -> {"unborn", "top", "take", "waiting", "signalled", "took", "running",
                              "pass", "gone"}]
        /\ held \in [Thread -> Node \cup {NoNode}]
    OBVIOUS
  <2>3. groupCount \in 0 .. NGroup /\ sec \in 0 .. WaitSec /\ limit \in 0 .. groupCount
    OBVIOUS
  <2>4. \A t \in Thread : held[t] # NoNode <=> pc[t] \in {"took", "running", "pass"}
    BY <1>3
  <2> QED
    BY <1>2, <1>4, <2>1, <2>2, <2>3, <2>4 DEF TypeOK
<1>6. \A g \in Group : Master(g) \in Thread /\ \A i \in Members(g) : <<g, i>> \in Thread
  BY DEF Thread, Master
<1>7. \A g \in Group : g >= 0 /\ \A i \in Members(g) : i > 0
  BY DEF Group, Members
<1>8. CreationInOrder
  BY <1>3, <1>6, <1>7 DEF CreationInOrder
<1> QED
  BY <1>5, <1>8 DEF Shape

(* What PopOr does, when the thread is not one that holds a node.          *)
LEMMA PopOrType ==
    ASSUME TypeOK, NEW t \in Thread, NEW next \in {"waiting", "top"},
           pc[t] \in {"take", "waiting", "signalled"}, PopOr(t, next)
    PROVE  /\ pc' \in [Thread -> {"unborn", "top", "take", "waiting", "signalled", "took",
                                  "running", "pass", "gone"}]
           /\ list' \in [Thread -> Seq(Node)]
           /\ held' \in [Thread -> Node \cup {NoNode}]
           /\ \A u \in Thread : held'[u] # NoNode <=> pc'[u] \in {"took", "running", "pass"}
<1>1. CASE Pop(t)
  <2>1. Head(list[t]) \in Node /\ Tail(list[t]) \in Seq(Node)
    BY <1>1, PopElements DEF Pop, TypeOK
  <2> QED
    BY <1>1, <2>1, PoolAssumption DEF Pop, TypeOK
<1>2. CASE list[t] = <<>> /\ pc' = [pc EXCEPT ![t] = next] /\ UNCHANGED <<held, list>>
  BY <1>2 DEF TypeOK
<1> QED
  BY <1>1, <1>2 DEF PopOr

(* Forgetting a returned node keeps the submission history well-typed.     *)
LEMMA OrderLessType ==
    ASSUME TypeOK, NEW g, NEW n
    PROVE  OrderLess(g, n) \in [Group -> Seq(Node)]
<1>1. \A h \in Group : order[h] \in Seq(Node) /\ Delete(order[h], n) \in Seq(Node)
  BY DeleteElements DEF TypeOK
<1>2. order \in [Group -> Seq(Node)]
  BY DEF TypeOK
<1> QED
  BY <1>1, <1>2 DEF OrderLess

(* A thread that lets go of its node is at the top of its loop with none.  *)
LEMMA LetGoType ==
    ASSUME TypeOK, NEW t \in Thread, pc[t] \in {"running", "pass"}, LetGo(t)
    PROVE  /\ pc' \in [Thread -> {"unborn", "top", "take", "waiting", "signalled", "took",
                                  "running", "pass", "gone"}]
           /\ held' \in [Thread -> Node \cup {NoNode}]
           /\ \A u \in Thread : held'[u] # NoNode <=> pc'[u] \in {"took", "running", "pass"}
           /\ outside' \subseteq Node
           /\ order' \in [Group -> Seq(Node)]
<1>1. held[t] \in Node
  BY DEF TypeOK
<1>2. order' \in [Group -> Seq(Node)]
  BY OrderLessType DEF LetGo
<1> QED
  BY <1>1, <1>2 DEF LetGo, TypeOK

(* Every step of the pool keeps the shape of the state, one case per       *)
(* action of tc_thread.c.                                                  *)
LEMMA TypeStep == Shape /\ [Next]_vars => TypeOK'
<1> SUFFICES ASSUME TypeOK, CreationInOrder, [Next]_vars
             PROVE  TypeOK'
  BY DEF Shape
<1> USE PoolAssumption DEF createVars, nodeVars, mainVars
<1>1. ASSUME NEW g \in Group, Claim(g)
      PROVE  TypeOK'
  BY <1>1 DEF Claim, TypeOK, Group
<1>2. ASSUME NEW g \in Group, SpawnMaster(g)
      PROVE  TypeOK'
  <2>1. pc[Master(g)] = "unborn"
    BY <1>2 DEF SpawnMaster, CreationInOrder
  <2> QED
    BY <1>2, <2>1 DEF SpawnMaster, TypeOK
<1>3. ASSUME NEW g \in Group, CountMaster(g)
      PROVE  TypeOK'
  BY <1>3 DEF CountMaster, TypeOK
<1>4. ASSUME NEW g \in Group, SpawnMember(g)
      PROVE  TypeOK'
  <2> DEFINE m == <<g, nmemb[g] + 1>>
  <2>1. m \in Thread => pc[m] = "unborn"
    BY <1>4, ThreadShape DEF SpawnMember, CreationInOrder, Thread, Members, TypeOK
  <2>2. nmemb' \in [Group -> Nat]
    BY <1>4 DEF SpawnMember, TypeOK
  <2>3. creator' \in [Group -> {"none", "claimed", "spawned", "members", "mspawned", "ready"}]
    BY <1>4 DEF SpawnMember, TypeOK
  <2>4. /\ pc' = [pc EXCEPT ![m] = "top"]
        /\ UNCHANGED <<num, groupCount, nodeVars, rr, mainVars, stray>>
    BY <1>4 DEF SpawnMember
  <2> HIDE DEF m
  <2> QED
    BY <2>1, <2>2, <2>3, <2>4 DEF TypeOK
<1>5. ASSUME NEW g \in Group, CountMember(g)
      PROVE  TypeOK'
  BY <1>5 DEF CountMember, TypeOK
<1>6. ASSUME NEW g \in Group, NEW n \in Node, Submit(g, n)
      PROVE  TypeOK'
  BY <1>6, ThreadShape, AppendProperties DEF Submit, TypeOK, Enqueue, WokenBy
<1>7. ASSUME NEW t \in Thread, TestExitTop(t)
      PROVE  TypeOK'
  BY <1>7 DEF TestExitTop, TestExitCount, TypeOK
<1>8. ASSUME NEW t \in Thread, LeaveWithNode(t)
      PROVE  TypeOK'
  BY <1>8 DEF LeaveWithNode, TestExitCount, TypeOK
<1>9. ASSUME NEW t \in Thread, EnterCallback(t)
      PROVE  TypeOK'
  <2>1. held[t] \in Node
    BY <1>9 DEF EnterCallback, TypeOK
  <2>2. OrderLess(t[1], held[t]) \in [Group -> Seq(Node)]
    BY OrderLessType
  <2>3. order' \in [Group -> Seq(Node)]
    BY <1>9, <2>2 DEF EnterCallback, TypeOK
  <2>4. CASE t[2] = 0
    BY <1>9, <2>3, <2>4 DEF EnterCallback, TypeOK
  <2>5. CASE t[2] # 0 /\ t[1] \in ExecFunc
    BY <1>9, <2>3, <2>5 DEF EnterCallback, TypeOK
  <2>6. CASE t[2] # 0 /\ t[1] \notin ExecFunc
    BY <1>9, <2>1, <2>3, <2>6 DEF EnterCallback, TypeOK
  <2> QED
    BY <2>4, <2>5, <2>6
<1>10. ASSUME NEW t \in Thread, Take(t)
       PROVE  TypeOK'
  BY <1>10, PopOrType DEF Take, TypeOK
<1>11. ASSUME NEW t \in Thread, Resume(t)
       PROVE  TypeOK'
  BY <1>11, PopOrType DEF Resume, TypeOK
<1>12. ASSUME NEW t \in Thread, Timeout(t)
       PROVE  TypeOK'
  <2>1. CASE t[2] = 0
    BY <1>12, <2>1, PopOrType DEF Timeout, TypeOK
  <2>2. CASE t[2] # 0
    BY <1>12, <2>2 DEF Timeout, TypeOK
  <2> QED
    BY <2>1, <2>2
<1>13. ASSUME NEW t \in Thread, SpuriousWake(t)
       PROVE  TypeOK'
  BY <1>13 DEF SpuriousWake, TypeOK
<1>14. ASSUME NEW t \in Thread, Finish(t)
       PROVE  TypeOK'
  BY <1>14, LetGoType DEF Finish, TypeOK
<1>15. ASSUME NEW t \in Thread, GroupFuncOk(t)
       PROVE  TypeOK'
  BY <1>15 DEF GroupFuncOk, TypeOK
<1>16. ASSUME NEW t \in Thread, PassOn(t)
       PROVE  TypeOK'
  <2>1. CASE TgCount[t[1]] <= 1
    BY <1>16, <2>1, LetGoType DEF PassOn, TypeOK
  <2>2. CASE ~(TgCount[t[1]] <= 1)
    <3> DEFINE m == <<t[1], rr[t[1]] + 1>>
    <3>1. /\ held[t] \in Node
          /\ t[1] \in Group
      BY <1>16, ThreadShape DEF PassOn, TypeOK
    <3>2. list' \in [Thread -> Seq(Node)]
      <4>1. \A u \in Thread : Append(list[u], held[t]) \in Seq(Node)
        BY <3>1, AppendProperties DEF TypeOK
      <4>2. list' = [list EXCEPT ![m] = Append(@, held[t])]
        BY <1>16, <2>2 DEF PassOn, Enqueue
      <4> HIDE DEF m
      <4> QED
        BY <4>1, <4>2 DEF TypeOK
    <3>3. rr' \in [Group -> Nat] /\ \A g \in Group : TgCount[g] > 1 => rr'[g] < TgCount[g]
      <4>1. rr' = [rr EXCEPT ![t[1]] = RRNext(rr[t[1]], TgCount[t[1]])]
        BY <1>16, <2>2 DEF PassOn
      <4>2. /\ TgCount[t[1]] \in Nat /\ TgCount[t[1]] > 1
            /\ rr[t[1]] \in Nat /\ rr[t[1]] < TgCount[t[1]]
        BY <2>2, <3>1 DEF TypeOK
      <4>3. /\ RRNext(rr[t[1]], TgCount[t[1]]) \in Nat
            /\ RRNext(rr[t[1]], TgCount[t[1]]) < TgCount[t[1]]
        BY <4>2, RRNextInRange
      <4> QED
        BY <4>1, <4>3 DEF TypeOK
    <3>4. /\ held' = [held EXCEPT ![t] = NoNode]
          /\ pc' = [u \in Thread |-> IF u = t THEN "top"
                                     ELSE IF u = m THEN WokenBy(pc[u]) ELSE pc[u]]
          /\ UNCHANGED <<exit, num, groupCount, creator, nmemb, outside, leaked, disposed,
                         order, stage, sec, cursor, limit, todo, peeked, stray, overrun>>
      BY <1>16, <2>2 DEF PassOn
    <3>5. /\ pc' \in [Thread -> {"unborn", "top", "take", "waiting", "signalled", "took",
                                 "running", "pass", "gone"}]
          /\ held' \in [Thread -> Node \cup {NoNode}]
          /\ \A u \in Thread : held'[u] # NoNode <=> pc'[u] \in {"took", "running", "pass"}
      <4> HIDE DEF m
      <4> QED
        BY <3>4 DEF TypeOK, WokenBy
    <3> QED
      BY <3>2, <3>3, <3>4, <3>5 DEF TypeOK
  <2> QED
    BY <2>1, <2>2
<1>17. ASSUME OutsideTest
       PROVE  TypeOK'
  BY <1>17 DEF OutsideTest, TestExitCount, TypeOK
<1>18. ASSUME ExitRequest
       PROVE  TypeOK'
  BY <1>18, EmptySeq DEF ExitRequest, TypeOK, Group
<1>19. ASSUME Broadcast
       PROVE  TypeOK'
  <2>1. CASE cursor < limit
    <3>1. pc' = [pc EXCEPT ![Master(cursor)] = WokenBy(@)]
      BY <1>19, <2>1 DEF Broadcast
    <3>2. /\ pc' \in [Thread -> {"unborn", "top", "take", "waiting", "signalled", "took",
                                 "running", "pass", "gone"}]
          /\ \A u \in Thread : held[u] # NoNode <=> pc'[u] \in {"took", "running", "pass"}
      BY <3>1 DEF TypeOK, WokenBy
    <3> QED
      BY <1>19, <2>1, <3>2 DEF Broadcast, TypeOK
  <2>2. CASE ~(cursor < limit)
    BY <1>19, <2>2 DEF Broadcast, TypeOK
  <2> QED
    BY <2>1, <2>2
<1>20. ASSUME Poll
       PROVE  TypeOK'
  BY <1>20 DEF Poll, TypeOK
<1>21. ASSUME UninitBegin
       PROVE  TypeOK'
  BY <1>21 DEF UninitBegin, TypeOK
<1>22. ASSUME NEW t \in Thread, ListPeek(t)
       PROVE  TypeOK'
  BY <1>22, PopElements DEF ListPeek, TypeOK
<1>23. ASSUME ListFree
       PROVE  TypeOK'
  <2>1. peeked \in Thread \X Node
    BY <1>23 DEF ListFree, TypeOK
  <2>2. \A u \in Thread : Delete(list[u], peeked[2]) \in Seq(Node)
    BY DeleteElements DEF TypeOK
  <2>3. Elements(list[peeked[1]]) \subseteq Node
    BY <2>1, ElementOfSeq, LenProperties DEF Elements, TypeOK
  <2>4. list' \in [Thread -> Seq(Node)]
    BY <1>23, <2>1, <2>2, EmptySeq DEF ListFree
  <2>5. disposed' \subseteq Node
    BY <1>23, <2>1, <2>3 DEF ListFree, TypeOK
  <2> QED
    BY <1>23, <2>4, <2>5 DEF ListFree, TypeOK
<1>24. ASSUME UninitEnd
       PROVE  TypeOK'
  BY <1>24 DEF UninitEnd, TypeOK
<1>25. ASSUME UNCHANGED vars
       PROVE  TypeOK'
  BY <1>25 DEF vars, TypeOK
<1> QED
  BY <1>1, <1>2, <1>3, <1>4, <1>5, <1>6, <1>7, <1>8, <1>9, <1>10, <1>11, <1>12, <1>13,
     <1>14, <1>15, <1>16, <1>17, <1>18, <1>19, <1>20, <1>21, <1>22, <1>23, <1>24, <1>25
     DEF Next, CreateStep, ThreadStep, MainStep, Ended


(* A step that starts no thread leaves the creation order alone.           *)
LEMMA NoBirth ==
    ASSUME CreationInOrder, UNCHANGED createVars,
           \A t \in Thread : pc'[t] = "unborn" <=> pc[t] = "unborn"
    PROVE  CreationInOrder'
<1>1. \A g \in Group : Master(g) \in Thread /\ \A i \in Members(g) : <<g, i>> \in Thread
  BY DEF Thread, Master
<1> QED
  BY <1>1 DEF CreationInOrder, createVars

(* Every step keeps threads created in order: only tc_thread_pool_create's *)
(* steps touch what the invariant speaks of.                               *)
LEMMA CreationStep == Shape /\ [Next]_vars => CreationInOrder'
<1> SUFFICES ASSUME TypeOK, CreationInOrder, [Next]_vars
             PROVE  CreationInOrder'
  BY DEF Shape
<1> USE PoolAssumption DEF nodeVars, mainVars
<1>m. \A g \in Group : Master(g) \in Thread /\ \A i \in Members(g) : <<g, i>> \in Thread
  BY DEF Thread, Master
<1>1. ASSUME NEW g \in Group, Claim(g)
      PROVE  CreationInOrder'
  <2>1. /\ g = groupCount
        /\ groupCount' = groupCount + 1
        /\ creator' = [creator EXCEPT ![g] = "claimed"]
        /\ UNCHANGED <<nmemb, pc>>
        /\ DOMAIN creator = Group
    BY <1>1 DEF Claim, TypeOK
  <2>2. creator[g] = "none" /\ \A h \in Group : h \in Nat
    BY <2>1 DEF CreationInOrder, Group
  <2> QED
    BY <2>1, <2>2 DEF CreationInOrder
<1>2. ASSUME NEW g \in Group, SpawnMaster(g)
      PROVE  CreationInOrder'
  <2>1. \A h \in Group : pc'[Master(h)] = IF h = g THEN "top" ELSE pc[Master(h)]
    <3>1. \A h \in Group : Master(h) = Master(g) <=> h = g
      BY DEF Master
    <3>2. pc' = [pc EXCEPT ![Master(g)] = "top"] /\ DOMAIN pc = Thread
      BY <1>2 DEF SpawnMaster, TypeOK
    <3> QED
      BY <1>m, <3>1, <3>2
  <2>2. \A h \in Group : \A i \in Members(h) : pc'[<<h, i>>] = pc[<<h, i>>]
    <3>1. \A h \in Group : \A i \in Members(h) : i # 0
      BY DEF Members
    <3> QED
      BY <1>2, <1>m, <3>1 DEF SpawnMaster, TypeOK, Master
  <2>3. /\ creator[g] = "claimed"
        /\ creator' = [creator EXCEPT ![g] = "spawned"]
        /\ UNCHANGED <<groupCount, nmemb>>
        /\ DOMAIN creator = Group
    BY <1>2 DEF SpawnMaster, TypeOK
  <2> QED
    BY <2>1, <2>2, <2>3 DEF CreationInOrder
<1>3. ASSUME NEW g \in Group, CountMaster(g)
      PROVE  CreationInOrder'
  BY <1>3 DEF CountMaster, CreationInOrder, TypeOK
<1>4. ASSUME NEW g \in Group, SpawnMember(g)
      PROVE  CreationInOrder'
  <2>1. \A h \in Group : pc'[Master(h)] = pc[Master(h)]
    <3>1. \A h \in Group : Master(h) # <<g, nmemb[g] + 1>>
      BY DEF Master, TypeOK
    <3> QED
      BY <1>4, <1>m, <3>1 DEF SpawnMember, TypeOK
  <2>2. \A h \in Group : \A i \in Members(h) :
           pc'[<<h, i>>] = IF h = g /\ i = nmemb[g] + 1 THEN "top" ELSE pc[<<h, i>>]
    BY <1>4, <1>m DEF SpawnMember, TypeOK
  <2>3. \A h \in Group : \A i \in Members(h) : i \in Nat
    BY DEF Members
  <2>4. /\ groupCount' = groupCount
        /\ creator[g] = "members"
        /\ creator' = [creator EXCEPT ![g] = "mspawned"]
        /\ nmemb' = [nmemb EXCEPT ![g] = nmemb[g] + 1]
        /\ nmemb \in [Group -> Nat]
        /\ DOMAIN creator = Group
    BY <1>4 DEF SpawnMember, TypeOK
  <2> QED
    BY <2>1, <2>2, <2>3, <2>4 DEF CreationInOrder
<1>5. ASSUME NEW g \in Group, CountMember(g)
      PROVE  CreationInOrder'
  BY <1>5 DEF CountMember, CreationInOrder, TypeOK
<1>6. ASSUME NEW g \in Group, NEW n \in Node, Submit(g, n)
      PROVE  CreationInOrder'
  BY <1>6, NoBirth DEF Submit, TypeOK, WokenBy
<1>7. ASSUME NEW t \in Thread, TestExitTop(t)
      PROVE  CreationInOrder'
  BY <1>7, NoBirth DEF TestExitTop, TypeOK
<1>8. ASSUME NEW t \in Thread, LeaveWithNode(t)
      PROVE  CreationInOrder'
  BY <1>8, NoBirth DEF LeaveWithNode, TypeOK
<1>9. ASSUME NEW t \in Thread, EnterCallback(t)
      PROVE  CreationInOrder'
  BY <1>9, NoBirth DEF EnterCallback, TypeOK
<1>10. ASSUME NEW t \in Thread, Take(t)
       PROVE  CreationInOrder'
  BY <1>10, NoBirth DEF Take, PopOr, Pop, TypeOK
<1>11. ASSUME NEW t \in Thread, Resume(t)
       PROVE  CreationInOrder'
  BY <1>11, NoBirth DEF Resume, PopOr, Pop, TypeOK
<1>12. ASSUME NEW t \in Thread, Timeout(t)
       PROVE  CreationInOrder'
  BY <1>12, NoBirth DEF Timeout, PopOr, Pop, TypeOK
<1>13. ASSUME NEW t \in Thread, SpuriousWake(t)
       PROVE  CreationInOrder'
  BY <1>13, NoBirth DEF SpuriousWake, TypeOK
<1>14. ASSUME NEW t \in Thread, Finish(t)
       PROVE  CreationInOrder'
  BY <1>14, NoBirth DEF Finish, LetGo, TypeOK
<1>15. ASSUME NEW t \in Thread, GroupFuncOk(t)
       PROVE  CreationInOrder'
  BY <1>15, NoBirth DEF GroupFuncOk, TypeOK
<1>16. ASSUME NEW t \in Thread, PassOn(t)
       PROVE  CreationInOrder'
  <2>1. UNCHANGED createVars
    BY <1>16 DEF PassOn
  <2>2. \A u \in Thread : pc'[u] = "unborn" <=> pc[u] = "unborn"
    <3>1. CASE TgCount[t[1]] <= 1
      BY <1>16, <3>1 DEF PassOn, LetGo, TypeOK
    <3>2. CASE ~(TgCount[t[1]] <= 1)
      <4> DEFINE m == <<t[1], rr[t[1]] + 1>>
      <4>1. pc' = [u \in Thread |-> IF u = t THEN "top"
                                    ELSE IF u = m THEN WokenBy(pc[u]) ELSE pc[u]]
        BY <1>16, <3>2 DEF PassOn
      <4>2. pc[t] # "unborn"
        BY <1>16 DEF PassOn
      <4> HIDE DEF m
      <4> QED
        BY <4>1, <4>2 DEF WokenBy
    <3> QED
      BY <3>1, <3>2
  <2> QED
    BY <2>1, <2>2, NoBirth
<1>17. ASSUME NEW t \in Thread, ListPeek(t)
       PROVE  CreationInOrder'
  BY <1>17, NoBirth DEF ListPeek
<1>18. ASSUME Broadcast
       PROVE  CreationInOrder'
  BY <1>18, NoBirth DEF Broadcast, WokenBy, TypeOK
<1>19. ASSUME OutsideTest \/ ExitRequest \/ Poll \/ UninitBegin \/ ListFree \/ UninitEnd
       PROVE  CreationInOrder'
  BY <1>19, NoBirth
     DEF OutsideTest, ExitRequest, Poll, UninitBegin, ListFree, UninitEnd
<1>20. ASSUME UNCHANGED vars
       PROVE  CreationInOrder'
  BY <1>20, NoBirth DEF vars
<1> QED
  BY <1>1, <1>2, <1>3, <1>4, <1>5, <1>6, <1>7, <1>8, <1>9, <1>10, <1>11, <1>12, <1>13,
     <1>14, <1>15, <1>16, <1>17, <1>18, <1>19, <1>20
     DEF Next, CreateStep, ThreadStep, MainStep, Ended

(* Type correctness, for any number of pools, threads and nodes.           *)
THEOREM ShapeCorrect == Spec => []Shape
<1>1. Init => Shape
  BY ShapeInit
<1>2. Shape /\ [Next]_vars => Shape'
  BY TypeStep, CreationStep DEF Shape
<1> QED
  BY <1>1, <1>2, PTL DEF Spec

(* The type invariant that the runs check follows from the inductive one.  *)
THEOREM TypeCorrect == Spec => []TypeOK
<1>1. Shape => TypeOK
  BY DEF Shape
<1> QED
  BY <1>1, ShapeCorrect, PTL

(* The threads of a pool are created once and in order.                    *)
THEOREM CreationCorrect == Spec => []CreationInOrder
<1>1. Shape => CreationInOrder
  BY DEF Shape
<1> QED
  BY <1>1, ShapeCorrect, PTL

-----------------------------------------------------------------------------
(* A node is in one place only.  Each lemma is one way a node moves.       *)

(* From a list into the hands of the thread that drains it.                *)
LEMMA PopKeepsPlace ==
    ASSUME TypeOK, NodeInOnePlace, NEW t \in Thread, held[t] = NoNode, Pop(t),
           UNCHANGED <<outside, leaked, disposed>>
    PROVE  NodeInOnePlace'
<1> DEFINE n == Head(list[t])
<1> USE DEF NodeInOnePlace, NoSharing, NoLoss
<1>1. /\ list[t] \in Seq(Node) /\ list[t] # <<>>
      /\ list' = [list EXCEPT ![t] = Tail(list[t])]
      /\ held' = [held EXCEPT ![t] = n]
      /\ DOMAIN list = Thread /\ DOMAIN held = Thread
  BY DEF Pop, TypeOK
<1>2. /\ n \in Node
      /\ Elements(list[t]) = Elements(list'[t]) \cup {n}
      /\ NoRepeat(list'[t]) /\ n \notin Elements(list'[t])
  BY <1>1, PopElements
<1>3. /\ \A u \in Thread : u # t => list'[u] = list[u] /\ held'[u] = held[u]
      /\ held'[t] = n
  BY <1>1
<1> HIDE DEF n
<1>4. \A u \in Thread : Elements(list'[u]) \subseteq Elements(list[u])
  BY <1>2, <1>3
<1>5. \A u \in Thread : n \notin Elements(list'[u])
  BY <1>2, <1>3
<1>6. \A u \in Thread : held[u] # n
  BY <1>2
<1>7. n \notin outside \cup leaked
  BY <1>2
<1>8. NoSharing'
  BY <1>2, <1>3, <1>4, <1>5, <1>6, <1>7
<1>9. NoLoss'
  <2> SUFFICES ASSUME NEW m \in Node, m \notin outside \cup leaked \cup disposed
               PROVE  \E u \in Thread : held'[u] = m \/ m \in Elements(list'[u])
    BY DEF NoLoss
  <2>1. PICK u \in Thread : held[u] = m \/ m \in Elements(list[u])
    OBVIOUS
  <2>2. held[u] = m => u # t
    BY PoolAssumption
  <2> QED
    BY <1>2, <1>3, <2>1, <2>2
<1> QED
  BY <1>8, <1>9

(* Out of the hands of a thread, to its owner or into oblivion.            *)
LEMMA ReleaseKeepsPlace ==
    ASSUME TypeOK, NodeInOnePlace, NEW t \in Thread, held[t] # NoNode,
           held' = [held EXCEPT ![t] = NoNode],
           \/ outside' = outside \cup {held[t]} /\ UNCHANGED leaked
           \/ leaked' = leaked \cup {held[t]} /\ UNCHANGED outside,
           UNCHANGED <<list, disposed>>
    PROVE  NodeInOnePlace'
<1> USE DEF NodeInOnePlace, NoSharing, NoLoss
<1>1. /\ held[t] \in Node
      /\ held'[t] = NoNode
      /\ \A u \in Thread : u # t => held'[u] = held[u]
  BY DEF TypeOK
<1>2. \A u \in Thread : NoNode \notin Elements(list[u])
  <2>1. \A u \in Thread : list[u] \in Seq(Node)
    BY DEF TypeOK
  <2> QED
    BY <2>1, ElementOfSeq, LenProperties, PoolAssumption DEF Elements
<1>3. NoNode \notin outside' \cup leaked'
  BY <1>1, PoolAssumption DEF TypeOK
<1>4. NoSharing'
  BY <1>1, <1>2, <1>3
<1>5. NoLoss'
  BY <1>1
<1> QED
  BY <1>4, <1>5

(* Onto the end of a list, from a thread's hands or from the owner.        *)
LEMMA PostKeepsPlace ==
    ASSUME TypeOK, NodeInOnePlace, NEW m \in Thread, NEW n \in Node,
           list' = [list EXCEPT ![m] = Append(list[m], n)],
           \/ \E t \in Thread : /\ held[t] = n
                                /\ held' = [held EXCEPT ![t] = NoNode]
                                /\ UNCHANGED outside
           \/ n \in outside /\ outside' = outside \ {n} /\ UNCHANGED held,
           UNCHANGED <<leaked, disposed>>
    PROVE  NodeInOnePlace'
<1> USE DEF NodeInOnePlace, NoSharing, NoLoss
<1>1. n # NoNode /\ \A u \in Thread : list[u] \in Seq(Node)
  BY PoolAssumption DEF TypeOK
<1>2. \A u \in Thread : n \notin Elements(list[u])
  OBVIOUS
<1>3. /\ Elements(list'[m]) = Elements(list[m]) \cup {n}
      /\ NoRepeat(list'[m])
      /\ \A u \in Thread : u # m => list'[u] = list[u]
  <2>1. list'[m] = Append(list[m], n) /\ \A u \in Thread : u # m => list'[u] = list[u]
    BY DEF TypeOK
  <2>2. /\ Elements(Append(list[m], n)) = Elements(list[m]) \cup {n}
        /\ NoRepeat(Append(list[m], n))
    BY <1>1, <1>2, AppendElements
  <2> QED
    BY <2>1, <2>2
<1>4. \A u \in Thread : held'[u] # n
  BY <1>1 DEF TypeOK
<1>5. \A u \in Thread : held'[u] = held[u] \/ held'[u] = NoNode
  BY DEF TypeOK
<1>6. outside' \subseteq outside /\ n \notin outside' \cup leaked'
  <2>1. CASE \E t \in Thread : held[t] = n /\ UNCHANGED outside
    BY <2>1
  <2>2. CASE n \in outside /\ outside' = outside \ {n}
    BY <2>2
  <2> QED
    BY <2>1, <2>2
<1>7. \A u \in Thread : NoNode \notin Elements(list[u])
  BY <1>1, ElementOfSeq, LenProperties, PoolAssumption DEF Elements
<1>8. NoNode \notin outside \cup leaked
  BY PoolAssumption DEF TypeOK
<1>9. NoSharing'
  <2>1. \A u \in Thread : NoRepeat(list'[u])
    BY <1>3
  <2>2. \A t, u \in Thread : t # u => Elements(list'[t]) \cap Elements(list'[u]) = {}
    BY <1>2, <1>3
  <2>3. \A t, u \in Thread : t # u /\ held'[t] # NoNode => held'[t] # held'[u]
    BY <1>5
  <2>4. \A t, u \in Thread : held'[t] \notin Elements(list'[u])
    BY <1>1, <1>3, <1>4, <1>5, <1>7
  <2>5. \A t \in Thread : held'[t] \notin outside' \cup leaked'
    BY <1>5, <1>6, <1>8
  <2>6. \A t \in Thread : Elements(list'[t]) \cap (outside' \cup leaked') = {}
    BY <1>3, <1>6
  <2>7. outside' \cap leaked' = {}
    BY <1>6
  <2> QED
    BY <2>1, <2>2, <2>3, <2>4, <2>5, <2>6, <2>7
<1>10. NoLoss'
  <2> SUFFICES ASSUME NEW x \in Node, x \notin outside' \cup leaked \cup disposed, x # n
               PROVE  \E u \in Thread : held'[u] = x \/ x \in Elements(list'[u])
    BY <1>3 DEF NoLoss
  <2>1. PICK u \in Thread : held[u] = x \/ x \in Elements(list[u])
    OBVIOUS
  <2>2. held[u] = x => held'[u] = x
    BY DEF TypeOK
  <2> QED
    BY <1>3, <2>1, <2>2
<1> QED
  BY <1>9, <1>10

(* tc_thread_uninit empties a list, and the list its peeked node is in by  *)
(* then loses that node.                                                   *)
LEMMA FreeKeepsPlace ==
    ASSUME TypeOK, NodeInOnePlace, ListFree
    PROVE  NodeInOnePlace'
<1> USE DEF NodeInOnePlace, NoSharing, NoLoss
<1> DEFINE t == peeked[1]
           n == peeked[2]
<1>1. /\ t \in Thread
      /\ list' = [u \in Thread |-> IF u = t THEN <<>> ELSE Delete(list[u], n)]
      /\ disposed' = disposed \cup {n} \cup Elements(list[t])
      /\ UNCHANGED <<held, outside, leaked>>
  BY DEF ListFree, TypeOK
<1> HIDE DEF t, n
<1>2. \A u \in Thread : /\ Elements(Delete(list[u], n)) \subseteq Elements(list[u])
                        /\ Elements(list[u]) \subseteq Elements(Delete(list[u], n)) \cup {n}
                        /\ NoRepeat(Delete(list[u], n))
  BY DeleteElements DEF TypeOK
<1>3. Elements(<<>>) = {} /\ NoRepeat(<<>>)
  BY DEF Elements, NoRepeat
<1>4. \A u \in Thread : Elements(list'[u]) \subseteq Elements(list[u]) /\ NoRepeat(list'[u])
  BY <1>1, <1>2, <1>3
<1>5. NoSharing'
  BY <1>1, <1>4
<1>6. NoLoss'
  <2> SUFFICES ASSUME NEW x \in Node, x \notin outside \cup leaked \cup disposed'
               PROVE  \E u \in Thread : held[u] = x \/ x \in Elements(list'[u])
    BY <1>1 DEF NoLoss
  <2>1. PICK u \in Thread : held[u] = x \/ x \in Elements(list[u])
    BY <1>1
  <2> QED
    BY <1>1, <1>2, <2>1
<1> QED
  BY <1>5, <1>6

(* The steps that move no node.                                            *)
LEMMA StillKeepsPlace ==
    ASSUME NodeInOnePlace, UNCHANGED <<list, held, outside, leaked, disposed>>
    PROVE  NodeInOnePlace'
BY DEF NodeInOnePlace, NoSharing, NoLoss

(* A thread that tries its list and may find it empty.                     *)
LEMMA PopOrKeepsPlace ==
    ASSUME TypeOK, NodeInOnePlace, NEW t \in Thread, NEW next, PopOr(t, next),
           pc[t] \in {"take", "waiting", "signalled"},
           UNCHANGED <<outside, leaked, disposed>>
    PROVE  NodeInOnePlace'
<1>1. held[t] = NoNode
  BY DEF TypeOK
<1> QED
  BY <1>1, PopKeepsPlace, StillKeepsPlace DEF PopOr

(* At the start every node is with its owner and nowhere else.             *)
LEMMA PlaceInit == Init => NodeInOnePlace
<1> SUFFICES ASSUME Init
             PROVE  NodeInOnePlace
  OBVIOUS
<1>1. \A t \in Thread : Elements(list[t]) = {} /\ NoRepeat(list[t])
  BY DEF Init, Elements, NoRepeat
<1> QED
  BY <1>1, PoolAssumption DEF Init, NodeInOnePlace, NoSharing, NoLoss

(* Every step keeps each node in one place, whichever list operation of    *)
(* tc_thread.c it makes.                                                   *)
LEMMA PlaceStep == TypeOK /\ NodeInOnePlace /\ [Next]_vars => NodeInOnePlace'
<1> SUFFICES ASSUME TypeOK, NodeInOnePlace, [Next]_vars
             PROVE  NodeInOnePlace'
  OBVIOUS
<1> USE DEF createVars, nodeVars, mainVars
<1>1. ASSUME NEW g \in Group, Claim(g) \/ CreateStep(g)
      PROVE  NodeInOnePlace'
  BY <1>1, StillKeepsPlace
     DEF Claim, CreateStep, SpawnMaster, CountMaster, SpawnMember, CountMember
<1>2. ASSUME NEW g \in Group, NEW n \in Node, Submit(g, n)
      PROVE  NodeInOnePlace'
  BY <1>2, PostKeepsPlace, ThreadShape DEF Submit, Enqueue
<1>3. ASSUME NEW t \in Thread, TestExitTop(t) \/ SpuriousWake(t) \/ GroupFuncOk(t)
      PROVE  NodeInOnePlace'
  BY <1>3, StillKeepsPlace DEF TestExitTop, SpuriousWake, GroupFuncOk
<1>4. ASSUME NEW t \in Thread, LeaveWithNode(t)
      PROVE  NodeInOnePlace'
  <2>1. held[t] # NoNode
    BY <1>4 DEF LeaveWithNode, TypeOK
  <2> QED
    BY <1>4, <2>1, ReleaseKeepsPlace DEF LeaveWithNode
<1>5. ASSUME NEW t \in Thread, EnterCallback(t)
      PROVE  NodeInOnePlace'
  <2>1. held[t] # NoNode
    BY <1>5 DEF EnterCallback, TypeOK
  <2>2. CASE t[2] = 0 \/ t[1] \in ExecFunc
    BY <1>5, <2>2, StillKeepsPlace DEF EnterCallback
  <2>3. CASE ~(t[2] = 0 \/ t[1] \in ExecFunc)
    BY <1>5, <2>1, <2>3, ReleaseKeepsPlace DEF EnterCallback
  <2> QED
    BY <2>2, <2>3
<1>6. ASSUME NEW t \in Thread, Take(t)
      PROVE  NodeInOnePlace'
  BY <1>6, PopOrKeepsPlace DEF Take
<1>7. ASSUME NEW t \in Thread, Resume(t)
      PROVE  NodeInOnePlace'
  BY <1>7, PopOrKeepsPlace DEF Resume
<1>8. ASSUME NEW t \in Thread, Timeout(t)
      PROVE  NodeInOnePlace'
  <2>1. CASE t[2] = 0
    BY <1>8, <2>1, PopOrKeepsPlace DEF Timeout
  <2>2. CASE t[2] # 0
    BY <1>8, <2>2, StillKeepsPlace DEF Timeout
  <2> QED
    BY <2>1, <2>2
<1>9. ASSUME NEW t \in Thread, Finish(t)
      PROVE  NodeInOnePlace'
  <2>1. held[t] # NoNode
    BY <1>9 DEF Finish, TypeOK
  <2> QED
    BY <1>9, <2>1, ReleaseKeepsPlace DEF Finish, LetGo
<1>10. ASSUME NEW t \in Thread, PassOn(t)
       PROVE  NodeInOnePlace'
  <2>1. held[t] # NoNode /\ held[t] \in Node
    BY <1>10 DEF PassOn, TypeOK
  <2>2. CASE TgCount[t[1]] <= 1
    BY <1>10, <2>1, <2>2, ReleaseKeepsPlace DEF PassOn, LetGo
  <2>3. CASE ~(TgCount[t[1]] <= 1)
    <3> DEFINE m == <<t[1], rr[t[1]] + 1>>
    <3>1. m \in Thread
      <4>1. /\ t[1] \in Group
            /\ TgCount[t[1]] \in Nat /\ TgCount[t[1]] > 1
            /\ rr[t[1]] \in Nat /\ rr[t[1]] < TgCount[t[1]]
        <5>1. t[1] \in Group
          BY ThreadShape
        <5>2. TgCount[t[1]] \in Nat
          BY <5>1, PoolAssumption
        <5>3. rr \in [Group -> Nat] /\ \A g \in Group : TgCount[g] > 1 => rr[g] < TgCount[g]
          BY DEF TypeOK
        <5> QED
          BY <2>3, <5>1, <5>2, <5>3
      <4>2. rr[t[1]] + 1 \in Members(t[1])
        BY <4>1 DEF Members
      <4> QED
        BY <4>1, <4>2, MemberIsThread
    <3>2. /\ list' = [list EXCEPT ![m] = Append(list[m], held[t])]
          /\ held' = [held EXCEPT ![t] = NoNode]
          /\ UNCHANGED <<outside, leaked, disposed>>
      BY <1>10, <2>3 DEF PassOn, Enqueue
    <3> HIDE DEF m
    <3> QED
      BY <2>1, <3>1, <3>2, PostKeepsPlace
  <2> QED
    BY <2>2, <2>3
<1>11. ASSUME NEW t \in Thread, ListPeek(t)
       PROVE  NodeInOnePlace'
  BY <1>11, StillKeepsPlace DEF ListPeek
<1>12. ASSUME ListFree
       PROVE  NodeInOnePlace'
  BY <1>12, FreeKeepsPlace
<1>13. ASSUME OutsideTest \/ ExitRequest \/ Broadcast \/ Poll \/ UninitBegin \/ UninitEnd
       PROVE  NodeInOnePlace'
  BY <1>13, StillKeepsPlace
     DEF OutsideTest, ExitRequest, Broadcast, Poll, UninitBegin, UninitEnd
<1>14. ASSUME UNCHANGED vars
       PROVE  NodeInOnePlace'
  BY <1>14, StillKeepsPlace DEF vars
<1> QED
  BY <1>1, <1>2, <1>3, <1>4, <1>5, <1>6, <1>7, <1>8, <1>9, <1>10, <1>11, <1>12, <1>13, <1>14
     DEF Next, ThreadStep, MainStep, Ended

(* Every node is in one list, once, or in one thread's hands, or with its  *)
(* owner, or given up at the exit: none is shared and none gets lost,      *)
(* whatever the number of pools, threads and nodes.                        *)
THEOREM OnePlace == Spec => []NodeInOnePlace
<1>1. Init => NodeInOnePlace
  BY PlaceInit
<1>2. TypeOK /\ NodeInOnePlace /\ [Next]_vars => NodeInOnePlace'
  BY PlaceStep
<1> QED
  BY <1>1, <1>2, TypeCorrect, PTL DEF Spec

-----------------------------------------------------------------------------
(* Lists whose entries are in a given order.                               *)

(* The pairs of entries of which the first comes before the second.        *)
Precedes(s) ==
    {p \in Elements(s) \X Elements(s) :
        \E j, k \in DOMAIN s : j < k /\ s[j] = p[1] /\ s[k] = p[2]}

InOrder(s, R) == \A j, k \in DOMAIN s : j < k => <<s[j], s[k]>> \in R

(* Two lists in order are one list in order, if the first comes before the *)
(* second.                                                                 *)
LEMMA ConcatInOrder ==
    ASSUME NEW S, NEW R, NEW p \in Seq(S), NEW q \in Seq(S), InOrder(p, R), InOrder(q, R),
           \A a \in Elements(p), b \in Elements(q) : <<a, b>> \in R
    PROVE  /\ p \o q \in Seq(S)
           /\ Elements(p \o q) = Elements(p) \cup Elements(q)
           /\ InOrder(p \o q, R)
<1> DEFINE c == p \o q
<1>1. /\ c \in Seq(S) /\ Len(c) = Len(p) + Len(q)
      /\ \A i \in 1 .. Len(p) + Len(q) : c[i] = IF i <= Len(p) THEN p[i] ELSE q[i - Len(p)]
  BY ConcatProperties
<1>2. /\ DOMAIN p = 1 .. Len(p) /\ DOMAIN q = 1 .. Len(q) /\ DOMAIN c = 1 .. Len(c)
      /\ Len(p) \in Nat /\ Len(q) \in Nat
  BY <1>1, LenProperties
<1> HIDE DEF c
<1>3. Elements(c) \subseteq Elements(p) \cup Elements(q)
  <2> SUFFICES ASSUME NEW i \in DOMAIN c
               PROVE  c[i] \in Elements(p) \cup Elements(q)
    BY DEF Elements
  <2>1. CASE i <= Len(p)
    BY <1>1, <1>2, <2>1 DEF Elements
  <2>2. CASE ~(i <= Len(p))
    <3>1. i - Len(p) \in DOMAIN q /\ c[i] = q[i - Len(p)]
      BY <1>1, <1>2, <2>2
    <3> QED
      BY <3>1 DEF Elements
  <2> QED
    BY <2>1, <2>2
<1>4. Elements(p) \cup Elements(q) \subseteq Elements(c)
  <2>1. ASSUME NEW i \in DOMAIN p
        PROVE  p[i] \in Elements(c)
    <3>1. i \in DOMAIN c /\ c[i] = p[i]
      BY <1>1, <1>2
    <3> QED
      BY <3>1 DEF Elements
  <2>2. ASSUME NEW i \in DOMAIN q
        PROVE  q[i] \in Elements(c)
    <3>1. Len(p) + i \in DOMAIN c /\ c[Len(p) + i] = q[i]
      BY <1>1, <1>2
    <3> QED
      BY <3>1 DEF Elements
  <2> QED
    BY <2>1, <2>2 DEF Elements
<1>5. InOrder(c, R)
  <2> SUFFICES ASSUME NEW j \in DOMAIN c, NEW k \in DOMAIN c, j < k
               PROVE  <<c[j], c[k]>> \in R
    BY DEF InOrder
  <2>1. CASE k <= Len(p)
    BY <1>1, <1>2, <2>1 DEF InOrder
  <2>2. CASE j > Len(p)
    <3>1. /\ j - Len(p) \in DOMAIN q /\ k - Len(p) \in DOMAIN q /\ j - Len(p) < k - Len(p)
          /\ c[j] = q[j - Len(p)] /\ c[k] = q[k - Len(p)]
      BY <1>1, <1>2, <2>2
    <3> QED
      BY <3>1 DEF InOrder
  <2>3. CASE j <= Len(p) /\ k > Len(p)
    <3>1. /\ j \in DOMAIN p /\ k - Len(p) \in DOMAIN q
          /\ c[j] = p[j] /\ c[k] = q[k - Len(p)]
      BY <1>1, <1>2, <2>3
    <3> QED
      BY <3>1 DEF Elements
  <2> QED
    BY <1>2, <2>1, <2>2, <2>3
<1> QED
  BY <1>1, <1>3, <1>4, <1>5 DEF c

(* list_add_tail keeps a list in order if the new entry comes last.        *)
LEMMA AppendInOrder ==
    ASSUME NEW S, NEW R, NEW s \in Seq(S), NEW e \in S, InOrder(s, R),
           \A a \in Elements(s) : <<a, e>> \in R
    PROVE  InOrder(Append(s, e), R)
<1> DEFINE c == Append(s, e)
<1>1. /\ c \in Seq(S) /\ Len(c) = Len(s) + 1 /\ c[Len(s) + 1] = e
      /\ \A i \in 1 .. Len(s) : c[i] = s[i]
  BY AppendProperties
<1>2. DOMAIN s = 1 .. Len(s) /\ DOMAIN c = 1 .. Len(c) /\ Len(s) \in Nat
  BY <1>1, LenProperties
<1> HIDE DEF c
<1>3. InOrder(c, R)
  <2> SUFFICES ASSUME NEW j \in DOMAIN c, NEW k \in DOMAIN c, j < k
               PROVE  <<c[j], c[k]>> \in R
    BY DEF InOrder
  <2>1. CASE k <= Len(s)
    BY <1>1, <1>2, <2>1 DEF InOrder
  <2>2. CASE k = Len(s) + 1
    <3>1. j \in DOMAIN s /\ c[j] = s[j] /\ c[k] = e
      BY <1>1, <1>2, <2>2
    <3> QED
      BY <3>1 DEF Elements
  <2> QED
    BY <1>1, <1>2, <2>1, <2>2
<1> QED
  BY <1>3 DEF c

(* What is taken from a list in order comes before what is left.           *)
LEMMA PopInOrder ==
    ASSUME NEW S, NEW R, NEW s \in Seq(S), s # <<>>, InOrder(s, R)
    PROVE  /\ InOrder(Tail(s), R)
           /\ \A a \in Elements(Tail(s)) : <<Head(s), a>> \in R
<1>1. /\ Tail(s) \in Seq(S) /\ Len(Tail(s)) = Len(s) - 1 /\ Head(s) = s[1]
      /\ \A i \in 1 .. Len(Tail(s)) : Tail(s)[i] = s[i + 1]
      /\ DOMAIN s = 1 .. Len(s) /\ DOMAIN Tail(s) = 1 .. Len(s) - 1
      /\ Len(s) \in Nat /\ Len(s) >= 1
  BY HeadTailProperties, LenProperties, EmptySeq
<1>2. InOrder(Tail(s), R)
  BY <1>1 DEF InOrder
<1>3. \A i \in 1 .. Len(s) - 1 : <<s[1], Tail(s)[i]>> \in R
  BY <1>1 DEF InOrder
<1> QED
  BY <1>1, <1>2, <1>3 DEF Elements

(* A list that grows keeps its order, and the new entry is the last.       *)
LEMMA AppendPrecedes ==
    ASSUME NEW S, NEW s \in Seq(S), NEW e \in S
    PROVE  /\ Precedes(s) \subseteq Precedes(Append(s, e))
           /\ \A a \in Elements(s) : <<a, e>> \in Precedes(Append(s, e))
<1> DEFINE c == Append(s, e)
<1>1. /\ c \in Seq(S) /\ Len(c) = Len(s) + 1 /\ c[Len(s) + 1] = e
      /\ \A i \in 1 .. Len(s) : c[i] = s[i]
      /\ Elements(c) = Elements(s) \cup {e}
  BY AppendProperties, AppendElements
<1>2. DOMAIN s = 1 .. Len(s) /\ DOMAIN c = 1 .. Len(c) /\ Len(s) \in Nat
  BY <1>1, LenProperties
<1> HIDE DEF c
<1>3. ASSUME NEW p \in Precedes(s)
      PROVE  p \in Precedes(c)
  <2>1. PICK j \in DOMAIN s, k \in DOMAIN s : j < k /\ s[j] = p[1] /\ s[k] = p[2]
    BY DEF Precedes
  <2>2. j \in DOMAIN c /\ k \in DOMAIN c /\ c[j] = p[1] /\ c[k] = p[2]
    BY <1>1, <1>2, <2>1
  <2>3. p \in Elements(c) \X Elements(c)
    BY <1>1 DEF Precedes
  <2> QED
    BY <2>1, <2>2, <2>3 DEF Precedes
<1>4. ASSUME NEW a \in Elements(s)
      PROVE  <<a, e>> \in Precedes(c)
  <2>1. PICK j \in DOMAIN s : s[j] = a
    BY DEF Elements
  <2>2. j \in DOMAIN c /\ Len(s) + 1 \in DOMAIN c /\ j < Len(s) + 1
        /\ c[j] = a /\ c[Len(s) + 1] = e
    BY <1>1, <1>2, <2>1
  <2>3. <<a, e>> \in Elements(c) \X Elements(c)
    BY <1>1
  <2> QED
    BY <2>2, <2>3 DEF Precedes
<1> QED
  BY <1>3, <1>4 DEF c

(* list_del leaves the others in their order.                              *)
LEMMA DeletePrecedes ==
    ASSUME NEW S, NEW s \in Seq(S), NEW e, NEW a, NEW b, a # e, b # e,
           <<a, b>> \in Precedes(s)
    PROVE  <<a, b>> \in Precedes(Delete(s, e))
<1>1. Len(s) \in Nat /\ DOMAIN s = 1 .. Len(s)
  BY LenProperties
<1>2. CASE e \notin Elements(s)
  BY <1>2 DEF Delete
<1>3. CASE e \in Elements(s)
  <2> DEFINE m == CHOOSE i \in 1 .. Len(s) : s[i] = e
             d == [i \in 1 .. Len(s) - 1 |-> IF i < m THEN s[i] ELSE s[i + 1]]
             At(i) == IF i < m THEN i ELSE i - 1
  <2>1. m \in 1 .. Len(s) /\ s[m] = e
    BY <1>1, <1>3 DEF Elements
  <2>2. Delete(s, e) = d
    BY <1>3 DEF Delete
  <2> HIDE DEF m
  <2>3. PICK j \in DOMAIN s, k \in DOMAIN s : j < k /\ s[j] = a /\ s[k] = b
    BY DEF Precedes
  <2>4. j # m /\ k # m
    BY <2>1, <2>3
  <2>5. At(j) \in 1 .. Len(s) - 1 /\ At(k) \in 1 .. Len(s) - 1 /\ At(j) < At(k)
    BY <1>1, <2>1, <2>3, <2>4
  <2>6. d[At(j)] = a /\ d[At(k)] = b
    BY <1>1, <2>1, <2>3, <2>4, <2>5
  <2>7. DOMAIN d = 1 .. Len(s) - 1
    OBVIOUS
  <2> HIDE DEF d, At
  <2>8. a \in Elements(d) /\ b \in Elements(d)
    BY <2>5, <2>6, <2>7 DEF Elements
  <2>9. <<a, b>> \in Precedes(d)
    BY <2>5, <2>6, <2>7, <2>8 DEF Precedes
  <2> QED
    BY <2>2, <2>9
<1> QED
  BY <1>2, <1>3

(* Without repetitions the order is that of the places.                    *)
LEMMA PrecedesPlaces ==
    ASSUME NEW S, NEW s \in Seq(S), NoRepeat(s), NEW a, NEW b, <<a, b>> \in Precedes(s)
    PROVE  (CHOOSE i \in DOMAIN s : s[i] = a) < (CHOOSE i \in DOMAIN s : s[i] = b)
<1>1. PICK j \in DOMAIN s, k \in DOMAIN s : j < k /\ s[j] = a /\ s[k] = b
  BY DEF Precedes
<1>2. (CHOOSE i \in DOMAIN s : s[i] = a) = j
  BY <1>1 DEF NoRepeat
<1>3. (CHOOSE i \in DOMAIN s : s[i] = b) = k
  BY <1>1 DEF NoRepeat
<1> QED
  BY <1>1, <1>2, <1>3

-----------------------------------------------------------------------------
(* The nodes of a pool in the order in which they were submitted.          *)

NodesOf(t) == Elements(list[t]) \cup ({held[t]} \ {NoNode})
Before(g)  == Precedes(order[g])

(* The history of a pool holds the nodes that are in it, each once.        *)
Recorded ==
    \A g \in Group :
        /\ NoRepeat(order[g])
        /\ \A n \in Node : n \in Elements(order[g]) <=>
                               \E t \in Thread : t[1] = g /\ n \in NodesOf(t)

(* A thread's list is in order, behind what it has in its hands ...        *)
ThreadInOrder(t) ==
    /\ InOrder(list[t], Before(t[1]))
    /\ held[t] # NoNode => \A n \in Elements(list[t]) : <<held[t], n>> \in Before(t[1])

(* ... and what a member has comes before what its master has.             *)
MemberFirst(g, i) ==
    \A a \in NodesOf(<<g, i>>), b \in NodesOf(Master(g)) : <<a, b>> \in Before(g)

Ordered ==
    /\ Recorded
    /\ \A t \in Thread : ThreadInOrder(t)
    /\ \A g \in Group : \A i \in Members(g) : MemberFirst(g, i)

(* What a thread has is nodes.                                             *)
LEMMA NodesOfType == ASSUME TypeOK, NEW t \in Thread PROVE NodesOf(t) \subseteq Node
BY ElementsInSet DEF NodesOf, TypeOK

(* Steps that move no node.                                                *)
LEMMA StillOrdered ==
    ASSUME Ordered, UNCHANGED <<list, held, order>>
    PROVE  Ordered'
BY DEF Ordered, Recorded, ThreadInOrder, MemberFirst, NodesOf, Before

(* A thread takes the first node of its list.                              *)
LEMMA PopOrdered ==
    ASSUME TypeOK, Ordered, NEW t \in Thread, held[t] = NoNode, Pop(t), UNCHANGED order
    PROVE  Ordered'
<1>1. /\ list[t] \in Seq(Node) /\ list[t] # <<>>
      /\ list'[t] = Tail(list[t]) /\ held'[t] = Head(list[t])
      /\ \A u \in Thread : u # t => list'[u] = list[u] /\ held'[u] = held[u]
  BY DEF Pop, TypeOK
<1>2. /\ Head(list[t]) \in Node
      /\ Elements(list[t]) = Elements(Tail(list[t])) \cup {Head(list[t])}
  BY <1>1, PopElements
<1>3. \A u \in Thread : NodesOf(u)' = NodesOf(u)
  BY <1>1, <1>2, PoolAssumption DEF NodesOf
<1>4. \A g : Before(g)' = Before(g)
  BY DEF Before
<1>5. Recorded'
  BY <1>3 DEF Ordered, Recorded
<1>6. ASSUME NEW u \in Thread
      PROVE  ThreadInOrder(u)'
  <2>1. CASE u = t
    <3>1. InOrder(list[t], Before(t[1]))
      BY DEF Ordered, ThreadInOrder
    <3>2. /\ InOrder(Tail(list[t]), Before(t[1]))
          /\ \A a \in Elements(Tail(list[t])) : <<Head(list[t]), a>> \in Before(t[1])
      BY <1>1, <3>1, PopInOrder
    <3> QED
      BY <1>1, <1>4, <2>1, <3>2 DEF ThreadInOrder
  <2>2. CASE u # t
    BY <1>1, <1>4, <2>2 DEF Ordered, ThreadInOrder
  <2> QED
    BY <2>1, <2>2
<1>7. ASSUME NEW g \in Group, NEW i \in Members(g)
      PROVE  MemberFirst(g, i)'
  <2>1. NodesOf(<<g, i>>)' = NodesOf(<<g, i>>) /\ NodesOf(Master(g))' = NodesOf(Master(g))
    BY <1>3, MemberIsThread, ThreadShape
  <2> QED
    BY <1>4, <2>1 DEF Ordered, MemberFirst
<1> QED
  BY <1>5, <1>6, <1>7 DEF Ordered

(* A caller appends a node to a pool's list.                               *)
LEMMA SubmitOrdered ==
    ASSUME TypeOK, NodeInOnePlace, Ordered, NEW g \in Group, NEW n \in outside,
           list' = [list EXCEPT ![Master(g)] = Append(@, n)],
           order' = [order EXCEPT ![g] = Append(@, n)], UNCHANGED held
    PROVE  Ordered'
<1> DEFINE M == Master(g)
<1>1. M \in Thread /\ M[1] = g /\ n \in Node /\ n # NoNode
  BY ThreadShape, PoolAssumption DEF TypeOK
<1> HIDE DEF M
<1>2. /\ list'[M] = Append(list[M], n) /\ \A u \in Thread : u # M => list'[u] = list[u]
      /\ order'[g] = Append(order[g], n) /\ \A h \in Group : h # g => order'[h] = order[h]
      /\ list[M] \in Seq(Node) /\ order[g] \in Seq(Node)
  BY <1>1 DEF TypeOK, M
<1>3. \A u \in Thread : n \notin NodesOf(u)
  BY DEF NodesOf, NodeInOnePlace, NoSharing
<1>4. n \notin Elements(order[g])
  BY <1>1, <1>3 DEF Ordered, Recorded
<1>5. /\ NodesOf(M)' = NodesOf(M) \cup {n}
      /\ \A u \in Thread : u # M => NodesOf(u)' = NodesOf(u)
  BY <1>1, <1>2, AppendElements DEF NodesOf
<1>6. /\ NoRepeat(order'[g]) /\ Elements(order'[g]) = Elements(order[g]) \cup {n}
  BY <1>1, <1>2, <1>4, AppendElements DEF Ordered, Recorded
<1>7. /\ \A h \in Group : Before(h) \subseteq Before(h)'
      /\ \A a \in Elements(order[g]) : <<a, n>> \in Before(g)'
  BY <1>1, <1>2, AppendPrecedes DEF Before
<1>8. Recorded'
  <2> SUFFICES ASSUME NEW h \in Group
               PROVE  /\ NoRepeat(order'[h])
                      /\ \A x \in Node : x \in Elements(order'[h]) <=>
                             \E t \in Thread : t[1] = h /\ x \in NodesOf(t)'
    BY DEF Recorded
  <2>1. CASE h = g
    <3>1. ASSUME NEW x \in Node
          PROVE  x \in Elements(order'[g]) <=> \E t \in Thread : t[1] = g /\ x \in NodesOf(t)'
      <4>1. CASE x = n
        BY <1>1, <1>5, <1>6, <4>1
      <4>2. CASE x # n
        <5>1. \A t \in Thread : x \in NodesOf(t)' <=> x \in NodesOf(t)
          BY <1>5, <4>2
        <5> QED
          BY <1>6, <4>2, <5>1 DEF Ordered, Recorded
      <4> QED
        BY <4>1, <4>2
    <3> QED
      BY <1>6, <2>1, <3>1
  <2>2. CASE h # g
    <3>1. \A t \in Thread : t[1] = h => NodesOf(t)' = NodesOf(t)
      BY <1>1, <1>5, <2>2
    <3> QED
      BY <1>2, <2>2, <3>1 DEF Ordered, Recorded
  <2> QED
    BY <2>1, <2>2
<1>9. \A u \in Thread : u[1] = g => \A a \in NodesOf(u) : <<a, n>> \in Before(g)'
  BY <1>7, NodesOfType DEF Ordered, Recorded
<1>10. ASSUME NEW u \in Thread
       PROVE  ThreadInOrder(u)'
  <2>1. u[1] \in Group
    BY ThreadShape
  <2>2. InOrder(list[u], Before(u[1])')
    BY <1>7, <2>1 DEF Ordered, ThreadInOrder, InOrder
  <2>3. held[u] # NoNode => \A x \in Elements(list[u]) : <<held[u], x>> \in Before(u[1])'
    BY <1>7, <2>1 DEF Ordered, ThreadInOrder
  <2>4. CASE u = M
    <3>1. \A a \in Elements(list[M]) : <<a, n>> \in Before(g)'
      BY <1>1, <1>9 DEF NodesOf
    <3>2. InOrder(list'[M], Before(g)')
      BY <1>1, <1>2, <2>2, <2>4, <3>1, AppendInOrder
    <3>3. Elements(list'[M]) = Elements(list[M]) \cup {n}
      BY <1>1, <1>2, AppendElements
    <3>4. held[M] # NoNode => <<held[M], n>> \in Before(g)'
      BY <1>1, <1>9 DEF NodesOf
    <3> QED
      BY <1>1, <2>3, <2>4, <3>2, <3>3, <3>4 DEF ThreadInOrder
  <2>5. CASE u # M
    BY <1>2, <2>2, <2>3, <2>5 DEF ThreadInOrder
  <2> QED
    BY <2>4, <2>5
<1>11. ASSUME NEW h \in Group, NEW i \in Members(h)
       PROVE  MemberFirst(h, i)'
  <2>1. <<h, i>> \in Thread /\ Master(h) \in Thread
    BY MemberIsThread, ThreadShape
  <2>2. <<h, i>> # M
    <3>1. i # 0
      BY DEF Members
    <3> QED
      BY <3>1 DEF M, Master
  <2>3. \A a \in NodesOf(<<h, i>>), b \in NodesOf(Master(h)) : <<a, b>> \in Before(h)'
    BY <1>7 DEF Ordered, MemberFirst
  <2>4. CASE h = g
    BY <1>5, <1>9, <2>1, <2>2, <2>3, <2>4 DEF MemberFirst, M
  <2>5. CASE h # g
    <3>1. Master(h) # M
      BY <2>5 DEF M, Master
    <3> QED
      BY <1>5, <2>1, <2>2, <2>3, <3>1 DEF MemberFirst
  <2> QED
    BY <2>4, <2>5
<1> QED
  BY <1>8, <1>10, <1>11 DEF Ordered

(* A thread lets a node go back to its owner, and its pool forgets it.     *)
LEMMA ReturnOrdered ==
    ASSUME TypeOK, NodeInOnePlace, Ordered, NEW t \in Thread, held[t] # NoNode,
           held' = [held EXCEPT ![t] = NoNode], order' = OrderLess(t[1], held[t]),
           UNCHANGED list
    PROVE  Ordered'
<1>1. PICK n \in Node : n = held[t]
  BY DEF TypeOK
<1>2. PICK g \in Group : g = t[1]
  BY ThreadShape
<1>3. /\ held'[t] = NoNode /\ \A u \in Thread : u # t => held'[u] = held[u]
      /\ order'[g] = Delete(order[g], n) /\ \A h \in Group : h # g => order'[h] = order[h]
      /\ order[g] \in Seq(Node) /\ n # NoNode
  BY <1>1, <1>2 DEF OrderLess, TypeOK
<1>4. /\ \A u \in Thread : n \notin Elements(list[u])
      /\ \A u \in Thread : u # t => held[u] # n
  BY <1>1 DEF NodeInOnePlace, NoSharing
<1>5. \A u \in Thread : NodesOf(u)' = NodesOf(u) \ {n} /\ n \notin NodesOf(u)'
  BY <1>1, <1>3, <1>4 DEF NodesOf
<1>6. /\ NoRepeat(order'[g]) /\ n \notin Elements(order'[g])
      /\ Elements(order'[g]) \subseteq Elements(order[g])
      /\ Elements(order[g]) \subseteq Elements(order'[g]) \cup {n}
  BY <1>3, DeleteElements DEF Ordered, Recorded
<1>7. \A h \in Group : \A a, b : a # n /\ b # n /\ <<a, b>> \in Before(h) => <<a, b>> \in Before(h)'
  BY <1>3, DeletePrecedes DEF Before
<1>8. Recorded'
  <2> SUFFICES ASSUME NEW h \in Group
               PROVE  /\ NoRepeat(order'[h])
                      /\ \A x \in Node : x \in Elements(order'[h]) <=>
                             \E u \in Thread : u[1] = h /\ x \in NodesOf(u)'
    BY DEF Recorded
  <2>1. CASE h = g
    <3>1. ASSUME NEW x \in Node
          PROVE  x \in Elements(order'[g]) <=> \E u \in Thread : u[1] = g /\ x \in NodesOf(u)'
      <4>1. CASE x = n
        BY <1>5, <1>6, <4>1
      <4>2. CASE x # n
        <5>1. \A u \in Thread : x \in NodesOf(u)' <=> x \in NodesOf(u)
          BY <1>5, <4>2
        <5> QED
          BY <1>6, <4>2, <5>1 DEF Ordered, Recorded
      <4> QED
        BY <4>1, <4>2
    <3> QED
      BY <1>6, <2>1, <3>1
  <2>2. CASE h # g
    <3>1. \A u \in Thread : u[1] = h => n \notin NodesOf(u)
      BY <1>1, <1>2, <1>3, <1>4, <2>2 DEF NodesOf
    <3>2. \A u \in Thread : u[1] = h => NodesOf(u)' = NodesOf(u)
      BY <1>5, <3>1
    <3> QED
      BY <1>3, <2>2, <3>2 DEF Ordered, Recorded
  <2> QED
    BY <2>1, <2>2
<1>9. ASSUME NEW u \in Thread
      PROVE  ThreadInOrder(u)'
  <2>1. u[1] \in Group
    BY ThreadShape
  <2>2. InOrder(list[u], Before(u[1])')
    <3>1. \A j \in DOMAIN list[u] : list[u][j] # n
      BY <1>4 DEF Elements
    <3> QED
      BY <1>7, <2>1, <3>1 DEF Ordered, ThreadInOrder, InOrder
  <2>3. held'[u] # NoNode => \A x \in Elements(list[u]) : <<held'[u], x>> \in Before(u[1])'
    BY <1>3, <1>4, <1>7, <2>1 DEF Ordered, ThreadInOrder
  <2> QED
    BY <2>2, <2>3 DEF ThreadInOrder
<1>10. ASSUME NEW h \in Group, NEW i \in Members(h)
       PROVE  MemberFirst(h, i)'
  <2>1. <<h, i>> \in Thread /\ Master(h) \in Thread
    BY MemberIsThread, ThreadShape
  <2> QED
    BY <1>5, <1>7, <2>1 DEF Ordered, MemberFirst
<1> QED
  BY <1>8, <1>9, <1>10 DEF Ordered

(* A master hands what it has on to one of its members.                    *)
LEMMA HandOnOrdered ==
    ASSUME TypeOK, NodeInOnePlace, Ordered, NEW g \in Group, NEW m \in Members(g),
           held[Master(g)] # NoNode,
           list' = [list EXCEPT ![<<g, m>>] = Append(@, held[Master(g)])],
           held' = [held EXCEPT ![Master(g)] = NoNode], UNCHANGED order
    PROVE  Ordered'
<1> DEFINE M == Master(g)
           U == <<g, m>>
<1>1. M \in Thread /\ U \in Thread /\ M # U /\ M[1] = g /\ U[1] = g
  <2>1. m # 0
    BY DEF Members
  <2> QED
    BY <2>1, ThreadShape, MemberIsThread DEF Master
<1>2. PICK n \in Node : n = held[M]
  BY <1>1 DEF TypeOK
<1> HIDE DEF M, U
<1>3. /\ list'[U] = Append(list[U], n) /\ \A u \in Thread : u # U => list'[u] = list[u]
      /\ held'[M] = NoNode /\ \A u \in Thread : u # M => held'[u] = held[u]
      /\ list[U] \in Seq(Node) /\ n # NoNode
  BY <1>1, <1>2 DEF TypeOK, M, U
<1>4. \A h : Before(h)' = Before(h)
  BY DEF Before
<1>5. Elements(list'[U]) = Elements(list[U]) \cup {n}
  <2>1. list[U] \in Seq(Node)
    BY <1>3
  <2>2. Elements(Append(list[U], n)) = Elements(list[U]) \cup {n}
    BY <2>1, AppendElements
  <2> QED
    BY <1>3, <2>2
<1>6. /\ NodesOf(U)' = NodesOf(U) \cup {n}
      /\ NodesOf(M)' \subseteq NodesOf(M)
      /\ NodesOf(M) \subseteq NodesOf(M)' \cup {n}
      /\ n \in NodesOf(M)
      /\ \A u \in Thread : u # U /\ u # M => NodesOf(u)' = NodesOf(u)
  BY <1>1, <1>2, <1>3, <1>5 DEF NodesOf
<1>7. Recorded'
  <2> SUFFICES ASSUME NEW h \in Group, NEW x \in Node
               PROVE  (\E u \in Thread : u[1] = h /\ x \in NodesOf(u)')
                          <=> \E u \in Thread : u[1] = h /\ x \in NodesOf(u)
    BY DEF Ordered, Recorded
  <2>1. ASSUME NEW u \in Thread, u[1] = h, x \in NodesOf(u)'
        PROVE  \E v \in Thread : v[1] = h /\ x \in NodesOf(v)
    BY <1>1, <1>6, <2>1
  <2>2. ASSUME NEW u \in Thread, u[1] = h, x \in NodesOf(u)
        PROVE  \E v \in Thread : v[1] = h /\ x \in NodesOf(v)'
    BY <1>1, <1>6, <2>2
  <2> QED
    BY <2>1, <2>2
<1>8. \A a \in NodesOf(U), b \in NodesOf(M) : <<a, b>> \in Before(g)
  BY DEF Ordered, MemberFirst, M, U
<1>9. \A b \in Elements(list[M]) : <<n, b>> \in Before(g)
  BY <1>1, <1>2, <1>3 DEF Ordered, ThreadInOrder
<1>10. ASSUME NEW u \in Thread
       PROVE  ThreadInOrder(u)'
  <2>1. CASE u = U
    <3>1. \A a \in Elements(list[U]) : <<a, n>> \in Before(g)
      BY <1>6, <1>8 DEF NodesOf
    <3>2. InOrder(list[U], Before(g))
      BY <1>1 DEF Ordered, ThreadInOrder
    <3>3. InOrder(list'[U], Before(g))
      BY <1>3, <3>1, <3>2, AppendInOrder
    <3>4. held[U] # NoNode => /\ <<held[U], n>> \in Before(g)
                              /\ \A x \in Elements(list[U]) : <<held[U], x>> \in Before(g)
      BY <1>1, <1>6, <1>8 DEF Ordered, ThreadInOrder, NodesOf
    <3> QED
      BY <1>1, <1>3, <1>4, <1>5, <2>1, <3>3, <3>4 DEF ThreadInOrder
  <2>2. CASE u # U
    BY <1>3, <1>4, <2>2 DEF Ordered, ThreadInOrder
  <2> QED
    BY <2>1, <2>2
<1>11. ASSUME NEW h \in Group, NEW i \in Members(h)
       PROVE  MemberFirst(h, i)'
  <2>1. <<h, i>> \in Thread /\ Master(h) \in Thread
    BY MemberIsThread, ThreadShape
  <2>2. i # 0 /\ m # 0
    BY DEF Members
  <2>3. <<h, i>> # M /\ Master(h) # U /\ (h # g => Master(h) # M) /\ (h = g => Master(h) = M)
    BY <2>2 DEF M, U, Master
  <2>4. MemberFirst(h, i)
    BY DEF Ordered
  <2>5. NodesOf(Master(h))' \subseteq NodesOf(Master(h))
    BY <1>6, <2>1, <2>3
  <2>6. CASE <<h, i>> = U
    <3>1. h = g
      BY <2>6 DEF U
    <3>2. NodesOf(M)' = Elements(list[M])
      BY <1>1, <1>3 DEF NodesOf
    <3> QED
      BY <1>4, <1>6, <1>9, <2>3, <2>4, <2>5, <2>6, <3>1, <3>2 DEF MemberFirst
  <2>7. CASE <<h, i>> # U
    BY <1>4, <1>6, <2>1, <2>3, <2>4, <2>5, <2>7 DEF MemberFirst
  <2> QED
    BY <2>6, <2>7
<1> QED
  BY <1>7, <1>10, <1>11 DEF Ordered

(* Only a master passes nodes on, and main frees them only after the exit. *)
Roles ==
    /\ \A t \in Thread : pc[t] = "pass" => t[2] = 0
    /\ stage = "run" <=> ~exit

(* Every step of a thread keeps to its role.                               *)
LEMMA RolesStep == Shape /\ Roles /\ [Next]_vars => Roles'
<1> SUFFICES ASSUME TypeOK, CreationInOrder, Roles, [Next]_vars
             PROVE  Roles'
  BY DEF Shape
<1> USE DEF mainVars
<1>1. ASSUME NEW g \in Group, Claim(g) \/ CountMaster(g) \/ CountMember(g)
      PROVE  Roles'
  BY <1>1 DEF Claim, CountMaster, CountMember, Roles
<1>2. ASSUME NEW g \in Group, SpawnMaster(g) \/ SpawnMember(g)
      PROVE  Roles'
  <2>1. \E u : pc' = [pc EXCEPT ![u] = "top"]
    BY <1>2 DEF SpawnMaster, SpawnMember
  <2>2. \A t \in Thread : pc'[t] = pc[t] \/ pc'[t] = "top"
    BY <2>1 DEF TypeOK
  <2> QED
    BY <1>2, <2>2 DEF SpawnMaster, SpawnMember, Roles
<1>3. ASSUME NEW g \in Group, NEW n \in Node, Submit(g, n)
      PROVE  Roles'
  BY <1>3 DEF Submit, WokenBy, Roles, TypeOK
<1>4. ASSUME NEW t \in Thread, PassOn(t)
      PROVE  Roles'
  <2>1. CASE TgCount[t[1]] <= 1
    BY <1>4, <2>1 DEF PassOn, LetGo, Roles, TypeOK
  <2>2. CASE ~(TgCount[t[1]] <= 1)
    <3> DEFINE m == <<t[1], rr[t[1]] + 1>>
    <3>1. pc' = [u \in Thread |-> IF u = t THEN "top"
                                  ELSE IF u = m THEN WokenBy(pc[u]) ELSE pc[u]]
      BY <1>4, <2>2 DEF PassOn
    <3> HIDE DEF m
    <3> QED
      BY <1>4, <3>1 DEF PassOn, WokenBy, Roles
  <2> QED
    BY <2>1, <2>2
<1>5. ASSUME NEW t \in Thread, ThreadStep(t) \/ SpuriousWake(t), ~PassOn(t)
      PROVE  Roles'
  BY <1>5 DEF ThreadStep, SpuriousWake, TestExitTop, LeaveWithNode, EnterCallback, Take, Resume,
              Timeout, PopOr, Pop, Finish, LetGo, GroupFuncOk, Roles, TypeOK
<1>6. ASSUME OutsideTest \/ ExitRequest \/ MainStep \/ UNCHANGED vars
      PROVE  Roles'
  BY <1>6 DEF OutsideTest, ExitRequest, MainStep, Broadcast, Poll, UninitBegin, ListPeek,
              ListFree, UninitEnd, WokenBy, vars, Roles, TypeOK
<1> QED
  BY <1>1, <1>2, <1>3, <1>4, <1>5, <1>6 DEF Next, CreateStep, Ended

(* Until the exit every step keeps the order.                              *)
LEMMA OrderStep ==
    Shape /\ NodeInOnePlace /\ Roles /\ (~exit => Ordered) /\ [Next]_vars => (~exit => Ordered)'
<1> SUFFICES ASSUME TypeOK, NodeInOnePlace, Roles, ~exit => Ordered, [Next]_vars, ~exit'
             PROVE  Ordered'
  BY DEF Shape
<1> USE DEF nodeVars, mainVars, createVars
<1>0. ASSUME UNCHANGED exit, UNCHANGED <<list, held, order>>
      PROVE  Ordered'
  BY <1>0, StillOrdered
<1>1. ASSUME NEW g \in Group, Claim(g) \/ CreateStep(g)
      PROVE  Ordered'
  BY <1>0, <1>1 DEF Claim, CreateStep, SpawnMaster, CountMaster, SpawnMember, CountMember
<1>2. ASSUME NEW g \in Group, NEW n \in Node, Submit(g, n)
      PROVE  Ordered'
  <2>1. /\ Ordered /\ n \in outside /\ UNCHANGED held
        /\ list' = [list EXCEPT ![Master(g)] = Append(@, n)]
        /\ order' = [order EXCEPT ![g] = Append(@, n)]
    BY <1>2 DEF Submit, Enqueue
  <2> QED
    BY <2>1, SubmitOrdered
<1>3. ASSUME NEW t \in Thread, Take(t) \/ Resume(t) \/ Timeout(t)
      PROVE  Ordered'
  <2>1. UNCHANGED <<exit, order>> /\ held[t] = NoNode
    BY <1>3 DEF Take, Resume, Timeout, TypeOK
  <2>2. Pop(t) \/ UNCHANGED <<held, list>>
    BY <1>3 DEF Take, Resume, Timeout, PopOr
  <2> QED
    BY <1>0, <2>1, <2>2, PopOrdered
<1>4. ASSUME NEW t \in Thread, LeaveWithNode(t)
      PROVE  Ordered'
  BY <1>4 DEF LeaveWithNode
<1>5. ASSUME NEW t \in Thread, held[t] # NoNode, LetGo(t), UNCHANGED <<exit, list>>
      PROVE  Ordered'
  BY <1>5, ReturnOrdered DEF LetGo
<1>6. ASSUME NEW t \in Thread, EnterCallback(t)
      PROVE  Ordered'
  <2>1. UNCHANGED <<exit, list>> /\ held[t] # NoNode
    BY <1>6 DEF EnterCallback, TypeOK
  <2>2. UNCHANGED <<held, order>> \/ LetGo(t)
    BY <1>6 DEF EnterCallback, LetGo
  <2> QED
    BY <1>0, <1>5, <2>1, <2>2
<1>7. ASSUME NEW t \in Thread, TestExitTop(t) \/ SpuriousWake(t) \/ GroupFuncOk(t)
      PROVE  Ordered'
  BY <1>0, <1>7 DEF TestExitTop, SpuriousWake, GroupFuncOk
<1>8. ASSUME NEW t \in Thread, Finish(t)
      PROVE  Ordered'
  BY <1>5, <1>8 DEF Finish, TypeOK
<1>9. ASSUME NEW t \in Thread, PassOn(t)
      PROVE  Ordered'
  <2>1. held[t] # NoNode /\ UNCHANGED exit
    BY <1>9 DEF PassOn, TypeOK
  <2>2. CASE TgCount[t[1]] <= 1
    BY <1>5, <1>9, <2>1, <2>2 DEF PassOn
  <2>3. CASE ~(TgCount[t[1]] <= 1)
    <3>1. t[1] \in Group /\ rr[t[1]] + 1 \in Members(t[1])
      <4>1. t[1] \in Group
        BY ThreadShape
      <4>2. TgCount[t[1]] \in Nat /\ TgCount[t[1]] > 1
        BY <2>3, <4>1, PoolAssumption
      <4>3. rr \in [Group -> Nat] /\ \A g \in Group : TgCount[g] > 1 => rr[g] < TgCount[g]
        BY DEF TypeOK
      <4>4. rr[t[1]] \in Nat /\ rr[t[1]] < TgCount[t[1]]
        BY <4>1, <4>2, <4>3
      <4> QED
        BY <4>1, <4>2, <4>4 DEF Members
    <3>2. /\ list' = [list EXCEPT ![<<t[1], rr[t[1]] + 1>>] = Append(@, held[t])]
          /\ held' = [held EXCEPT ![t] = NoNode] /\ UNCHANGED order
      BY <1>9, <2>3 DEF PassOn, Enqueue
    <3>3. t = Master(t[1])
      BY <1>9, ThreadShape DEF PassOn, Roles, Master
    <3> QED
      BY <2>1, <3>1, <3>2, <3>3, HandOnOrdered
  <2> QED
    BY <2>2, <2>3
<1>10. ASSUME \/ OutsideTest \/ ExitRequest \/ Broadcast \/ Poll \/ UninitBegin \/ UninitEnd
              \/ (\E t \in Thread : ListPeek(t)) \/ ListFree \/ UNCHANGED vars
       PROVE  Ordered'
  <2>1. ~ListFree
    BY <1>10 DEF ListFree, Roles
  <2> QED
    BY <1>0, <1>10, <2>1 DEF OutsideTest, ExitRequest, Broadcast, Poll, UninitBegin, UninitEnd,
                             ListPeek, vars
<1> QED
  BY <1>1, <1>2, <1>3, <1>4, <1>6, <1>7, <1>8, <1>9, <1>10
     DEF Next, ThreadStep, MainStep, Ended

(* At the start nothing is in the pool.                                    *)
LEMMA OrderInit == Init => Ordered /\ Roles
<1> SUFFICES ASSUME Init
             PROVE  Ordered /\ Roles
  OBVIOUS
<1>1. /\ Elements(<<>>) = {} /\ NoRepeat(<<>>)
      /\ \A R : InOrder(<<>>, R)
  BY DEF Elements, NoRepeat, InOrder
<1>2. \A t \in Thread : list[t] = <<>> /\ held[t] = NoNode /\ NodesOf(t) = {}
  BY <1>1 DEF Init, NodesOf
<1>3. \A g \in Group : order[g] = <<>>
  BY DEF Init
<1>4. Recorded
  BY <1>1, <1>2, <1>3 DEF Recorded
<1>5. \A t \in Thread : ThreadInOrder(t)
  BY <1>1, <1>2 DEF ThreadInOrder
<1>6. \A g \in Group : \A i \in Members(g) : MemberFirst(g, i)
  BY <1>2, ThreadShape DEF MemberFirst
<1> QED
  BY <1>4, <1>5, <1>6 DEF Init, Ordered, Roles

(* The way to a member is in order.                                        *)
LEMMA WayInOrder ==
    ASSUME TypeOK, Ordered, NEW g \in Group, NEW i \in Members(g)
    PROVE  InOrder(WayTo(g, i), Before(g))
<1> DEFINE U == <<g, i>>
           M == Master(g)
           R == Before(g)
<1>1. U \in Thread /\ M \in Thread /\ U[1] = g /\ M[1] = g
  BY MemberIsThread, ThreadShape
<1>2. /\ InOrder(list[U], R) /\ InOrder(list[M], R)
      /\ held[U] # NoNode => \A n \in Elements(list[U]) : <<held[U], n>> \in R
      /\ held[M] # NoNode => \A n \in Elements(list[M]) : <<held[M], n>> \in R
  BY <1>1 DEF Ordered, ThreadInOrder
<1>3. \A a \in NodesOf(U), b \in NodesOf(M) : <<a, b>> \in R
  BY DEF Ordered, MemberFirst
<1> HIDE DEF U, M, R
<1>4. ASSUME NEW t \in {U, M}
      PROVE  /\ Hand(t) \in Seq(Node) /\ InOrder(Hand(t), R)
             /\ Elements(Hand(t)) = {held[t]} \ {NoNode}
             /\ list[t] \in Seq(Node)
  <2>1. held[t] \in Node \cup {NoNode} /\ list[t] \in Seq(Node)
    BY <1>1, <1>4 DEF TypeOK
  <2>2. CASE held[t] = NoNode
    BY <2>1, <2>2, EmptySeq DEF Hand, InOrder, Elements
  <2>3. CASE held[t] # NoNode
    <3>1. Hand(t) = <<held[t]>> /\ held[t] \in Node
      BY <2>1, <2>3 DEF Hand
    <3>2. <<held[t]>> \in Seq(Node) /\ DOMAIN <<held[t]>> = {1} /\ <<held[t]>>[1] = held[t]
      BY <3>1
    <3> QED
      BY <2>1, <2>3, <3>1, <3>2 DEF InOrder, Elements
  <2> QED
    BY <2>2, <2>3
<1>5. ASSUME NEW t \in {U, M}
      PROVE  /\ Hand(t) \o list[t] \in Seq(Node)
             /\ Elements(Hand(t) \o list[t]) = NodesOf(t)
             /\ InOrder(Hand(t) \o list[t], R)
  <2>1. \A a \in Elements(Hand(t)), b \in Elements(list[t]) : <<a, b>> \in R
    BY <1>2, <1>4, <1>5
  <2>2. InOrder(list[t], R)
    BY <1>2, <1>5
  <2>3. /\ Hand(t) \o list[t] \in Seq(Node)
        /\ Elements(Hand(t) \o list[t]) = Elements(Hand(t)) \cup Elements(list[t])
        /\ InOrder(Hand(t) \o list[t], R)
    BY <1>4, <1>5, <2>1, <2>2, ConcatInOrder
  <2> QED
    BY <1>4, <1>5, <2>3 DEF NodesOf
<1> DEFINE p == Hand(U) \o list[U]
           q == Hand(M) \o list[M]
<1>6. /\ p \in Seq(Node) /\ Elements(p) = NodesOf(U) /\ InOrder(p, R)
      /\ q \in Seq(Node) /\ Elements(q) = NodesOf(M) /\ InOrder(q, R)
  BY <1>5
<1>7. WayTo(g, i) = p \o q
  <2>1. \A a, b, c \in Seq(Node) : (a \o b) \o c = a \o (b \o c)
    BY ConcatAssociative
  <2>2. (p \o Hand(M)) \o list[M] = p \o (Hand(M) \o list[M])
    <3>1. Hand(M) \in Seq(Node) /\ list[M] \in Seq(Node) /\ p \in Seq(Node)
      BY <1>4, <1>6
    <3> HIDE DEF p, q
    <3> QED
      BY ONLY <2>1, <3>1, Zenon
  <2> QED
    BY <2>2 DEF WayTo, U, M
<1> HIDE DEF p, q
<1> QED
  BY <1>3, <1>6, <1>7, ConcatInOrder DEF R

(* Before the exit no member of a pool ever overtakes itself: from the     *)
(* pool's list over the master's hands and the member's list to the        *)
(* member's hands nodes stay in the order in which they were submitted.    *)
THEOREM OrderCorrect == Spec => []SubmissionOrder
<1>1. Init => (~exit => Ordered) /\ Roles
  BY OrderInit
<1>2. Shape /\ NodeInOnePlace /\ Roles /\ (~exit => Ordered) /\ [Next]_vars => (~exit => Ordered)'
  BY OrderStep
<1>3. Shape /\ Roles /\ [Next]_vars => Roles'
  BY RolesStep
<1>4. Shape /\ (~exit => Ordered) => SubmissionOrder
  <2> SUFFICES ASSUME TypeOK, ~exit => Ordered, ~exit, NEW g \in Group, NEW i \in Members(g)
               PROVE  LET way == WayTo(g, i)
                          At(n) == CHOOSE k \in DOMAIN order[g] : order[g][k] = n
                      IN  \A j, k \in DOMAIN way : j < k => At(way[j]) < At(way[k])
    BY DEF Shape, SubmissionOrder
  <2> DEFINE way == WayTo(g, i)
             At(n) == CHOOSE k \in DOMAIN order[g] : order[g][k] = n
  <2>1. InOrder(way, Before(g))
    BY WayInOrder
  <2>2. order[g] \in Seq(Node) /\ NoRepeat(order[g])
    BY DEF TypeOK, Ordered, Recorded
  <2>3. ASSUME NEW j \in DOMAIN way, NEW k \in DOMAIN way, j < k
        PROVE  At(way[j]) < At(way[k])
    <3> HIDE DEF way
    <3>1. <<way[j], way[k]>> \in Precedes(order[g])
      BY <2>1, <2>3 DEF InOrder, Before
    <3> QED
      BY <2>2, <3>1, PrecedesPlaces
  <2> QED
    BY <2>3
<1> QED
  BY <1>1, <1>2, <1>3, <1>4, ShapeCorrect, OnePlace, PTL DEF Spec

-----------------------------------------------------------------------------
(* There are finitely many threads.                                        *)
LEMMA ThreadFinite == IsFiniteSet(Thread)
<1> DEFINE F == [g \in Group |-> {g} \X ({0} \cup Members(g))]
           P == {F[g] : g \in Group}
<1>1. IsFiniteSet(Group)
  BY FS_Interval, PoolAssumption DEF Group
<1>2. ASSUME NEW g \in Group
      PROVE  IsFiniteSet(F[g])
  <2>1. IsFiniteSet(Members(g))
    <3>1. TgCount[g] \in Nat
      BY PoolAssumption
    <3>2. IsFiniteSet(1 .. TgCount[g]) /\ IsFiniteSet({})
      BY <3>1, FS_Interval, FS_EmptySet
    <3> QED
      BY <3>2 DEF Members
  <2>2. IsFiniteSet({0}) /\ IsFiniteSet({g})
    BY FS_Singleton
  <2>3. IsFiniteSet({0} \cup Members(g))
    BY <2>1, <2>2, FS_Union
  <2>4. IsFiniteSet({g} \X ({0} \cup Members(g)))
    BY <2>2, <2>3, FS_Product
  <2> QED
    BY <2>4
<1>3. IsFiniteSet(P)
  <2>1. F \in Surjection(Group, P)
    <3>1. F \in [Group -> P]
      OBVIOUS
    <3>2. \A y \in P : \E x \in Group : F[x] = y
      OBVIOUS
    <3> HIDE DEF F, P
    <3> QED
      BY <3>1, <3>2 DEF Surjection
  <2> HIDE DEF F, P
  <2> QED
    BY <1>1, <2>1, FS_Surjection
<1>4. IsFiniteSet(UNION P)
  <2>1. \A T \in P : IsFiniteSet(T)
    BY <1>2
  <2> HIDE DEF F, P
  <2> QED
    BY <1>3, <2>1, FS_UNION
<1>5. UNION P = Thread
  BY DEF Thread
<1> QED
  BY <1>4, <1>5

(* How far a creator has come is how many threads it has started.          *)
CreatorInStep ==
    \A g \in Group :
        /\ creator[g] \in {"members", "mspawned"} => Members(g) # {}
        /\ creator[g] = "members" => nmemb[g] < TgCount[g]
        /\ creator[g] = "mspawned" => nmemb[g] \in Members(g)

(* The threads the counter should count.                                   *)
CountedLive == {t \in Counted : pc[t] # "gone"}

(* A thread that nobody has counted yet cannot have left unnoticed.        *)
NoneSlips == ~stray => \A t \in Uncounted : pc[t] # "gone"

Counting == CreatorInStep /\ NoneSlips /\ CountIsLive

(* What is counted is a finite set of pool threads.                        *)
LEMMA CountedFinite ==
    /\ CountedLive \subseteq Thread
    /\ IsFiniteSet(CountedLive)
    /\ Cardinality(CountedLive) \in Nat
<1>1. CountedLive \subseteq Thread
  BY DEF CountedLive, Counted, Spawned
<1>2. IsFiniteSet(CountedLive)
  BY <1>1, ThreadFinite, FS_Subset
<1> QED
  BY <1>1, <1>2, FS_CardinalityType

(* The steps of the creators: claiming, starting and counting.             *)
LEMMA CreatorKeepsStep == Shape /\ CreatorInStep /\ [Next]_vars => CreatorInStep'
<1> SUFFICES ASSUME TypeOK, CreationInOrder, CreatorInStep, [Next]_vars
             PROVE  CreatorInStep'
  BY DEF Shape
<1> USE PoolAssumption
<1>1. ASSUME NEW g \in Group, Claim(g)
      PROVE  CreatorInStep'
  BY <1>1 DEF Claim, CreatorInStep, TypeOK
<1>2. ASSUME NEW g \in Group, SpawnMaster(g)
      PROVE  CreatorInStep'
  BY <1>2 DEF SpawnMaster, CreatorInStep, TypeOK
<1>3. ASSUME NEW g \in Group, CountMaster(g)
      PROVE  CreatorInStep'
  <2>1. nmemb[g] = 0
    BY <1>3 DEF CountMaster, CreationInOrder
  <2>2. Members(g) # {} => 0 < TgCount[g]
    BY DEF Members
  <2> QED
    BY <1>3, <2>1, <2>2 DEF CountMaster, CreatorInStep, TypeOK
<1>4. ASSUME NEW g \in Group, SpawnMember(g)
      PROVE  CreatorInStep'
  <2>1. nmemb[g] \in Nat /\ nmemb[g] < TgCount[g] /\ Members(g) # {}
    BY <1>4 DEF SpawnMember, CreatorInStep, TypeOK
  <2>2. nmemb[g] + 1 \in Members(g)
    BY <2>1 DEF Members
  <2> QED
    BY <1>4, <2>1, <2>2 DEF SpawnMember, CreatorInStep, TypeOK
<1>5. ASSUME NEW g \in Group, CountMember(g)
      PROVE  CreatorInStep'
  <2>1. nmemb[g] \in Members(g) /\ TgCount[g] \in Nat
    BY <1>5 DEF CountMember, CreatorInStep
  <2>2. nmemb[g] # TgCount[g] => nmemb[g] < TgCount[g]
    BY <2>1 DEF Members
  <2> QED
    BY <1>5, <2>1, <2>2 DEF CountMember, CreatorInStep, TypeOK
<1>6. CASE UNCHANGED createVars
  BY <1>6 DEF createVars, CreatorInStep
<1>7. ASSUME NEW g \in Group, NEW n \in Node, Submit(g, n)
      PROVE  UNCHANGED createVars
  BY <1>7 DEF Submit
<1>8. ASSUME NEW t \in Thread, ThreadStep(t) \/ SpuriousWake(t)
      PROVE  UNCHANGED createVars
  BY <1>8 DEF ThreadStep, SpuriousWake, TestExitTop, LeaveWithNode, EnterCallback, Take,
              Resume, Timeout, Finish, GroupFuncOk, PassOn
<1>9. OutsideTest \/ ExitRequest \/ MainStep \/ UNCHANGED vars => UNCHANGED createVars
  BY DEF OutsideTest, ExitRequest, MainStep, Broadcast, Poll, UninitBegin, ListPeek, ListFree,
         UninitEnd, vars
<1> QED
  BY <1>1, <1>2, <1>3, <1>4, <1>5, <1>6, <1>7, <1>8, <1>9 DEF Next, CreateStep, Ended

(* A step that neither starts nor ends a thread keeps the count.           *)
LEMMA SameCount ==
    ASSUME Counting, CreatorInStep', UNCHANGED <<num, creator, nmemb>>, stray => stray',
           \A t \in Thread : /\ pc'[t] = "unborn" <=> pc[t] = "unborn"
                             /\ pc'[t] = "gone" <=> pc[t] = "gone"
    PROVE  Counting'
<1>1. Uncounted' = Uncounted /\ Counted' = Counted
  BY DEF Uncounted, Counted, Spawned
<1>2. \A t \in Uncounted : t \in Thread
  BY ThreadShape, MemberIsThread DEF Uncounted, Counting, CreatorInStep
<1>3. {t \in Counted : pc[t] # "gone"}' = {t \in Counted : pc[t] # "gone"}
  BY <1>1 DEF Counted, Spawned
<1> QED
  BY <1>1, <1>2, <1>3 DEF Counting, NoneSlips, CountIsLive

(* A thread that leaves takes itself off the count, if it was counted.     *)
LEMMA LeaveCount ==
    ASSUME TypeOK, Counting, CreatorInStep', NEW t \in Thread, exit,
           pc[t] \notin {"unborn", "gone"},
           pc' = [pc EXCEPT ![t] = "gone"], num' = TestExitCount,
           stray' = (stray \/ t \in Uncounted), UNCHANGED <<creator, nmemb>>
    PROVE  Counting'
<1> SUFFICES ASSUME ~stray'
             PROVE  NoneSlips' /\ CountIsLive'
  BY DEF Counting, NoneSlips, CountIsLive
<1>1. ~stray /\ t \notin Uncounted
  OBVIOUS
<1>2. Uncounted' = Uncounted
  BY DEF Uncounted
<1>3. \A u \in Uncounted : u \in Thread
  BY ThreadShape, MemberIsThread DEF Uncounted, Counting, CreatorInStep
<1>4. \A u \in Thread : pc'[u] = IF u = t THEN "gone" ELSE pc[u]
  BY DEF TypeOK
<1>5. NoneSlips'
  BY <1>1, <1>2, <1>3, <1>4 DEF Counting, NoneSlips
<1>6. t \in CountedLive
  BY <1>1 DEF CountedLive, Counted, Spawned
<1>7. CountedLive' = CountedLive \ {t}
  <2>1. Spawned' = Spawned
    BY <1>4 DEF Spawned
  <2>2. Counted' = Counted
    BY <1>2, <2>1 DEF Counted
  <2> QED
    BY <1>4, <2>2 DEF CountedLive, Counted, Spawned
<1>8. Cardinality(CountedLive') = Cardinality(CountedLive) - 1 /\ Cardinality(CountedLive) # 0
  BY <1>6, <1>7, CountedFinite, FS_RemoveElement, FS_EmptySet
<1>9. num = Cardinality(CountedLive)
  BY <1>1 DEF Counting, CountIsLive, CountedLive
<1>10. num' = Cardinality(CountedLive')
  BY <1>8, <1>9, CountedFinite DEF TestExitCount
<1> QED
  BY <1>5, <1>10 DEF CountIsLive, CountedLive

(* A thread that is started is not counted before its creator says so.     *)
LEMMA SpawnCount ==
    ASSUME TypeOK, Counting, CreatorInStep', NEW m \in Thread, pc[m] = "unborn",
           pc' = [pc EXCEPT ![m] = "top"], Uncounted' = Uncounted \cup {m},
           UNCHANGED <<num, stray>>
    PROVE  Counting'
<1>1. \A u \in Thread : pc'[u] = IF u = m THEN "top" ELSE pc[u]
  BY DEF TypeOK
<1>2. \A u \in Uncounted : u \in Thread
  BY ThreadShape, MemberIsThread DEF Uncounted, Counting, CreatorInStep
<1>3. Spawned' = Spawned \cup {m} /\ m \notin Spawned
  BY <1>1 DEF Spawned
<1>4. Counted' = Counted
  BY <1>3 DEF Counted
<1>5. {t \in Counted : pc[t] # "gone"}' = {t \in Counted : pc[t] # "gone"}
  BY <1>1, <1>3, <1>4 DEF Counted, Spawned
<1> QED
  BY <1>1, <1>2, <1>5 DEF Counting, NoneSlips, CountIsLive

(* tc_thread_start takes the thread that was started into the count.       *)
LEMMA StartCount ==
    ASSUME TypeOK, Counting, CreatorInStep', NEW m \in Uncounted, pc[m] # "unborn", m \in Thread,
           Uncounted' = Uncounted \ {m}, num' = num + 1, UNCHANGED <<pc, stray>>
    PROVE  Counting'
<1> SUFFICES ASSUME ~stray
             PROVE  NoneSlips' /\ CountIsLive'
  BY DEF Counting, NoneSlips, CountIsLive
<1>1. NoneSlips' /\ pc[m] # "gone"
  BY DEF Counting, NoneSlips
<1>2. Counted' = Counted \cup {m} /\ m \notin Counted
  BY DEF Counted, Spawned
<1>3. CountedLive' = CountedLive \cup {m} /\ m \notin CountedLive
  BY <1>1, <1>2 DEF CountedLive
<1>4. Cardinality(CountedLive') = Cardinality(CountedLive) + 1
  BY <1>3, CountedFinite, FS_AddElement
<1> QED
  BY <1>1, <1>4 DEF Counting, CountIsLive, CountedLive

(* Every step keeps the count honest, or leaves a mark in stray.           *)
LEMMA CountingStep == Shape /\ Counting /\ [Next]_vars => Counting'
<1> SUFFICES ASSUME TypeOK, CreationInOrder, Counting, [Next]_vars
             PROVE  Counting'
  BY DEF Shape
<1>c. CreatorInStep'
  BY CreatorKeepsStep DEF Shape, Counting
<1>1. ASSUME NEW g \in Group, Claim(g)
      PROVE  Counting'
  <2>1. creator[g] = "none" /\ creator' = [creator EXCEPT ![g] = "claimed"]
    BY <1>1 DEF Claim, CreationInOrder, Group
  <2>2. Uncounted' = Uncounted
    BY <1>1, <2>1 DEF Claim, Uncounted, TypeOK
  <2> QED
    BY <1>1, <1>c, <2>2 DEF Claim, Counting, NoneSlips, CountIsLive, Counted, Spawned
<1>2. ASSUME NEW g \in Group, SpawnMaster(g)
      PROVE  Counting'
  <2>1. pc[Master(g)] = "unborn" /\ Master(g) \in Thread
    BY <1>2, ThreadShape DEF SpawnMaster, CreationInOrder
  <2>2. Uncounted' = Uncounted \cup {Master(g)}
    BY <1>2 DEF SpawnMaster, Uncounted, TypeOK
  <2> QED
    BY <1>2, <1>c, <2>1, <2>2, SpawnCount DEF SpawnMaster
<1>3. ASSUME NEW g \in Group, CountMaster(g)
      PROVE  Counting'
  <2>1. pc[Master(g)] # "unborn" /\ Master(g) \in Thread /\ Master(g) \in Uncounted
    BY <1>3, ThreadShape DEF CountMaster, CreationInOrder, Uncounted
  <2>2. Uncounted' = Uncounted \ {Master(g)}
    <3>1. \A h \in Group : creator'[h] =
            IF h = g THEN IF Members(g) = {} THEN "ready" ELSE "members" ELSE creator[h]
      BY <1>3 DEF CountMaster, TypeOK
    <3>2. nmemb' = nmemb /\ creator[g] = "spawned"
      BY <1>3 DEF CountMaster
    <3>3. \A h \in Group : creator[h] = "mspawned" => <<h, nmemb[h]>> # Master(g)
      <4>1. \A h \in Group : \A i \in Members(h) : i # 0
        BY DEF Members
      <4> QED
        BY <4>1 DEF Counting, CreatorInStep, Master
    <3>4. \A h \in Group : Master(h) = Master(g) => h = g
      BY DEF Master
    <3> QED
      BY <3>1, <3>2, <3>3, <3>4 DEF Uncounted
  <2> QED
    BY <1>3, <1>c, <2>1, <2>2, StartCount DEF CountMaster
<1>4. ASSUME NEW g \in Group, SpawnMember(g)
      PROVE  Counting'
  <2> DEFINE m == <<g, nmemb[g] + 1>>
  <2>1. nmemb[g] + 1 \in Members(g)
    <3>1. nmemb[g] \in Nat /\ nmemb[g] < TgCount[g] /\ Members(g) # {} /\ TgCount[g] \in Nat
      BY <1>4, PoolAssumption DEF SpawnMember, Counting, CreatorInStep, TypeOK
    <3> QED
      BY <3>1 DEF Members
  <2>2. m \in Thread /\ pc[m] = "unborn"
    BY <2>1, MemberIsThread DEF CreationInOrder, TypeOK
  <2>3. \A h \in Group : /\ creator'[h] = IF h = g THEN "mspawned" ELSE creator[h]
                         /\ nmemb'[h] = IF h = g THEN nmemb[g] + 1 ELSE nmemb[h]
    BY <1>4 DEF SpawnMember, TypeOK
  <2>4. creator[g] = "members"
    BY <1>4 DEF SpawnMember
  <2>5. Uncounted' = Uncounted \cup {m}
    BY <2>3, <2>4 DEF Uncounted
  <2>6. pc' = [pc EXCEPT ![m] = "top"] /\ UNCHANGED <<num, stray>>
    BY <1>4 DEF SpawnMember
  <2> HIDE DEF m
  <2> QED
    BY <1>c, <2>2, <2>5, <2>6, SpawnCount
<1>5. ASSUME NEW g \in Group, CountMember(g)
      PROVE  Counting'
  <2> DEFINE m == <<g, nmemb[g]>>
  <2>1. nmemb[g] \in Members(g)
    BY <1>5 DEF CountMember, Counting, CreatorInStep
  <2>2. m \in Thread /\ pc[m] # "unborn" /\ m \in Uncounted
    <3>1. m \in Thread /\ m \in Uncounted
      BY <1>5, <2>1, MemberIsThread DEF CountMember, Uncounted
    <3>2. pc[m] # "unborn"
      BY <2>1 DEF CreationInOrder, TypeOK
    <3> QED
      BY <3>1, <3>2
  <2>3. \A h \in Group :
           creator'[h] = IF h = g THEN IF nmemb[g] = TgCount[g] THEN "ready" ELSE "members"
                         ELSE creator[h]
    BY <1>5 DEF CountMember, TypeOK
  <2>4. creator[g] = "mspawned" /\ nmemb' = nmemb
    BY <1>5 DEF CountMember
  <2>5. Uncounted' = Uncounted \ {m}
    <3>1. nmemb[g] # 0
      <4>1. \A i \in Members(g) : i # 0
        BY DEF Members
      <4> QED
        BY <2>1, <4>1
    <3>2. \A h \in Group : Master(h) # m
      <4>1. \A h \in Group : Master(h)[2] = 0
        BY DEF Master
      <4>2. m[2] = nmemb[g]
        OBVIOUS
      <4> QED
        BY <3>1, <4>1, <4>2
    <3> QED
      BY <2>3, <2>4, <3>2 DEF Uncounted
  <2>6. num' = num + 1 /\ UNCHANGED <<pc, stray>>
    BY <1>5 DEF CountMember
  <2> HIDE DEF m
  <2> QED
    BY <1>c, <2>2, <2>5, <2>6, StartCount
<1>6. ASSUME NEW t \in Thread, TestExitTop(t)
      PROVE  Counting'
  <2>1. CASE exit
    BY <1>6, <1>c, <2>1, LeaveCount DEF TestExitTop, createVars
  <2>2. CASE ~exit
    <3>1. pc' = [pc EXCEPT ![t] = "take"] /\ UNCHANGED <<num, creator, nmemb, stray>>
      BY <1>6, <2>2 DEF TestExitTop, createVars, TestExitCount, TypeOK
    <3>2. pc[t] = "top"
      BY <1>6 DEF TestExitTop
    <3>3. \A u \in Thread : /\ pc'[u] = "unborn" <=> pc[u] = "unborn"
                            /\ pc'[u] = "gone" <=> pc[u] = "gone"
      BY <3>1, <3>2 DEF TypeOK
    <3> QED
      BY <1>c, <3>1, <3>3, SameCount
  <2> QED
    BY <2>1, <2>2
<1>7. ASSUME NEW t \in Thread, LeaveWithNode(t)
      PROVE  Counting'
  BY <1>7, <1>c, LeaveCount DEF LeaveWithNode, createVars
<1>8. ASSUME OutsideTest
      PROVE  Counting'
  BY <1>8, <1>c DEF OutsideTest, Counting, NoneSlips, CountIsLive
<1>9. ASSUME NEW t \in Thread,
             \/ EnterCallback(t) \/ Take(t) \/ Resume(t) \/ Timeout(t) \/ Finish(t)
             \/ GroupFuncOk(t) \/ SpuriousWake(t)
      PROVE  Counting'
  <2>1. \A u \in Thread : /\ pc'[u] = "unborn" <=> pc[u] = "unborn"
                          /\ pc'[u] = "gone" <=> pc[u] = "gone"
    BY <1>9 DEF EnterCallback, Take, Resume, Timeout, PopOr, Pop, Finish, LetGo, GroupFuncOk,
                SpuriousWake, TypeOK
  <2>2. UNCHANGED <<num, creator, nmemb, stray>>
    BY <1>9 DEF EnterCallback, Take, Resume, Timeout, Finish, GroupFuncOk, SpuriousWake,
                createVars
  <2> QED
    BY <1>c, <2>1, <2>2, SameCount
<1>10. ASSUME NEW t \in Thread, PassOn(t)
       PROVE  Counting'
  <2>1. \A u \in Thread : /\ pc'[u] = "unborn" <=> pc[u] = "unborn"
                          /\ pc'[u] = "gone" <=> pc[u] = "gone"
    <3>1. CASE TgCount[t[1]] <= 1
      BY <1>10, <3>1 DEF PassOn, LetGo, TypeOK
    <3>2. CASE ~(TgCount[t[1]] <= 1)
      <4> DEFINE m == <<t[1], rr[t[1]] + 1>>
      <4>1. pc' = [u \in Thread |-> IF u = t THEN "top"
                                    ELSE IF u = m THEN WokenBy(pc[u]) ELSE pc[u]]
        BY <1>10, <3>2 DEF PassOn
      <4>2. pc[t] \notin {"unborn", "gone"}
        BY <1>10 DEF PassOn
      <4> HIDE DEF m
      <4> QED
        BY <4>1, <4>2 DEF WokenBy
    <3> QED
      BY <3>1, <3>2
  <2>2. UNCHANGED <<num, creator, nmemb, stray>>
    BY <1>10 DEF PassOn, createVars
  <2> QED
    BY <1>c, <2>1, <2>2, SameCount
<1>11. ASSUME NEW g \in Group, NEW n \in Node, Submit(g, n)
       PROVE  Counting'
  <2>1. \A u \in Thread : /\ pc'[u] = "unborn" <=> pc[u] = "unborn"
                          /\ pc'[u] = "gone" <=> pc[u] = "gone"
    BY <1>11 DEF Submit, WokenBy, TypeOK
  <2> QED
    BY <1>11, <1>c, <2>1, SameCount DEF Submit, createVars
<1>12. ASSUME Broadcast
       PROVE  Counting'
  <2>1. \A u \in Thread : /\ pc'[u] = "unborn" <=> pc[u] = "unborn"
                          /\ pc'[u] = "gone" <=> pc[u] = "gone"
    BY <1>12 DEF Broadcast, WokenBy, TypeOK
  <2> QED
    BY <1>12, <1>c, <2>1, SameCount DEF Broadcast, createVars
<1>13. ASSUME \/ ExitRequest \/ Poll \/ UninitBegin \/ (\E t \in Thread : ListPeek(t))
              \/ ListFree \/ UninitEnd \/ UNCHANGED vars
       PROVE  Counting'
  <2>1. UNCHANGED <<num, creator, nmemb, pc, stray>>
    BY <1>13 DEF ExitRequest, Poll, UninitBegin, ListPeek, ListFree, UninitEnd, vars, createVars
  <2> QED
    BY <1>c, <2>1, SameCount
<1> QED
  BY <1>1, <1>2, <1>3, <1>4, <1>5, <1>6, <1>7, <1>8, <1>9, <1>10, <1>11, <1>12, <1>13
     DEF Next, CreateStep, ThreadStep, MainStep, Ended

(* At the start no thread is counted, and none is there to be.             *)
LEMMA CountingInit == Init => Counting
<1> SUFFICES ASSUME Init
             PROVE  Counting
  OBVIOUS
<1>1. CreatorInStep
  BY DEF Init, CreatorInStep
<1>2. Uncounted = {} /\ CountedLive = {}
  BY DEF Init, Uncounted, CountedLive, Counted, Spawned
<1>3. Cardinality(CountedLive) = 0
  BY <1>2, FS_EmptySet
<1> QED
  BY <1>1, <1>2, <1>3 DEF Init, Counting, NoneSlips, CountIsLive, CountedLive

(* As long as only counted threads test the exit, each once, the counter   *)
(* of tc_thread.c is the number of counted threads that live, whatever     *)
(* interleaving of creation and shutdown led there.                        *)
THEOREM CountCorrect == Spec => []CountIsLive
<1>1. Init => Counting
  BY CountingInit
<1>2. Shape /\ Counting /\ [Next]_vars => Counting'
  BY CountingStep
<1>3. Counting => CountIsLive
  BY DEF Counting
<1> QED
  BY <1>1, <1>2, <1>3, ShapeCorrect, PTL DEF Spec

-----------------------------------------------------------------------------
(* What becomes of the nodes at the exit.                                  *)

Ending == {"uninit", "freeing", "done"}
Gone   == {t \in Thread : pc[t] = "gone"}

(* When tc_thread_uninit overran nobody, nobody is left and nobody comes.  *)
Deserted ==
    /\ stage \notin Ending => disposed = {} /\ ~overrun
    /\ stage \in Ending /\ ~overrun =>
           Live = {} /\ \A g \in Group : creator[g] \in {"none", "ready"}

Accounts ==
    /\ stage = "run" <=> ~exit
    /\ leaked # {} => exit
    /\ Cardinality(leaked) <= Cardinality(Gone)
    /\ ~overrun => \A t \in Thread : Elements(list[t]) \cap disposed = {}

Accounted == Deserted /\ Accounts

(* What was dropped and who has gone can be counted.                       *)
LEMMA AccountsFinite ==
    ASSUME TypeOK
    PROVE  /\ IsFiniteSet(leaked) /\ Cardinality(leaked) \in Nat
           /\ IsFiniteSet(Gone) /\ Cardinality(Gone) \in Nat
<1>1. leaked \in SUBSET Node /\ Gone \in SUBSET Thread
  BY DEF TypeOK, Gone
<1>2. IsFiniteSet(leaked) /\ IsFiniteSet(Gone)
  BY <1>1, PoolAssumption, ThreadFinite, FS_Subset
<1> QED
  BY <1>2, FS_CardinalityType

(* The steps of pool threads, creators and callers, which end before       *)
(* tc_thread_uninit begins if it overruns nobody.                          *)
LEMMA AliveAccounts ==
    ASSUME TypeOK, Accounted, UNCHANGED <<exit, stage, disposed, overrun>>,
           stage \in Ending => overrun,
           \/ UNCHANGED leaked /\ \A t \in Thread : pc[t] = "gone" => pc'[t] = "gone"
           \/ \E t \in Thread : /\ exit /\ pc[t] # "gone" /\ pc' = [pc EXCEPT ![t] = "gone"]
                                /\ leaked' = leaked \cup {held[t]},
           TypeOK'
    PROVE  Accounted'
<1>1. Deserted'
  BY DEF Accounted, Deserted
<1>2. ~overrun => disposed = {}
  BY DEF Accounted, Deserted
<1>3. CASE UNCHANGED leaked /\ \A t \in Thread : pc[t] = "gone" => pc'[t] = "gone"
  <2>1. Gone \in SUBSET Gone' /\ IsFiniteSet(Gone') /\ Cardinality(Gone') \in Nat
    <3>1. Gone \in SUBSET Gone'
      BY <1>3 DEF Gone
    <3>2. Gone' \in SUBSET Thread
      BY DEF Gone
    <3> QED
      BY <3>1, <3>2, ThreadFinite, FS_Subset, FS_CardinalityType
  <2>2. Cardinality(Gone) <= Cardinality(Gone')
    BY <2>1, FS_Subset
  <2>3. Cardinality(leaked') <= Cardinality(Gone')
    BY <1>3, <2>1, <2>2, AccountsFinite DEF Accounted, Accounts
  <2> QED
    BY <1>1, <1>2, <1>3, <2>3 DEF Accounted, Accounts
<1>4. CASE \E t \in Thread : /\ exit /\ pc[t] # "gone" /\ pc' = [pc EXCEPT ![t] = "gone"]
                             /\ leaked' = leaked \cup {held[t]}
  <2>1. PICK t \in Thread : /\ exit /\ pc[t] # "gone" /\ pc' = [pc EXCEPT ![t] = "gone"]
                            /\ leaked' = leaked \cup {held[t]}
    BY <1>4
  <2>2. Gone' = Gone \cup {t} /\ t \notin Gone
    BY <2>1 DEF Gone, TypeOK
  <2>3. Cardinality(Gone') = Cardinality(Gone) + 1
    BY <2>2, AccountsFinite, FS_AddElement
  <2>4. \/ Cardinality(leaked') = Cardinality(leaked) + 1
        \/ Cardinality(leaked') = Cardinality(leaked)
    BY <2>1, AccountsFinite, FS_AddElement
  <2>5. Cardinality(leaked') <= Cardinality(Gone')
    BY <2>3, <2>4, AccountsFinite DEF Accounted, Accounts
  <2> QED
    BY <1>1, <1>2, <2>1, <2>5 DEF Accounted, Accounts
<1> QED
  BY <1>3, <1>4

(* A creator's step leaves every thread where it is, but for a new one.    *)
LEMMA CreatorStarts ==
    ASSUME TypeOK, CreationInOrder, NEW g \in Group, Claim(g) \/ CreateStep(g)
    PROVE  \A t \in Thread : pc'[t] = pc[t] \/ (pc[t] = "unborn" /\ pc'[t] = "top")
<1>1. CASE SpawnMaster(g)
  <2>1. pc[Master(g)] = "unborn" /\ pc' = [pc EXCEPT ![Master(g)] = "top"]
    BY <1>1 DEF SpawnMaster, CreationInOrder
  <2> QED
    BY <2>1 DEF TypeOK
<1>2. CASE SpawnMember(g)
  <2> DEFINE m == <<g, nmemb[g] + 1>>
  <2>1. m \in Thread => pc[m] = "unborn"
    BY <1>2, ThreadShape DEF SpawnMember, CreationInOrder, Thread, Members, TypeOK
  <2>2. pc' = [pc EXCEPT ![m] = "top"]
    BY <1>2 DEF SpawnMember
  <2> HIDE DEF m
  <2> QED
    BY <2>1, <2>2 DEF TypeOK
<1>3. CASE Claim(g) \/ CountMaster(g) \/ CountMember(g)
  BY <1>3 DEF Claim, CountMaster, CountMember
<1> QED
  BY <1>1, <1>2, <1>3 DEF CreateStep

(* Every step leaves the nodes accounted for.                              *)
LEMMA AccountStep == Shape /\ NodeInOnePlace /\ Accounted /\ [Next]_vars => Accounted'
<1> SUFFICES ASSUME Shape, TypeOK, CreationInOrder, NodeInOnePlace, Accounted, [Next]_vars
             PROVE  Accounted'
  BY DEF Shape
<1> USE DEF nodeVars, mainVars, createVars
<1>t. TypeOK'
  BY TypeStep
<1>1. ASSUME NEW g \in Group, Claim(g) \/ CreateStep(g)
      PROVE  Accounted'
  <2>1. stage \in Ending => overrun
    BY <1>1 DEF Claim, CreateStep, SpawnMaster, CountMaster, SpawnMember, CountMember,
                GroupMutexFree, Running, Ending, Accounted, Deserted
  <2>2. UNCHANGED <<exit, stage, disposed, overrun, leaked>>
    BY <1>1 DEF Claim, CreateStep, SpawnMaster, CountMaster, SpawnMember, CountMember
  <2>3. \A t \in Thread : pc[t] = "gone" => pc'[t] = "gone"
    BY <1>1, CreatorStarts
  <2> QED
    BY <1>t, <2>1, <2>2, <2>3, AliveAccounts
<1>2. ASSUME NEW g \in Group, NEW n \in Node, Submit(g, n)
      PROVE  Accounted'
  <2>1. stage \in Ending => overrun
    <3>1. stage \in Ending => \E t \in Thread : pc[t] = "running"
      BY <1>2 DEF Submit, GroupMutexFree, Running, Ending
    <3> QED
      BY <3>1 DEF Accounted, Deserted, Live
  <2>2. UNCHANGED <<exit, stage, disposed, overrun, leaked>>
    BY <1>2 DEF Submit
  <2>3. \A t \in Thread : pc[t] = "gone" => pc'[t] = "gone"
    BY <1>2 DEF Submit, WokenBy, TypeOK
  <2> QED
    BY <1>t, <2>1, <2>2, <2>3, AliveAccounts
<1>3. ASSUME NEW t \in Thread, ThreadStep(t) \/ SpuriousWake(t)
      PROVE  Accounted'
  <2>1. stage \in Ending => overrun
    <3>1. t \in Live
      BY <1>3 DEF Live, ThreadStep, SpuriousWake, TestExitTop, LeaveWithNode, EnterCallback,
                  Take, Resume, Timeout, Finish, GroupFuncOk, PassOn
    <3> QED
      BY <3>1 DEF Accounted, Deserted
  <2>2. UNCHANGED <<exit, stage, disposed, overrun>>
    BY <1>3 DEF ThreadStep, SpuriousWake, TestExitTop, LeaveWithNode, EnterCallback,
                Take, Resume, Timeout, Finish, GroupFuncOk, PassOn
  <2>3. CASE LeaveWithNode(t)
    <3>1. /\ exit /\ pc[t] # "gone" /\ pc' = [pc EXCEPT ![t] = "gone"]
          /\ leaked' = leaked \cup {held[t]}
      BY <2>3 DEF LeaveWithNode
    <3> QED
      BY <1>t, <2>1, <2>2, <3>1, AliveAccounts
  <2>4. CASE PassOn(t)
    <3>1. leaked' = leaked
      BY <2>4 DEF PassOn
    <3>2. \A u \in Thread : pc[u] = "gone" => pc'[u] = "gone"
      <4>1. CASE TgCount[t[1]] <= 1
        BY <2>4, <4>1 DEF PassOn, LetGo, TypeOK
      <4>2. CASE ~(TgCount[t[1]] <= 1)
        <5> DEFINE m == <<t[1], rr[t[1]] + 1>>
        <5>1. pc' = [u \in Thread |-> IF u = t THEN "top"
                                      ELSE IF u = m THEN WokenBy(pc[u]) ELSE pc[u]]
          BY <2>4, <4>2 DEF PassOn
        <5>2. pc[t] # "gone"
          BY <2>4 DEF PassOn
        <5> HIDE DEF m
        <5> QED
          BY <5>1, <5>2 DEF WokenBy
      <4> QED
        BY <4>1, <4>2
    <3> QED
      BY <1>t, <2>1, <2>2, <3>1, <3>2, AliveAccounts
  <2>5. CASE ~LeaveWithNode(t) /\ ~PassOn(t)
    <3>1. leaked' = leaked
      BY <1>3, <2>5 DEF ThreadStep, SpuriousWake, TestExitTop, EnterCallback,
                        Take, Resume, Timeout, PopOr, Pop, Finish, LetGo, GroupFuncOk
    <3>2. \A u \in Thread : pc[u] = "gone" => pc'[u] = "gone"
      BY <1>3, <2>5 DEF ThreadStep, SpuriousWake, TestExitTop, EnterCallback,
                        Take, Resume, Timeout, PopOr, Pop, Finish, LetGo, GroupFuncOk, TypeOK
    <3> QED
      BY <1>t, <2>1, <2>2, <3>1, <3>2, AliveAccounts
  <2> QED
    BY <2>3, <2>4, <2>5
<1>4. ASSUME OutsideTest
      PROVE  Accounted'
  <2>1. stage \notin Ending
    BY <1>4 DEF OutsideTest, GroupMutexFree, Running, Ending
  <2> QED
    BY <1>4, <1>t, <2>1, AliveAccounts DEF OutsideTest
<1>5. ASSUME ExitRequest \/ Broadcast \/ Poll
      PROVE  Accounted'
  <2>1. /\ stage \notin Ending /\ stage' \notin Ending
        /\ exit' /\ stage' # "run"
        /\ UNCHANGED <<disposed, overrun, leaked, list>>
    BY <1>5 DEF ExitRequest, Broadcast, Poll, Ending, Accounted, Accounts
  <2>2. \A t \in Thread : pc[t] = "gone" <=> pc'[t] = "gone"
    BY <1>5 DEF ExitRequest, Broadcast, Poll, WokenBy, TypeOK
  <2>3. Gone' = Gone
    BY <2>2 DEF Gone
  <2> QED
    BY <2>1, <2>3 DEF Accounted, Deserted, Accounts
<1>6. ASSUME UninitBegin
      PROVE  Accounted'
  <2>1. /\ stage \notin Ending /\ stage' \in Ending /\ stage # "run" /\ stage' # "run"
        /\ UNCHANGED <<exit, disposed, leaked, list, creator>>
        /\ Gone' = Gone /\ Live' = Live
        /\ overrun' = (Live # {} \/ \E g \in Group : creator[g] \notin {"none", "ready"})
    BY <1>6 DEF UninitBegin, Ending, Gone, Live
  <2> QED
    BY <2>1 DEF Accounted, Deserted, Accounts
<1>7. ASSUME UninitEnd \/ (\E t \in Thread : ListPeek(t)) \/ UNCHANGED vars
      PROVE  Accounted'
  <2>1. /\ stage \in Ending <=> stage' \in Ending
        /\ stage = "run" <=> stage' = "run"
        /\ UNCHANGED <<exit, disposed, leaked, list, creator, overrun>>
        /\ Gone' = Gone /\ Live' = Live
    BY <1>7 DEF UninitEnd, ListPeek, Ending, Gone, Live, vars
  <2> QED
    BY <2>1 DEF Accounted, Deserted, Accounts
<1>8. ASSUME ListFree
      PROVE  Accounted'
  <2> DEFINE t == peeked[1]
             n == peeked[2]
  <2>1. /\ stage \in Ending /\ stage' \in Ending /\ stage # "run" /\ stage' # "run"
        /\ UNCHANGED <<exit, leaked, creator, overrun, pc>>
        /\ Gone' = Gone /\ Live' = Live
    BY <1>8 DEF ListFree, Ending, Gone, Live
  <2>2. /\ t \in Thread
        /\ \A u \in Thread : list'[u] = IF u = t THEN <<>> ELSE Delete(list[u], n)
        /\ disposed' = disposed \cup {n} \cup Elements(list[t])
    BY <1>8 DEF ListFree, TypeOK
  <2> HIDE DEF t, n
  <2>3. ~overrun => \A u \in Thread : Elements(list'[u]) \cap disposed' = {}
    <3> SUFFICES ASSUME ~overrun, NEW u \in Thread
                 PROVE  Elements(list'[u]) \cap disposed' = {}
      OBVIOUS
    <3>1. CASE u = t
      BY <2>2, <3>1 DEF Elements
    <3>2. CASE u # t
      <4>1. /\ Elements(list'[u]) \subseteq Elements(list[u])
            /\ n \notin Elements(list'[u])
        BY <2>2, <3>2, DeleteElements DEF TypeOK, NodeInOnePlace, NoSharing
      <4>2. Elements(list[u]) \cap (disposed \cup Elements(list[t])) = {}
        BY <2>2, <3>2 DEF NodeInOnePlace, NoSharing, Accounted, Accounts
      <4> QED
        BY <2>2, <4>1, <4>2
    <3> QED
      BY <3>1, <3>2
  <2> QED
    BY <2>1, <2>3 DEF Accounted, Deserted, Accounts
<1> QED
  BY <1>1, <1>2, <1>3, <1>4, <1>5, <1>6, <1>7, <1>8 DEF Next, MainStep, Ended

(* At the start nothing is given up.                                       *)
LEMMA AccountInit == Init => Accounted
<1> SUFFICES ASSUME Init
             PROVE  Accounted
  OBVIOUS
<1>1. Gone = {} /\ leaked = {}
  BY DEF Init, Gone
<1> QED
  BY <1>1, FS_EmptySet DEF Init, Accounted, Deserted, Accounts, Ending

(* Nothing is given up before the exit, each thread drops one node at most *)
(* when it leaves, and what tc_thread_uninit gives to tg_group_free is     *)
(* nobody else's if it overran no thread.                                  *)
THEOREM ExitCorrect == Spec => []ExitAccountsForNodes
<1>1. Init => Accounted
  BY AccountInit
<1>2. Shape /\ NodeInOnePlace /\ Accounted /\ [Next]_vars => Accounted'
  BY AccountStep
<1>3. Shape /\ Accounted => ExitAccountsForNodes
  <2> SUFFICES ASSUME TypeOK, Accounted
               PROVE  ExitAccountsForNodes
    BY DEF Shape
  <2>1. disposed # {} => stage \in Ending /\ stage # "run"
    BY DEF Accounted, Deserted, Ending
  <2>2. leaked \cup disposed # {} => exit
    BY <2>1 DEF Accounted, Accounts, TypeOK
  <2>3. ASSUME ~overrun, NEW t \in Thread
        PROVE  held[t] \notin disposed
    <3>1. CASE disposed = {}
      BY <3>1
    <3>2. CASE disposed # {}
      <4>1. t \notin Live
        BY <2>1, <2>3, <3>2 DEF Accounted, Deserted
      <4>2. held[t] = NoNode
        BY <4>1 DEF Live, TypeOK
      <4> QED
        BY <4>2, PoolAssumption DEF TypeOK
    <3> QED
      BY <3>1, <3>2
  <2> QED
    BY <2>2, <2>3 DEF ExitAccountsForNodes, Accounted, Accounts, Gone
<1> QED
  BY <1>1, <1>2, <1>3, ShapeCorrect, OnePlace, PTL DEF Spec

-----------------------------------------------------------------------------
(* The pool keeps the promise of TcWorkPool.                               *)

(* Every pool has the callback from which its nodes go back: without it    *)
(* they are dropped (tc_thread.c:158), which the promise does not allow.   *)
Served == \A g \in Group : IF Members(g) = {} THEN g \in GroupFunc ELSE g \in ExecFunc

(* A node that tc_thread_uninit gives away can only be in the hands of a   *)
(* thread that is stuck before its callback.                               *)
Doomed(n) ==
    n \notin outside /\ \A t \in Thread : held[t] = n => pc[t] = "took"

NoneRevived ==
    /\ \A n \in disposed : Doomed(n)
    /\ stage = "freeing" => Doomed(peeked[2])

Placement == [n \in Node |-> Where(n)]

(* A list holds nodes.                                                     *)
LEMMA ListHoldsNodes ==
    ASSUME TypeOK, NEW t \in Thread
    PROVE  Elements(list[t]) \subseteq Node
BY ElementsInSet DEF TypeOK

(* Where a node is, is known from who has it.                              *)
LEMMA HeldElsewhere ==
    ASSUME TypeOK, NodeInOnePlace, NEW t \in Thread, held[t] # NoNode
    PROVE  /\ held[t] \in Node
           /\ held[t] \notin outside \cup leaked
           /\ \A u \in Thread : held[u] = held[t] => u = t
           /\ \A u \in Thread : held[t] \notin Elements(list[u])
BY DEF TypeOK, NodeInOnePlace, NoSharing

(* A thread that changes what it holds or where it is in its loop moves    *)
(* no other node than the one it holds.                                    *)
LEMMA OthersStay ==
    ASSUME NEW t \in Thread, NEW n \in Node, NoNode \notin Node,
           held[t] \in {n, NoNode}, held'[t] \in {n, NoNode},
           \A u \in Thread : u # t => held'[u] = held[u] /\ (InCallback(u)' <=> InCallback(u)),
           \A x \in Node : x # n =>
               /\ x \in outside' <=> x \in outside
               /\ x \in leaked' \cup disposed' <=> x \in leaked \cup disposed
    PROVE  \A x \in Node : x # n => Where(x)' = Where(x)
<1> SUFFICES ASSUME NEW x \in Node, x # n
             PROVE  Where(x)' = Where(x)
  OBVIOUS
<1>1. (\E u \in Thread : held[u] = x /\ InCallback(u))'
        <=> \E u \in Thread : held[u] = x /\ InCallback(u)
  <2>1. \A u \in Thread : (held'[u] = x /\ InCallback(u)') <=> (held[u] = x /\ InCallback(u))
    OBVIOUS
  <2> QED
    BY <2>1
<1> QED
  BY <1>1 DEF Where

(* The steps that move nothing.                                            *)
LEMMA NobodyMoves ==
    ASSUME UNCHANGED <<outside, leaked, disposed, held>>,
           \A u \in Thread : InCallback(u)' <=> InCallback(u)
    PROVE  Placement' = Placement
<1>1. \A x \in Node : Where(x)' = Where(x)
  <2> TAKE x \in Node
  <2>1. (\E u \in Thread : held[u] = x /\ InCallback(u))'
          <=> \E u \in Thread : held[u] = x /\ InCallback(u)
    OBVIOUS
  <2> QED
    BY <2>1 DEF Where
<1> QED
  BY <1>1 DEF Placement

(* One node moves as the promise allows.                                   *)
LEMMA OneMoves ==
    ASSUME NEW n \in Node, \A x \in Node : x # n => Where(x)' = Where(x),
           UNCHANGED exit,
           \/ Where(n)' = Where(n)
           \/ Where(n) = "owned" /\ Where(n)' = "queued"
           \/ Where(n) = "queued" /\ Where(n)' = "running" /\ ~exit
           \/ Where(n) = "running" /\ Where(n)' \in {"queued", "owned"}
           \/ Where(n) = "queued" /\ Where(n)' = "lost" /\ exit
    PROVE  [WorkPool!Next]_(WorkPool!vars)
<1>1. Placement' = [Placement EXCEPT ![n] = Where(n)']
  BY DEF Placement
<1>2. Placement[n] = Where(n)
  BY DEF Placement
<1>3. CASE Where(n)' = Where(n)
  BY <1>1, <1>2, <1>3 DEF Placement, WorkPool!vars
<1>4. CASE Where(n) = "owned" /\ Where(n)' = "queued"
  BY <1>1, <1>2, <1>4 DEF Placement, WorkPool!Next, WorkPool!Submit, WorkPool!Move
<1>5. CASE Where(n) = "queued" /\ Where(n)' = "running" /\ ~exit
  BY <1>1, <1>2, <1>5 DEF Placement, WorkPool!Next, WorkPool!Start, WorkPool!Move
<1>6. CASE Where(n) = "running" /\ Where(n)' = "queued"
  BY <1>1, <1>2, <1>6 DEF Placement, WorkPool!Next, WorkPool!Requeue, WorkPool!Move
<1>7. CASE Where(n) = "running" /\ Where(n)' = "owned"
  BY <1>1, <1>2, <1>7 DEF Placement, WorkPool!Next, WorkPool!Return, WorkPool!Move
<1>8. CASE Where(n) = "queued" /\ Where(n)' = "lost" /\ exit
  <2>1. Placement' = [x \in Node |-> IF x \in {n} THEN "lost" ELSE Placement[x]]
    BY <1>8 DEF Placement
  <2>2. WorkPool!Lose({n})
    BY <1>2, <1>8, <2>1 DEF Placement, WorkPool!Lose
  <2> QED
    BY <2>2 DEF WorkPool!Next
<1> QED
  BY <1>3, <1>4, <1>5, <1>6, <1>7, <1>8

(* No node comes back to life once tc_thread_uninit has an eye on it.      *)
LEMMA RevivedStep ==
    Shape /\ NodeInOnePlace /\ Accounted /\ NoneRevived /\ [Next]_vars => NoneRevived'
<1> SUFFICES ASSUME TypeOK, CreationInOrder, NodeInOnePlace, Accounted, NoneRevived, [Next]_vars
             PROVE  NoneRevived'
  BY DEF Shape
<1> USE DEF nodeVars, mainVars, createVars
<1>d. ~exit => disposed = {} /\ stage # "freeing"
  BY DEF Accounted, Accounts, Deserted, Ending
<1>f. stage = "freeing" => peeked \in Thread \X Node
  BY DEF TypeOK
<1>1. ASSUME UNCHANGED <<disposed, stage, peeked>>,
             \A n \in Node : Doomed(n) /\ (n \in disposed \/ stage = "freeing") => Doomed(n)'
      PROVE  NoneRevived'
  BY <1>1, <1>f DEF NoneRevived, TypeOK
<1>2. ASSUME NEW g \in Group, Claim(g) \/ CreateStep(g)
      PROVE  NoneRevived'
  <2>1. UNCHANGED <<held, outside, disposed, stage, peeked>>
    BY <1>2 DEF Claim, CreateStep, SpawnMaster, CountMaster, SpawnMember, CountMember
  <2>2. \A t \in Thread : pc[t] = "took" => pc'[t] = "took"
    BY <1>2, CreatorStarts
  <2> QED
    BY <1>1, <2>1, <2>2 DEF Doomed
<1>3. ASSUME NEW g \in Group, NEW n \in Node, Submit(g, n)
      PROVE  NoneRevived'
  <2>1. UNCHANGED <<held, disposed, stage, peeked>> /\ outside' \subseteq outside
    BY <1>3 DEF Submit
  <2>2. \A t \in Thread : pc[t] = "took" => pc'[t] = "took"
    BY <1>3 DEF Submit, WokenBy, TypeOK
  <2> QED
    BY <1>1, <2>1, <2>2 DEF Doomed
<1>4. ASSUME NEW t \in Thread, Take(t) \/ Resume(t) \/ Timeout(t)
      PROVE  NoneRevived'
  <2>1. UNCHANGED <<outside, disposed, stage, peeked>>
    BY <1>4 DEF Take, Resume, Timeout
  <2>2. \A u \in Thread : u # t => held'[u] = held[u] /\ pc'[u] = pc[u]
    BY <1>4 DEF Take, Resume, Timeout, PopOr, Pop, TypeOK
  <2>3. pc'[t] = "took" \/ held'[t] = NoNode
    BY <1>4 DEF Take, Resume, Timeout, PopOr, Pop, TypeOK
  <2> QED
    BY <1>1, <2>1, <2>2, <2>3, PoolAssumption DEF Doomed
<1>5. ASSUME NEW t \in Thread, LeaveWithNode(t) \/ EnterCallback(t)
      PROVE  NoneRevived'
  <2>1. disposed = {} /\ stage # "freeing" /\ UNCHANGED <<disposed, stage, peeked>>
    BY <1>5, <1>d DEF LeaveWithNode, EnterCallback, GroupMutexFree, Running, Accounted,
                      Deserted, Ending
  <2> QED
    BY <2>1 DEF NoneRevived
<1>6. ASSUME NEW t \in Thread, TestExitTop(t) \/ SpuriousWake(t) \/ GroupFuncOk(t)
      PROVE  NoneRevived'
  <2>1. UNCHANGED <<held, outside, disposed, stage, peeked>>
    BY <1>6 DEF TestExitTop, SpuriousWake, GroupFuncOk
  <2>2. \A u \in Thread : pc[u] = "took" => pc'[u] = "took"
    BY <1>6 DEF TestExitTop, SpuriousWake, GroupFuncOk, TypeOK
  <2> QED
    BY <1>1, <2>1, <2>2 DEF Doomed
<1>7. ASSUME NEW t \in Thread, Finish(t) \/ PassOn(t)
      PROVE  NoneRevived'
  <2>1. UNCHANGED <<disposed, stage, peeked>>
    BY <1>7 DEF Finish, PassOn
  <2>2. pc[t] # "took" /\ held[t] # NoNode
    BY <1>7 DEF Finish, PassOn, TypeOK
  <2>3. outside' \subseteq outside \cup {held[t]}
    BY <1>7 DEF Finish, PassOn, LetGo
  <2>4. held' = [held EXCEPT ![t] = NoNode]
    BY <1>7 DEF Finish, PassOn, LetGo
  <2>5. \A u \in Thread : pc[u] = "took" => pc'[u] = "took"
    <3>1. CASE Finish(t)
      BY <2>2, <3>1 DEF Finish, LetGo, TypeOK
    <3>2. CASE PassOn(t) /\ TgCount[t[1]] <= 1
      BY <2>2, <3>2 DEF PassOn, LetGo, TypeOK
    <3>3. CASE PassOn(t) /\ ~(TgCount[t[1]] <= 1)
      <4> DEFINE m == <<t[1], rr[t[1]] + 1>>
      <4>1. pc' = [u \in Thread |-> IF u = t THEN "top"
                                    ELSE IF u = m THEN WokenBy(pc[u]) ELSE pc[u]]
        BY <3>3 DEF PassOn
      <4> HIDE DEF m
      <4> QED
        BY <2>2, <4>1 DEF WokenBy
    <3> QED
      BY <1>7, <3>1, <3>2, <3>3
  <2>6. ASSUME NEW n \in Node, Doomed(n)
        PROVE  Doomed(n)'
    <3>1. held[t] # n
      BY <2>2, <2>6 DEF Doomed
    <3>2. n \notin outside'
      BY <2>3, <2>6, <3>1 DEF Doomed
    <3>3. \A u \in Thread : held'[u] = n => held[u] = n
      BY <2>4, PoolAssumption DEF TypeOK
    <3> QED
      BY <2>5, <2>6, <3>2, <3>3 DEF Doomed
  <2> QED
    BY <1>1, <2>1, <2>6
<1>8. ASSUME OutsideTest \/ ExitRequest \/ Broadcast \/ Poll \/ UninitBegin \/ UninitEnd
             \/ UNCHANGED vars
      PROVE  NoneRevived'
  <2>1. UNCHANGED <<held, outside, disposed, peeked>> /\ (stage' = "freeing" => stage = "freeing")
    BY <1>8 DEF OutsideTest, ExitRequest, Broadcast, Poll, UninitBegin, UninitEnd, vars
  <2>2. \A u \in Thread : pc[u] = "took" => pc'[u] = "took"
    BY <1>8 DEF OutsideTest, ExitRequest, Broadcast, Poll, UninitBegin, UninitEnd, vars,
                WokenBy, TypeOK
  <2> QED
    BY <2>1, <2>2 DEF NoneRevived, Doomed
<1>9. \A t \in Thread : \A n \in Elements(list[t]) : Doomed(n)
  BY DEF NodeInOnePlace, NoSharing, Doomed
<1>10. ASSUME NEW t \in Thread, ListPeek(t)
       PROVE  NoneRevived'
  <2>1. UNCHANGED <<held, outside, disposed, pc>> /\ stage = "uninit"
    BY <1>10 DEF ListPeek
  <2>2. stage' = "freeing" => peeked' = <<t, Head(list[t])>> /\ list[t] # <<>>
    BY <1>10, <2>1 DEF ListPeek
  <2>3. list[t] # <<>> => Head(list[t]) \in Elements(list[t])
    BY PopElements DEF TypeOK
  <2> QED
    BY <1>9, <2>1, <2>2, <2>3 DEF NoneRevived, Doomed
<1>11. ASSUME ListFree
       PROVE  NoneRevived'
  <2>1. /\ UNCHANGED <<held, outside, pc>> /\ stage = "freeing" /\ stage' = "uninit"
        /\ disposed' = disposed \cup {peeked[2]} \cup Elements(list[peeked[1]])
        /\ peeked[1] \in Thread
    BY <1>11, <1>f DEF ListFree
  <2> QED
    BY <1>9, <2>1 DEF NoneRevived, Doomed
<1> QED
  BY <1>2, <1>3, <1>4, <1>5, <1>6, <1>7, <1>8, <1>10, <1>11
     DEF Next, ThreadStep, MainStep, Ended

(* Every step of the pool is a step of its promise, or none.               *)
LEMMA PromiseStep ==
    ASSUME Served
    PROVE  Shape /\ NodeInOnePlace /\ Accounted /\ NoneRevived /\ [Next]_vars
               => [WorkPool!Next]_(WorkPool!vars)
<1> SUFFICES ASSUME Shape, TypeOK, CreationInOrder, NodeInOnePlace, Accounted, NoneRevived,
                    [Next]_vars
             PROVE  [WorkPool!Next]_(WorkPool!vars)
  BY DEF Shape
<1> USE DEF nodeVars, mainVars, createVars
<1>t. TypeOK' /\ NodeInOnePlace'
  BY TypeStep, PlaceStep
<1>n. NoNode \notin Node
  BY PoolAssumption
<1>d. \A t \in Thread : pc[t] \in {"running", "pass"} =>
          held[t] \in Node /\ held[t] \notin outside \cup leaked \cup disposed
  BY HeldElsewhere DEF NoneRevived, Doomed, TypeOK
<1>0. ASSUME UNCHANGED <<outside, leaked, disposed, held, exit>>,
             \A u \in Thread : InCallback(u)' <=> InCallback(u)
      PROVE  [WorkPool!Next]_(WorkPool!vars)
  BY <1>0, NobodyMoves DEF Placement, WorkPool!vars
<1>1. ASSUME NEW g \in Group, Claim(g) \/ CreateStep(g)
      PROVE  [WorkPool!Next]_(WorkPool!vars)
  <2>1. UNCHANGED <<outside, leaked, disposed, held, exit>>
    BY <1>1 DEF Claim, CreateStep, SpawnMaster, CountMaster, SpawnMember, CountMember
  <2>2. \A u \in Thread : InCallback(u)' <=> InCallback(u)
    BY <1>1, CreatorStarts DEF InCallback
  <2> QED
    BY <1>0, <2>1, <2>2
<1>2. ASSUME OutsideTest \/ ExitRequest \/ Broadcast \/ Poll \/ UninitBegin \/ UninitEnd
             \/ (\E t \in Thread : ListPeek(t)) \/ UNCHANGED vars
      PROVE  [WorkPool!Next]_(WorkPool!vars)
  <2>1. UNCHANGED <<outside, leaked, disposed, held>>
    BY <1>2 DEF OutsideTest, ExitRequest, Broadcast, Poll, UninitBegin, UninitEnd, ListPeek, vars
  <2>2. \A u \in Thread : InCallback(u)' <=> InCallback(u)
    <3>1. \A u \in Thread : pc'[u] = pc[u] \/ (pc[u] = "waiting" /\ pc'[u] = "signalled")
      BY <1>2 DEF OutsideTest, ExitRequest, Broadcast, Poll, UninitBegin, UninitEnd, ListPeek,
                  vars, WokenBy, TypeOK
    <3> QED
      BY <3>1 DEF InCallback
  <2>3. Placement' = Placement
    BY <2>1, <2>2, NobodyMoves
  <2>4. exit' = exit \/ exit' = TRUE
    BY <1>2 DEF OutsideTest, ExitRequest, Broadcast, Poll, UninitBegin, UninitEnd, ListPeek, vars
  <2> QED
    BY <2>3, <2>4 DEF Placement, WorkPool!vars, WorkPool!Next, WorkPool!Close
<1>3. ASSUME NEW t \in Thread, TestExitTop(t) \/ SpuriousWake(t)
      PROVE  [WorkPool!Next]_(WorkPool!vars)
  <2>1. UNCHANGED <<outside, leaked, disposed, held, exit>>
    BY <1>3 DEF TestExitTop, SpuriousWake
  <2>2. \A u \in Thread : InCallback(u)' <=> InCallback(u)
    BY <1>3 DEF TestExitTop, SpuriousWake, InCallback, TypeOK
  <2> QED
    BY <1>0, <2>1, <2>2
<1>4. ASSUME NEW g \in Group, NEW n \in Node, Submit(g, n)
      PROVE  [WorkPool!Next]_(WorkPool!vars)
  <2>1. /\ UNCHANGED <<leaked, disposed, held, exit>>
        /\ n \in outside /\ outside' = outside \ {n}
    BY <1>4 DEF Submit
  <2>2. \A u \in Thread : InCallback(u)' <=> InCallback(u)
    BY <1>4 DEF Submit, WokenBy, InCallback, TypeOK
  <2>3. n \notin leaked \cup disposed /\ \A u \in Thread : held[u] # n
    BY <2>1, <1>n DEF NodeInOnePlace, NoSharing, NoneRevived, Doomed, TypeOK
  <2>4. Where(n) = "owned" /\ Where(n)' = "queued"
    BY <2>1, <2>3 DEF Where
  <2>5. \A x \in Node : x # n => Where(x)' = Where(x)
    <3> SUFFICES ASSUME NEW x \in Node, x # n
                 PROVE  Where(x)' = Where(x)
      OBVIOUS
    <3>1. (\E u \in Thread : held[u] = x /\ InCallback(u))'
            <=> \E u \in Thread : held[u] = x /\ InCallback(u)
      BY <2>1, <2>2
    <3> QED
      BY <2>1, <3>1 DEF Where
  <2> QED
    BY <2>1, <2>4, <2>5, OneMoves
<1>5. ASSUME NEW t \in Thread, Take(t) \/ Resume(t) \/ Timeout(t)
      PROVE  [WorkPool!Next]_(WorkPool!vars)
  <2>1. UNCHANGED <<outside, leaked, disposed, exit>>
    BY <1>5 DEF Take, Resume, Timeout
  <2>2. \A u \in Thread : InCallback(u)' <=> InCallback(u)
    BY <1>5 DEF Take, Resume, Timeout, PopOr, Pop, InCallback, TypeOK
  <2>3. held[t] = NoNode /\ ~InCallback(t)
    BY <1>5 DEF Take, Resume, Timeout, InCallback, TypeOK
  <2>4. CASE held' = held
    BY <1>0, <2>1, <2>2, <2>4
  <2>5. CASE held' # held
    <3>1. list[t] # <<>> /\ held' = [held EXCEPT ![t] = Head(list[t])]
      BY <1>5, <2>5 DEF Take, Resume, Timeout, PopOr, Pop
    <3>2. PICK n \in Node : n = Head(list[t]) /\ n \in Elements(list[t])
      BY <3>1, PopElements DEF TypeOK
    <3>3. held'[t] = n /\ \A u \in Thread : u # t => held'[u] = held[u]
      BY <3>1, <3>2 DEF TypeOK
    <3>4. \A x \in Node : x # n => Where(x)' = Where(x)
      BY <1>n, <2>1, <2>2, <2>3, <3>2, <3>3, OthersStay
    <3>5. \A u \in Thread : held[u] # n
      BY <3>2 DEF NodeInOnePlace, NoSharing
    <3>6. Where(n)' = Where(n)
      BY <2>1, <2>2, <2>3, <3>3, <3>5 DEF Where
    <3> QED
      BY <2>1, <3>2, <3>4, <3>6, OneMoves
  <2> QED
    BY <2>4, <2>5
<1>h. ASSUME NEW t \in Thread, pc[t] \in {"took", "running", "pass"}
      PROVE  \E n \in Node : /\ n = held[t]
                             /\ n # NoNode /\ n \notin outside \cup leaked
                             /\ \A u \in Thread : held[u] = n => u = t
                             /\ pc[t] # "took" => n \notin disposed
  <2>1. held[t] # NoNode
    BY <1>h DEF TypeOK
  <2> QED
    BY <1>d, <1>h, <2>1, HeldElsewhere
<1>6. ASSUME NEW t \in Thread, LeaveWithNode(t)
      PROVE  [WorkPool!Next]_(WorkPool!vars)
  <2>1. /\ exit /\ exit' = exit /\ UNCHANGED <<outside, disposed>>
        /\ leaked' = leaked \cup {held[t]}
        /\ held' = [held EXCEPT ![t] = NoNode] /\ pc[t] = "took"
        /\ pc' = [pc EXCEPT ![t] = "gone"]
    BY <1>6 DEF LeaveWithNode
  <2>2. PICK n \in Node : /\ n = held[t]
                          /\ n # NoNode /\ n \notin outside \cup leaked
                          /\ \A u \in Thread : held[u] = n => u = t
    BY <1>h, <2>1
  <2>3. /\ held'[t] = NoNode
        /\ \A u \in Thread : u # t => held'[u] = held[u] /\ (InCallback(u)' <=> InCallback(u))
        /\ ~InCallback(t)
    BY <2>1 DEF InCallback, TypeOK
  <2>4. \A u \in Thread : held'[u] # n
    BY <2>2, <2>3
  <2>5. Where(n) \in {"queued", "lost"} /\ Where(n)' = "lost"
    BY <2>1, <2>2, <2>3, <2>4 DEF Where
  <2>6. \A x \in Node : x # n => Where(x)' = Where(x)
    BY <1>n, <2>1, <2>2, <2>3, OthersStay
  <2> QED
    BY <2>1, <2>5, <2>6, OneMoves
<1>7. ASSUME NEW t \in Thread, EnterCallback(t)
      PROVE  [WorkPool!Next]_(WorkPool!vars)
  <2>1. /\ ~exit /\ exit' = exit /\ UNCHANGED <<leaked, disposed>> /\ pc[t] = "took"
        /\ disposed = {} /\ leaked = {}
    BY <1>7 DEF EnterCallback, Accounted, Accounts, Deserted, Ending
  <2>2. t[1] \in Group /\ t = <<t[1], t[2]>> /\ (t[2] # 0 => Members(t[1]) # {})
    BY ThreadShape DEF Thread
  <2>3. UNCHANGED <<held, outside>>
    BY <1>7, <2>2 DEF EnterCallback, Served
  <2>4. PICK n \in Node : /\ n = held[t]
                          /\ n # NoNode /\ n \notin outside \cup leaked
                          /\ \A u \in Thread : held[u] = n => u = t
    BY <1>h, <2>1
  <2>5. /\ ~InCallback(t)
        /\ \A u \in Thread : u # t => (InCallback(u)' <=> InCallback(u))
    BY <1>7, <2>1 DEF EnterCallback, InCallback, TypeOK
  <2>6. Where(n) = "queued" /\ Where(n)' \in {"queued", "running"}
    BY <2>1, <2>3, <2>4, <2>5 DEF Where
  <2>7. \A x \in Node : x # n => Where(x)' = Where(x)
    BY <1>n, <2>1, <2>3, <2>4, <2>5, OthersStay
  <2> QED
    BY <2>1, <2>6, <2>7, OneMoves
<1>8. ASSUME NEW t \in Thread, GroupFuncOk(t)
      PROVE  [WorkPool!Next]_(WorkPool!vars)
  <2>1. /\ UNCHANGED <<exit, held, outside, leaked, disposed>>
        /\ pc[t] = "running" /\ pc' = [pc EXCEPT ![t] = "pass"]
    BY <1>8 DEF GroupFuncOk
  <2>2. PICK n \in Node : /\ n = held[t]
                          /\ n # NoNode /\ n \notin outside \cup leaked \cup disposed
                          /\ \A u \in Thread : held[u] = n => u = t
    BY <1>h, <2>1
  <2>3. /\ InCallback(t)
        /\ \A u \in Thread : u # t => (InCallback(u)' <=> InCallback(u))
    BY <2>1 DEF InCallback, TypeOK
  <2>4. Where(n) = "running" /\ Where(n)' \in {"queued", "running"}
    BY <2>1, <2>2, <2>3 DEF Where
  <2>5. \A x \in Node : x # n => Where(x)' = Where(x)
    BY <1>n, <2>1, <2>2, <2>3, OthersStay
  <2> QED
    BY <2>1, <2>4, <2>5, OneMoves
<1>9. ASSUME NEW t \in Thread, LetGo(t), InCallback(t),
             UNCHANGED <<exit, leaked, disposed>>
      PROVE  [WorkPool!Next]_(WorkPool!vars)
  <2>1. /\ pc' = [pc EXCEPT ![t] = "top"]
        /\ held' = [held EXCEPT ![t] = NoNode]
        /\ outside' = outside \cup {held[t]}
    BY <1>9 DEF LetGo
  <2>2. PICK n \in Node : /\ n = held[t]
                          /\ n # NoNode /\ n \notin outside \cup leaked
                          /\ \A u \in Thread : held[u] = n => u = t
    BY <1>h, <1>9 DEF InCallback
  <2>3. /\ held'[t] = NoNode
        /\ \A u \in Thread : u # t => held'[u] = held[u] /\ (InCallback(u)' <=> InCallback(u))
    BY <2>1 DEF InCallback, TypeOK
  <2>4. Where(n) = "running" /\ Where(n)' = "owned"
    BY <1>9, <2>1, <2>2 DEF Where
  <2>5. \A x \in Node : x # n => Where(x)' = Where(x)
    BY <1>9, <1>n, <2>1, <2>2, <2>3, OthersStay
  <2> QED
    BY <1>9, <2>4, <2>5, OneMoves
<1>10. ASSUME NEW t \in Thread, Finish(t)
       PROVE  [WorkPool!Next]_(WorkPool!vars)
  BY <1>9, <1>10 DEF Finish, InCallback
<1>11. ASSUME NEW t \in Thread, PassOn(t)
       PROVE  [WorkPool!Next]_(WorkPool!vars)
  <2>1. t[1] \in Group /\ (TgCount[t[1]] <= 1 <=> Members(t[1]) = {})
    <3>1. t[1] \in Group /\ TgCount[t[1]] \in Nat
      BY ThreadShape, PoolAssumption
    <3> QED
      BY <3>1 DEF Members
  <2>2. CASE TgCount[t[1]] <= 1
    BY <1>9, <1>11, <2>1, <2>2 DEF PassOn, InCallback, Served
  <2>3. CASE ~(TgCount[t[1]] <= 1)
    <3> DEFINE m == <<t[1], rr[t[1]] + 1>>
    <3>1. /\ pc[t] = "pass" /\ held' = [held EXCEPT ![t] = NoNode]
          /\ UNCHANGED <<exit, outside, leaked, disposed>>
          /\ pc' = [u \in Thread |-> IF u = t THEN "top"
                                     ELSE IF u = m THEN WokenBy(pc[u]) ELSE pc[u]]
      BY <1>11, <2>3 DEF PassOn
    <3>2. PICK n \in Node : /\ n = held[t]
                            /\ n # NoNode /\ n \notin outside \cup leaked \cup disposed
                            /\ \A u \in Thread : held[u] = n => u = t
      BY <1>h, <3>1
    <3> HIDE DEF m
    <3>3. /\ held'[t] = NoNode /\ ~InCallback(t)
          /\ \A u \in Thread : u # t => held'[u] = held[u] /\ (InCallback(u)' <=> InCallback(u))
      BY <2>1, <2>3, <3>1 DEF InCallback, WokenBy, TypeOK
    <3>4. \A u \in Thread : held'[u] # n
      BY <3>2, <3>3
    <3>5. Where(n) = "queued" /\ Where(n)' = "queued"
      BY <3>1, <3>2, <3>3, <3>4 DEF Where
    <3>6. \A x \in Node : x # n => Where(x)' = Where(x)
      BY <1>n, <3>1, <3>2, <3>3, OthersStay
    <3> QED
      BY <3>1, <3>5, <3>6, OneMoves
  <2> QED
    BY <2>2, <2>3
<1>12. ASSUME ListFree
       PROVE  [WorkPool!Next]_(WorkPool!vars)
  <2> DEFINE S == {x \in Node : Where(x) = "queued" /\ Where(x)' = "lost"}
             t == peeked[1]
  <2>1. /\ UNCHANGED <<exit, outside, leaked, held, pc>> /\ stage = "freeing"
        /\ disposed' = disposed \cup {peeked[2]} \cup Elements(list[t])
        /\ t \in Thread /\ peeked[2] \in Node
    BY <1>12 DEF ListFree, TypeOK
  <2>2. exit
    BY <2>1 DEF Accounted, Accounts
  <2>3. \A x \in Node : (\E u \in Thread : held[u] = x /\ InCallback(u))'
                          <=> \E u \in Thread : held[u] = x /\ InCallback(u)
    BY <2>1 DEF InCallback
  <2>4. ASSUME NEW x \in Node, x \in disposed' \ disposed
        PROVE  x \notin outside /\ ~\E u \in Thread : held[u] = x /\ InCallback(u)
    <3>1. CASE x = peeked[2]
      BY <2>1, <3>1 DEF NoneRevived, Doomed, InCallback
    <3>2. CASE x \in Elements(list[t])
      BY <2>1, <3>2 DEF NodeInOnePlace, NoSharing
    <3> QED
      BY <2>1, <2>4, <3>1, <3>2
  <2>5. \A x \in Node : Where(x)' = IF x \in S THEN "lost" ELSE Where(x)
    <3> SUFFICES ASSUME NEW x \in Node
                 PROVE  Where(x)' = Where(x) \/ (Where(x) = "queued" /\ Where(x)' = "lost")
      OBVIOUS
    <3>1. CASE x \in disposed' \ disposed
      BY <2>1, <2>3, <2>4, <3>1 DEF Where
    <3>2. CASE x \notin disposed' \ disposed
      <4>1. x \in disposed' <=> x \in disposed
        BY <2>1, <3>2
      <4> QED
        BY <2>1, <2>3, <4>1 DEF Where
    <3> QED
      BY <3>1, <3>2
  <2>6. \A x \in S : Placement[x] = "queued"
    BY DEF Placement
  <2>7. S \in SUBSET Node
    OBVIOUS
  <2> HIDE DEF S, t
  <2>8. Placement' = [x \in Node |-> IF x \in S THEN "lost" ELSE Placement[x]]
    BY <2>5 DEF Placement
  <2>9. WorkPool!Lose(S)
    BY <2>1, <2>2, <2>6, <2>8 DEF Placement, WorkPool!Lose
  <2> QED
    BY <2>7, <2>9 DEF WorkPool!Next
<1> QED
  BY <1>1, <1>2, <1>3, <1>4, <1>5, <1>6, <1>7, <1>8, <1>10, <1>11, <1>12
     DEF Next, ThreadStep, MainStep, Ended

(* Where every pool has the callback its nodes end in, the threads, lists  *)
(* and wake-ups of tc_thread.c implement TcWorkPool: a node comes back     *)
(* only from a callback, none starts after the exit, none is lost before.  *)
THEOREM PromiseKept ==
    ASSUME Served
    PROVE  Spec => KeepsPromise
<1>1. Init => NoneRevived /\ WorkPool!Init
  <2> SUFFICES ASSUME Init
               PROVE  NoneRevived /\ WorkPool!Init
    OBVIOUS
  <2>1. \A n \in Node : Where(n) = "owned"
    BY DEF Init, Where
  <2> QED
    BY <2>1 DEF Init, NoneRevived, WorkPool!Init
<1>2. Init => Accounted
  BY AccountInit
<1>3. Shape /\ NodeInOnePlace /\ Accounted /\ [Next]_vars => Accounted'
  BY AccountStep
<1>4. Shape /\ NodeInOnePlace /\ Accounted /\ NoneRevived /\ [Next]_vars => NoneRevived'
  BY RevivedStep
<1>5. Shape /\ NodeInOnePlace /\ Accounted /\ NoneRevived /\ [Next]_vars
        => [WorkPool!Next]_(WorkPool!vars)
  BY PromiseStep
<1>6. Spec => WorkPool!Spec
  BY <1>1, <1>2, <1>3, <1>4, <1>5, ShapeCorrect, OnePlace, PTL DEF Spec, WorkPool!Spec
<1> QED
  BY <1>6 DEF KeepsPromise
=============================================================================

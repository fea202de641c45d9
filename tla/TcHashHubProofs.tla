-------------------------- MODULE TcHashHubProofs --------------------------
(* What holds of the hub for any number of links and pool threads and for  *)
(* any interval.                                                           *)
EXTENDS TcHashHub, TcListLemmas

(* A link has an interval once it is being added, and a table when it gets *)
(* its node.                                                               *)
Stages ==
    \A l \in Link :
        /\ stage[l] # "out" => interval[l] \in Intervals
        /\ stage[l] \in {"out", "find", "table"} => l \notin made
        /\ stage[l] \notin {"out", "find", "table"} => home[l] \in Link

(* Every table is found under its interval, or a newer one is.             *)
Tables ==
    /\ \A t \in made : newest[interval[t]] \in Link
    /\ \A i \in Intervals :
           newest[i] # NoLink => newest[i] \in made /\ interval[newest[i]] = i

(* A list in the pool or with a pool thread has a table to go back to, and *)
(* the node a thread looks at was in its list.                             *)
Works ==
    /\ \A k \in 1 .. Len(queue) : \A job \in queue[k] : job.table \in made
    /\ \A w \in Worker :
           /\ at[w] # "idle" => pos[w] \in Intervals /\ newest[pos[w]] \in Link
           /\ at[w] \in {"call", "close", "free"} <=> cur[w] \in Link
           /\ todo[w] \subseteq list[w]
           /\ at[w] = "call" => cur[w] \in list[w] \ todo[w]
           /\ at[w] \in {"close", "free"} => cur[w] \in failed

Shape == TypeOK /\ Stages /\ Tables /\ Works

(* A timer's call appends one set of lists to the pool.                    *)
LEMMA FireJobs ==
    ASSUME TypeOK, NEW l \in Link, Fire(l)
    PROVE  /\ queue' \in Seq(SUBSET [table : Link, nodes : SUBSET Link])
           /\ Len(queue) \in Nat
           /\ Len(queue') = Len(queue) + 1
           /\ \A k \in 1 .. Len(queue) : queue'[k] = queue[k]
           /\ queue'[Len(queue) + 1] = {[table |-> t, nodes |-> hub[t]] : t \in Due}
<1> DEFINE jobs == {[table |-> t, nodes |-> hub[t]] : t \in Due}
<1>1. jobs \in SUBSET [table : Link, nodes : SUBSET Link]
  BY DEF Due, TypeOK
<1>2. queue \in Seq(SUBSET [table : Link, nodes : SUBSET Link])
  BY DEF TypeOK
<1>3. queue' = Append(queue, jobs)
  BY DEF Fire
<1> HIDE DEF jobs
<1>4. /\ queue' \in Seq(SUBSET [table : Link, nodes : SUBSET Link])
      /\ Len(queue') = Len(queue) + 1
      /\ \A k \in 1 .. Len(queue) : queue'[k] = queue[k]
      /\ queue'[Len(queue) + 1] = jobs
  BY <1>1, <1>2, <1>3, AppendProperties
<1> QED
  BY <1>2, <1>4, LenProperties DEF jobs

(* A pool thread takes one list out of the first set, which goes when it   *)
(* was the last.                                                           *)
TakeShifts(job, s) ==
    /\ s \in {0, 1}
    /\ Len(queue') = Len(queue) - s
    /\ \A k \in 1 .. Len(queue') :
           queue'[k] = IF s = 0 /\ k = 1 THEN queue[1] \ {job} ELSE queue[k + s]
    /\ s = 1 => queue[1] = {job}

LEMMA TakeJobs ==
    ASSUME TypeOK, NEW w \in Worker, Take(w)
    PROVE  \E job \in [table : Link, nodes : SUBSET Link], s \in {0, 1} :
               /\ Len(queue) \in Nat \ {0}
               /\ job \in queue[1]
               /\ queue' \in Seq(SUBSET [table : Link, nodes : SUBSET Link])
               /\ TakeShifts(job, s)
               /\ list' = [list EXCEPT ![w] = job.nodes]
               /\ todo' = [todo EXCEPT ![w] = job.nodes]
               /\ pos' = [pos EXCEPT ![w] = interval[job.table]]
<1> DEFINE J == [table : Link, nodes : SUBSET Link]
<1>1. queue \in Seq(SUBSET J) /\ queue # <<>>
  BY DEF TypeOK, Take
<1>2. PICK job \in Head(queue) :
          /\ queue' = IF Head(queue) = {job} THEN Tail(queue)
                      ELSE [queue EXCEPT ![1] = @ \ {job}]
          /\ list' = [list EXCEPT ![w] = job.nodes]
          /\ todo' = [todo EXCEPT ![w] = job.nodes]
          /\ pos' = [pos EXCEPT ![w] = interval[job.table]]
  BY DEF Take
<1> HIDE DEF J
<1>3. /\ Head(queue) = queue[1]
      /\ Head(queue) \in SUBSET J
      /\ Tail(queue) \in Seq(SUBSET J)
      /\ Len(Tail(queue)) = Len(queue) - 1
      /\ \A i \in 1 .. Len(Tail(queue)) : Tail(queue)[i] = queue[i + 1]
  BY <1>1, HeadTailProperties
<1>4. Len(queue) \in Nat \ {0}
  BY <1>1, LenProperties, EmptySeq
<1>5. job \in J /\ job \in queue[1]
  BY <1>3
<1>6. CASE Head(queue) = {job}
  <2>1. TakeShifts(job, 1)
    BY <1>2, <1>3, <1>4, <1>6 DEF TakeShifts
  <2> QED
    BY <1>2, <1>3, <1>4, <1>5, <1>6, <2>1 DEF J
<1>7. CASE Head(queue) # {job}
  <2>1. queue' = [queue EXCEPT ![1] = @ \ {job}]
    BY <1>2, <1>7
  <2>2. 1 \in 1 .. Len(queue) /\ queue[1] \ {job} \in SUBSET J
    BY <1>3, <1>4
  <2>3. /\ queue' \in Seq(SUBSET J)
        /\ Len(queue') = Len(queue)
        /\ \A i \in 1 .. Len(queue) :
               queue'[i] = IF i = 1 THEN queue[1] \ {job} ELSE queue[i]
    BY <1>1, <2>1, <2>2, ExceptSeq
  <2>4. TakeShifts(job, 0)
    <3>1. ASSUME NEW k \in 1 .. Len(queue')
          PROVE  queue'[k] = IF 0 = 0 /\ k = 1 THEN queue[1] \ {job} ELSE queue[k + 0]
      <4>1. k \in 1 .. Len(queue) /\ k + 0 = k
        BY <1>4, <2>3
      <4>2. k + 0 = k => queue[k + 0] = queue[k]
        OBVIOUS
      <4> QED
        BY <2>3, <4>1, <4>2
    <3>2. Len(queue') = Len(queue) - 0
      BY <1>4, <2>3
    <3>3. 0 \in {0, 1} /\ (0 = 1 => queue[1] = {job})
      OBVIOUS
    <3> QED
      BY <3>1, <3>2, <3>3, Zenon DEF TakeShifts
  <2> QED
    BY <1>2, <1>4, <1>5, <2>3, <2>4 DEF J
<1> QED
  BY <1>6, <1>7

LEMMA ShapeInit == Init => Shape
<1> SUFFICES ASSUME Init PROVE Shape
  OBVIOUS
<1>1. <<>> \in Seq(SUBSET [table : Link, nodes : SUBSET Link]) /\ Len(<<>>) = 0
  BY EmptySeq
<1>2. TypeOK
  <2>1. /\ phase \in 0 .. Interval - 1 /\ age \in 0 .. Span
        /\ left \in [Link -> NoTimer .. Interval]
    BY HubAssumption DEF Init, NoTimer
  <2> QED
    BY <1>1, <2>1, HubAssumption DEF TypeOK, Init
<1>3. Stages /\ Tables
  BY DEF Init, Stages, Tables
<1>4. Works
  BY <1>1, HubAssumption DEF Init, Works
<1> QED
  BY <1>2, <1>3, <1>4 DEF Shape

(* The model's % on the slots.                                             *)
LEMMA Modulo ==
    ASSUME NEW n \in Nat, NEW d \in Nat \ {0}
    PROVE  n % d \in 0 .. d - 1
OBVIOUS

LEMMA ShapeStep == Shape /\ [Next]_vars => Shape'
<1> SUFFICES ASSUME Shape, [Next]_vars PROVE Shape'
  OBVIOUS
<1> USE HubAssumption DEF Shape
<1>1. ASSUME NEW l \in Link, AddInterval(l) PROVE Shape'
  <2>1. TypeOK'
    BY <1>1 DEF AddInterval, Intervals, clockVars, tableVars, addVars, timerVars, nodeVars,
       workerVars, TypeOK, Stages, Tables, Works
  <2>2. Stages' /\ Tables'
    BY <1>1 DEF AddInterval, clockVars, tableVars, addVars, timerVars, nodeVars,
       workerVars, Stages, Tables, TypeOK, Intervals
  <2>3. Works'
    BY <1>1 DEF AddInterval, clockVars, tableVars, addVars, timerVars, nodeVars,
       workerVars, Works, TypeOK, Stages, Tables
  <2> QED
    BY <2>1, <2>2, <2>3
<1>2. ASSUME NEW l \in Link, AddFind(l) PROVE Shape'
  <2>1. TypeOK'
    <3>1. newest[interval[l]] \in Link \union {NoLink}
      BY <1>2 DEF AddFind, TypeOK, Stages, clockVars, tableVars, addVars, timerVars,
         nodeVars, workerVars
    <3>2. CASE Found(l)
      BY <1>2, <3>1, <3>2 DEF AddFind, Found, TypeOK, Works, clockVars, tableVars, addVars,
         timerVars, nodeVars, workerVars
    <3>3. CASE Missing(l)
      BY <1>2, <3>3 DEF AddFind, Missing, TypeOK, Works, clockVars, tableVars, addVars,
         timerVars, nodeVars, workerVars
    <3> QED
      BY <1>2, <3>2, <3>3 DEF AddFind
  <2>2. Stages' /\ Tables'
    <3>1. /\ newest[interval[l]] \in Link \union {NoLink}
          /\ interval[l] \in Intervals /\ l \notin made
      BY <1>2 DEF AddFind, TypeOK, Stages, clockVars, tableVars, addVars, timerVars,
         nodeVars, workerVars
    <3>2. CASE Found(l)
      BY <1>2, <3>1, <3>2 DEF AddFind, Found, TypeOK, Stages, Tables, clockVars, tableVars,
         addVars, timerVars, nodeVars, workerVars
    <3>3. CASE Missing(l)
      BY <1>2, <3>1, <3>3 DEF AddFind, Missing, TypeOK, Stages, Tables, clockVars,
         tableVars, addVars, timerVars, nodeVars, workerVars
    <3> QED
      BY <1>2, <3>2, <3>3 DEF AddFind
  <2>3. Works'
    BY <1>2 DEF AddFind, Found, Missing, clockVars, tableVars, addVars, timerVars,
       nodeVars, workerVars, Works, TypeOK, Stages, Tables
  <2> QED
    BY <2>1, <2>2, <2>3
<1>3. ASSUME NEW l \in Link, AddTable(l) PROVE Shape'
  <2>1. TypeOK'
    BY <1>3 DEF AddTable, clockVars, tableVars, addVars, timerVars, nodeVars, workerVars,
       TypeOK, Stages, Tables, Works
  <2>2. Stages' /\ Tables'
    BY <1>3 DEF AddTable, clockVars, tableVars, addVars, timerVars, nodeVars, workerVars,
       Stages, Tables, TypeOK
  <2>3. Works'
    BY <1>3 DEF AddTable, clockVars, tableVars, addVars, timerVars, nodeVars, workerVars,
       Works, TypeOK, Stages, Tables
  <2> QED
    BY <2>1, <2>2, <2>3
<1>4. ASSUME NEW l \in Link, AddNode(l) PROVE Shape'
  <2>1. TypeOK'
    <3>1. home[l] \in Link
      BY <1>4 DEF AddNode, Stages
    <3>2. hub' \in [Link -> SUBSET Link]
      BY <1>4, <3>1 DEF AddNode, TypeOK
    <3> QED
      BY <1>4, <3>2 DEF AddNode, TypeOK, clockVars, tableVars, addVars, timerVars,
         nodeVars, workerVars
  <2>2. Stages' /\ Tables'
    <3>1. /\ made' = made /\ newest' = newest /\ interval' = interval /\ home' = home
          /\ stage' = [stage EXCEPT ![l] = "test"] /\ stage[l] = "node"
          /\ node' = [node EXCEPT ![l] = "linked"]
      BY <1>4 DEF AddNode
    <3>2. Stages'
      BY <3>1 DEF Stages, TypeOK
    <3>3. Tables'
      BY <3>1 DEF Tables
    <3> QED
      BY <3>2, <3>3
  <2>3. Works'
    BY <1>4 DEF AddNode, clockVars, tableVars, addVars, timerVars, nodeVars, workerVars,
       Works, TypeOK, Stages, Tables
  <2> QED
    BY <2>1, <2>2, <2>3
<1>5. ASSUME NEW l \in Link, AddTest(l) PROVE Shape'
  <2>1. TypeOK'
    BY <1>5 DEF AddTest, clockVars, tableVars, addVars, timerVars, nodeVars, workerVars,
       TypeOK, Stages, Tables, Works
  <2>2. Stages' /\ Tables'
    <3>1. /\ stage[l] = "test" /\ stage'[l] \in {"done", "timer"}
          /\ \A k \in Link : k # l => stage'[k] = stage[k]
      BY <1>5 DEF AddTest, TypeOK
    <3> QED
      BY <1>5, <3>1 DEF AddTest, Stages, Tables, clockVars, tableVars, addVars, timerVars,
         nodeVars, workerVars
  <2>3. Works'
    BY <1>5 DEF AddTest, clockVars, tableVars, addVars, timerVars, nodeVars, workerVars,
       Works, TypeOK, Stages, Tables
  <2> QED
    BY <2>1, <2>2, <2>3
<1>6. ASSUME NEW l \in Link, AddTimer(l) PROVE Shape'
  <2>1. TypeOK'
    <3>1. interval[l] \in Nat
      BY <1>6 DEF AddTimer, Stages, Intervals
    <3>2. Id(l) \in 0 .. Interval - 1
      BY <3>1, Modulo DEF Id
    <3>3. left' \in [Link -> NoTimer .. Interval]
      BY <1>6 DEF AddTimer, TypeOK, NoTimer
    <3> QED
      BY <1>6, <3>2, <3>3 DEF AddTimer, TypeOK, clockVars, tableVars, addVars, timerVars,
         nodeVars, workerVars
  <2>2. Stages' /\ Tables'
    BY <1>6 DEF AddTimer, clockVars, tableVars, addVars, timerVars, nodeVars, workerVars,
       Stages, Tables, TypeOK
  <2>3. Works'
    BY <1>6 DEF AddTimer, clockVars, tableVars, addVars, timerVars, nodeVars, workerVars,
       Works, TypeOK, Stages, Tables
  <2> QED
    BY <2>1, <2>2, <2>3
<1>7. ASSUME NEW l \in Link, Fire(l) PROVE Shape'
  <2>1. TypeOK'
    <3>1. hub' \in [Link -> SUBSET Link] /\ left' \in [Link -> NoTimer .. Interval]
      BY <1>7 DEF Fire, TypeOK, NoTimer
    <3>2. queue' \in Seq(SUBSET [table : Link, nodes : SUBSET Link])
      BY <1>7, FireJobs
    <3> QED
      BY <1>7, <3>1, <3>2 DEF Fire, clockVars, tableVars, addVars, timerVars, nodeVars,
         workerVars, TypeOK
  <2>2. Stages' /\ Tables'
    BY <1>7 DEF Fire, clockVars, tableVars, addVars, timerVars, nodeVars, workerVars,
       Stages, Tables
  <2>3. \A k \in 1 .. Len(queue') : \A job \in queue'[k] : job.table \in made
    BY <1>7, FireJobs DEF Works, Due
  <2>4. Works'
    BY <1>7, <2>3 DEF Fire, clockVars, tableVars, addVars, timerVars, nodeVars, workerVars,
       Works
  <2> QED
    BY <2>1, <2>2, <2>4
<1>8. ASSUME NEW l \in Link, FireEmpty(l) PROVE Shape'
  <2>1. TypeOK'
    BY <1>8 DEF FireEmpty, NoTimer, clockVars, tableVars, addVars, timerVars, nodeVars,
       workerVars, TypeOK
  <2>2. Stages' /\ Tables'
    BY <1>8 DEF FireEmpty, clockVars, tableVars, addVars, timerVars, nodeVars, workerVars,
       Stages, Tables, TypeOK
  <2>3. Works'
    BY <1>8 DEF FireEmpty, clockVars, tableVars, addVars, timerVars, nodeVars, workerVars,
       Works, TypeOK, Stages, Tables
  <2> QED
    BY <2>1, <2>2, <2>3
<1>9. ASSUME NEW l \in Link, Close(l) PROVE Shape'
  <2>1. TypeOK'
    BY <1>9 DEF Close, clockVars, tableVars, addVars, timerVars, nodeVars, workerVars, TypeOK
  <2>2. Stages' /\ Tables'
    BY <1>9 DEF Close, clockVars, tableVars, addVars, timerVars, nodeVars, workerVars,
       Stages, Tables, TypeOK
  <2>3. Works'
    BY <1>9 DEF Close, clockVars, tableVars, addVars, timerVars, nodeVars, workerVars,
       Works, TypeOK, Stages, Tables
  <2> QED
    BY <2>1, <2>2, <2>3
<1>10. ASSUME NEW l \in Link, LinkDel(l) PROVE Shape'
  <2>1. TypeOK'
    BY <1>10 DEF LinkDel, clockVars, tableVars, addVars, timerVars, nodeVars, workerVars,
       TypeOK
  <2>2. Stages' /\ Tables'
    BY <1>10 DEF LinkDel, clockVars, tableVars, addVars, timerVars, nodeVars, workerVars,
       Stages, Tables, TypeOK
  <2>3. Works'
    BY <1>10 DEF LinkDel, clockVars, tableVars, addVars, timerVars, nodeVars, workerVars,
       Works, TypeOK, Stages, Tables
  <2> QED
    BY <2>1, <2>2, <2>3
<1>11. ASSUME NEW w \in Worker, Take(w) PROVE Shape'
  <2>1. PICK job \in [table : Link, nodes : SUBSET Link], s \in {0, 1} :
            /\ Len(queue) \in Nat \ {0}
            /\ job \in queue[1]
            /\ queue' \in Seq(SUBSET [table : Link, nodes : SUBSET Link])
            /\ TakeShifts(job, s)
            /\ list' = [list EXCEPT ![w] = job.nodes]
            /\ todo' = [todo EXCEPT ![w] = job.nodes]
            /\ pos' = [pos EXCEPT ![w] = interval[job.table]]
    BY <1>11, TakeJobs
  <2>2. job.table \in made /\ job.table \in Link /\ job.nodes \in SUBSET Link
    BY <2>1 DEF Works
  <2>3. interval[job.table] \in Intervals /\ newest[interval[job.table]] \in Link
    BY <2>2 DEF Stages, Tables, TypeOK
  <2>4. TypeOK'
    BY <1>11, <2>1, <2>2, <2>3 DEF Take, clockVars, tableVars, addVars, timerVars,
       nodeVars, workerVars, TypeOK
  <2>5. Stages' /\ Tables'
    BY <1>11 DEF Take, clockVars, tableVars, addVars, timerVars, nodeVars, workerVars,
       Stages, Tables
  <2>6. \A k \in 1 .. Len(queue') : \A j \in queue'[k] : j.table \in made
    <3>1. ASSUME NEW k \in 1 .. Len(queue')
          PROVE  k + s \in 1 .. Len(queue) /\ queue'[k] \subseteq queue[k + s]
      <4>1. k + s \in 1 .. Len(queue) /\ (s = 0 /\ k = 1 => k + s = 1)
        BY <2>1 DEF TakeShifts
      <4> QED
        BY <2>1, <4>1 DEF TakeShifts
    <3> QED
      BY <3>1 DEF Works
  <2>7. Works'
    BY <1>11, <2>1, <2>2, <2>3, <2>6 DEF Take, clockVars, tableVars, addVars, timerVars,
       nodeVars, workerVars, Works, TypeOK
  <2> QED
    BY <2>4, <2>5, <2>7
<1>12. ASSUME NEW w \in Worker, PutBack(w) PROVE Shape'
  <2>1. TypeOK'
    <3>1. newest[pos[w]] \in Link
      BY <1>12 DEF PutBack, Works
    <3>2. hub' \in [Link -> SUBSET Link]
      BY <1>12, <3>1 DEF PutBack, TypeOK
    <3>3. at' = [at EXCEPT ![w] = "idle"] /\ list' = [list EXCEPT ![w] = {}] /\ todo[w] = {}
      BY <1>12 DEF PutBack
    <3> QED
      BY <1>12, <3>2, <3>3 DEF PutBack, TypeOK, clockVars, tableVars, addVars, timerVars,
         nodeVars, workerVars
  <2>2. Stages' /\ Tables'
    BY <1>12 DEF PutBack, clockVars, tableVars, addVars, timerVars, nodeVars, workerVars,
       Stages, Tables, TypeOK, Works
  <2>3. Works'
    BY <1>12 DEF PutBack, clockVars, tableVars, addVars, timerVars, nodeVars, workerVars,
       Works, TypeOK, Stages, Tables
  <2> QED
    BY <2>1, <2>2, <2>3
<1>13. ASSUME NEW w \in Worker, NEW l \in Link, VisitCleared(w, l) PROVE Shape'
  <2>1. TypeOK'
    BY <1>13 DEF VisitCleared, clockVars, tableVars, addVars, timerVars, nodeVars,
       workerVars, TypeOK, Stages, Tables, Works
  <2>2. Stages' /\ Tables'
    BY <1>13 DEF VisitCleared, clockVars, tableVars, addVars, timerVars, nodeVars,
       workerVars, Stages, Tables, TypeOK, Works
  <2>3. Works'
    BY <1>13 DEF VisitCleared, clockVars, tableVars, addVars, timerVars, nodeVars,
       workerVars, Works, TypeOK, Stages, Tables
  <2> QED
    BY <2>1, <2>2, <2>3
<1>14. ASSUME NEW w \in Worker, NEW l \in Link, Call(w, l) PROVE Shape'
  <2>1. TypeOK'
    BY <1>14 DEF Call, clockVars, tableVars, addVars, timerVars, nodeVars, workerVars,
       TypeOK, Stages, Tables, Works
  <2>2. Stages' /\ Tables'
    BY <1>14 DEF Call, clockVars, tableVars, addVars, timerVars, nodeVars, workerVars,
       Stages, Tables, TypeOK, Works
  <2>3. Works'
    BY <1>14 DEF Call, clockVars, tableVars, addVars, timerVars, nodeVars, workerVars,
       Works, TypeOK, Stages, Tables
  <2> QED
    BY <2>1, <2>2, <2>3
<1>15. ASSUME NEW w \in Worker, CallOk(w) PROVE Shape'
  <2>1. TypeOK'
    BY <1>15 DEF CallOk, clockVars, tableVars, addVars, timerVars, nodeVars, workerVars,
       TypeOK, Stages, Tables, Works
  <2>2. Stages' /\ Tables'
    BY <1>15 DEF CallOk, clockVars, tableVars, addVars, timerVars, nodeVars, workerVars,
       Stages, Tables, TypeOK, Works
  <2>3. Works'
    BY <1>15 DEF CallOk, clockVars, tableVars, addVars, timerVars, nodeVars, workerVars,
       Works, TypeOK, Stages, Tables
  <2> QED
    BY <2>1, <2>2, <2>3
<1>16. ASSUME NEW w \in Worker, CallFailed(w) PROVE Shape'
  <2>1. TypeOK'
    BY <1>16 DEF CallFailed, clockVars, tableVars, addVars, timerVars, nodeVars,
       workerVars, TypeOK, Stages, Tables, Works
  <2>2. Stages' /\ Tables'
    BY <1>16 DEF CallFailed, clockVars, tableVars, addVars, timerVars, nodeVars,
       workerVars, Stages, Tables, TypeOK, Works
  <2>3. Works'
    BY <1>16 DEF CallFailed, clockVars, tableVars, addVars, timerVars, nodeVars,
       workerVars, Works, TypeOK, Stages, Tables
  <2> QED
    BY <2>1, <2>2, <2>3
<1>17. ASSUME NEW w \in Worker, CloseFailed(w) PROVE Shape'
  <2>1. TypeOK'
    BY <1>17 DEF CloseFailed, clockVars, tableVars, addVars, timerVars, nodeVars,
       workerVars, TypeOK, Stages, Tables, Works
  <2>2. Stages' /\ Tables'
    BY <1>17 DEF CloseFailed, clockVars, tableVars, addVars, timerVars, nodeVars,
       workerVars, Stages, Tables, TypeOK, Works
  <2>3. Works'
    BY <1>17 DEF CloseFailed, clockVars, tableVars, addVars, timerVars, nodeVars,
       workerVars, Works, TypeOK, Stages, Tables
  <2> QED
    BY <2>1, <2>2, <2>3
<1>18. ASSUME NEW w \in Worker, FreeFailed(w) PROVE Shape'
  <2>1. TypeOK'
    BY <1>18 DEF FreeFailed, clockVars, tableVars, addVars, timerVars, nodeVars,
       workerVars, TypeOK, Stages, Tables, Works
  <2>2. Stages' /\ Tables'
    BY <1>18 DEF FreeFailed, clockVars, tableVars, addVars, timerVars, nodeVars,
       workerVars, Stages, Tables, TypeOK, Works
  <2>3. Works'
    BY <1>18 DEF FreeFailed, clockVars, tableVars, addVars, timerVars, nodeVars,
       workerVars, Works, TypeOK, Stages, Tables
  <2> QED
    BY <2>1, <2>2, <2>3
<1>19. ASSUME Tick PROVE Shape'
  <2>1. TypeOK'
    <3>1. phase' \in 0 .. Interval - 1
      <4>1. phase + 1 \in Nat
        BY DEF TypeOK
      <4> QED
        BY <1>19, <4>1, Modulo DEF Tick
    <3>2. left' \in [Link -> NoTimer .. Interval]
      BY <1>19 DEF Tick, TypeOK, NoTimer
    <3> QED
      BY <1>19, <3>1, <3>2 DEF Tick, TypeOK, clockVars, tableVars, addVars,
         timerVars, nodeVars, workerVars
  <2>2. Stages' /\ Tables'
    BY <1>19 DEF Tick, clockVars, tableVars, addVars, timerVars, nodeVars, workerVars,
       Stages, Tables, TypeOK
  <2>3. Works'
    BY <1>19 DEF Tick, clockVars, tableVars, addVars, timerVars, nodeVars, workerVars,
       Works, TypeOK, Stages, Tables
  <2> QED
    BY <2>1, <2>2, <2>3
<1>20. ASSUME Second PROVE Shape'
  <2>1. TypeOK'
    <3>1. age' \in 0 .. Span
      BY <1>20 DEF Second, TypeOK
    <3> QED
      BY <1>20, <3>1 DEF Second, TypeOK, tableVars, addVars, timerVars, nodeVars, workerVars
  <2>2. Stages' /\ Tables' /\ Works'
    BY <1>20 DEF Second, tableVars, addVars, timerVars, nodeVars, workerVars, Stages, Tables,
       Works, TypeOK
  <2> QED
    BY <2>1, <2>2
<1>21. CASE UNCHANGED vars
  BY <1>21 DEF vars, clockVars, tableVars, addVars, timerVars, nodeVars, workerVars,
     TypeOK, Stages, Tables, Works
<1> QED
  BY <1>1, <1>2, <1>3, <1>4, <1>5, <1>6, <1>7, <1>8, <1>9, <1>10, <1>11, <1>12, <1>13,
     <1>14, <1>15, <1>16, <1>17, <1>18, <1>19, <1>20, <1>21 DEF Next, AddStep, WorkStep

-----------------------------------------------------------------------------
(* The places of a node, one set for each kind of place.                   *)
InHub(l)   == {t \in Link : l \in hub[t]}
InQueue(l) == {j \in Jobs : l \in j[2].nodes}
InList(l)  == {w \in Worker : l \in list[w]}
InHand(l)  == {w \in Worker : Held(w, l)}
Single(S)  == \A x, y \in S : x = y

Apart(l) ==
    /\ Single(InHub(l)) /\ Single(InQueue(l)) /\ Single(InList(l)) /\ Single(InHand(l))
    /\ InHub(l) = {} \/ InQueue(l) = {}
    /\ InHub(l) = {} \/ InList(l) = {}
    /\ InHub(l) = {} \/ InHand(l) = {}
    /\ InQueue(l) = {} \/ InList(l) = {}
    /\ InQueue(l) = {} \/ InHand(l) = {}
    /\ InList(l) = {} \/ InHand(l) = {}
    /\ node[l] = "linked" <=>
           ~(InHub(l) = {} /\ InQueue(l) = {} /\ InList(l) = {} /\ InHand(l) = {})

(* A node is made once, by the step that follows the look at the tables.   *)
Born == \A l \in Link : node[l] = "none" <=> stage[l] \in {"out", "find", "table", "node"}

Placed == Born /\ \A l \in Link : Apart(l)

LEMMA PlacedInit == Init => Placed
<1> SUFFICES ASSUME Init PROVE Placed
  OBVIOUS
<1>1. Jobs = {}
  <2>1. queue = <<>> /\ Len(queue) = 0
    BY EmptySeq DEF Init
  <2> QED
    BY <2>1 DEF Jobs
<1>2. ASSUME NEW l \in Link PROVE InHub(l) = {} /\ InQueue(l) = {} /\ InList(l) = {} /\ InHand(l) = {}
  BY <1>1 DEF Init, InHub, InQueue, InList, InHand, Held
<1>3. \A l \in Link : node[l] = "none" /\ stage[l] = "out"
  BY DEF Init
<1> QED
  BY <1>2, <1>3 DEF Placed, Born, Apart, Single

LEMMA PlacedMeans == Placed => NodeInOnePlace
<1> SUFFICES ASSUME Placed, NEW l \in Link
             PROVE  /\ Places(l) # {} <=> node[l] = "linked"
                    /\ \A p, q \in Places(l) : p = q
  BY DEF NodeInOnePlace
<1>1. Places(l) = {<<"table", t>> : t \in InHub(l)} \union {<<"queue", j>> : j \in InQueue(l)}
                  \union {<<"list", w>> : w \in InList(l)} \union {<<"held", w>> : w \in InHand(l)}
  BY DEF Places, InHub, InQueue, InList, InHand
<1>2. Apart(l)
  BY DEF Placed
<1> HIDE DEF Places
<1>3. Places(l) # {} <=> node[l] = "linked"
  BY <1>1, <1>2 DEF Apart
<1>4. ASSUME NEW p \in Places(l), NEW q \in Places(l) PROVE p = q
  <2>1. CASE InHub(l) # {}
    BY <1>1, <1>2, <2>1 DEF Apart, Single
  <2>2. CASE InQueue(l) # {}
    BY <1>1, <1>2, <2>2 DEF Apart, Single
  <2>3. CASE InList(l) # {}
    BY <1>1, <1>2, <2>3 DEF Apart, Single
  <2>4. CASE InHand(l) # {}
    BY <1>1, <1>2, <2>4 DEF Apart, Single
  <2> QED
    BY <1>1, <2>1, <2>2, <2>3, <2>4
<1> QED
  BY <1>3, <1>4

(* A link stays where it is.                                               *)
Stays(l) ==
    /\ InHub(l)' = InHub(l) /\ InQueue(l)' = InQueue(l)
    /\ InList(l)' = InList(l) /\ InHand(l)' = InHand(l)
    /\ node'[l] = node[l]

LEMMA StaysApart ==
    ASSUME NEW l \in Link, Apart(l), Stays(l)
    PROVE  Apart(l)'
BY DEF Apart, Stays, Single

LEMMA PlacedStep == Shape /\ Placed /\ [Next]_vars => Placed'
<1> SUFFICES ASSUME Shape, Placed, [Next]_vars PROVE Placed'
  OBVIOUS
<1> USE HubAssumption DEF Placed
<1> DEFINE Still ==
      /\ hub' = hub /\ queue' = queue /\ list' = list /\ node' = node
      /\ \A w \in Worker, k \in Link : Held(w, k)' <=> Held(w, k)
<1>1. ASSUME Still, Born' PROVE Placed'
  <2>1. \A k \in Link : Stays(k)
    BY <1>1 DEF Stays, InHub, InQueue, InList, InHand, Jobs
  <2> QED
    BY <1>1, <2>1, StaysApart
<1> HIDE DEF Still
<1>2. ASSUME NEW l \in Link, AddInterval(l) PROVE Placed'
  <2>1. Still
    BY <1>2 DEF Still, AddInterval, Held, tableVars, nodeVars, workerVars, Shape, TypeOK
  <2>2. Born'
    BY <1>2 DEF AddInterval, addVars, nodeVars, Born, Shape, TypeOK
  <2> QED
    BY <1>1, <2>1, <2>2
<1>3. ASSUME NEW l \in Link, AddFind(l) PROVE Placed'
  <2>1. Still
    BY <1>3 DEF Still, AddFind, Held, tableVars, nodeVars, workerVars, Shape, TypeOK
  <2>2. Born'
    <3>1. node' = node /\ stage[l] = "find" /\ stage = [k \in Link |-> stage[k]]
      BY <1>3 DEF AddFind, nodeVars, Shape, TypeOK
    <3>2. \E new \in {"node", "table"} : stage' = [stage EXCEPT ![l] = new]
      BY <1>3 DEF AddFind, Found, Missing
    <3> QED
      BY <3>1, <3>2 DEF Born
  <2> QED
    BY <1>1, <2>1, <2>2
<1>4. ASSUME NEW l \in Link, AddTable(l) PROVE Placed'
  <2>1. Still
    BY <1>4 DEF Still, AddTable, Held, tableVars, nodeVars, workerVars, Shape, TypeOK
  <2>2. Born'
    BY <1>4 DEF AddTable, addVars, nodeVars, Born, Shape, TypeOK
  <2> QED
    BY <1>1, <2>1, <2>2
<1>5. ASSUME NEW l \in Link, AddNode(l) PROVE Placed'
  <2>1. home[l] \in Link
    BY <1>5 DEF AddNode, Shape, Stages
  <2>0. /\ hub' \in [Link -> SUBSET Link]
        /\ \A t \in Link : hub'[t] = IF t = home[l] THEN hub[t] \union {l} ELSE hub[t]
    BY <1>5, <2>1 DEF AddNode, Shape, TypeOK
  <2>2. ASSUME NEW k \in Link, k # l PROVE Stays(k)
    <3>1. InHub(k)' = InHub(k)
      BY <2>0, <2>2 DEF InHub
    <3> QED
      BY <1>5, <2>2, <3>1 DEF AddNode, Stays, InQueue, InList, InHand, Jobs, Held,
         workerVars, Shape, TypeOK
  <2>3. node[l] = "none" /\ node'[l] = "linked"
    BY <1>5 DEF AddNode, Born, Shape, TypeOK
  <2>4. InHub(l) = {} /\ InQueue(l) = {} /\ InList(l) = {} /\ InHand(l) = {}
    BY <2>3 DEF Apart
  <2>5. /\ InHub(l)' = {home[l]}
        /\ InQueue(l)' = {} /\ InList(l)' = {} /\ InHand(l)' = {}
    <3>1. InHub(l)' = {home[l]}
      BY <2>0, <2>1, <2>4 DEF InHub
    <3> QED
      BY <1>5, <2>4, <3>1 DEF AddNode, InQueue, InList, InHand, Jobs, Held, workerVars
  <2>6. Apart(l)'
    BY <2>3, <2>5 DEF Apart, Single
  <2>7. Born'
    BY <1>5 DEF AddNode, Born, Shape, TypeOK
  <2> QED
    BY <2>2, <2>6, <2>7, StaysApart
<1>6. ASSUME NEW l \in Link, AddTest(l) PROVE Placed'
  <2>1. Still
    BY <1>6 DEF Still, AddTest, Held, tableVars, nodeVars, workerVars, Shape, TypeOK
  <2>2. Born'
    BY <1>6 DEF AddTest, addVars, nodeVars, Born, Shape, TypeOK
  <2> QED
    BY <1>1, <2>1, <2>2
<1>7. ASSUME NEW l \in Link, AddTimer(l) PROVE Placed'
  <2>1. Still
    BY <1>7 DEF Still, AddTimer, Held, tableVars, nodeVars, workerVars, Shape, TypeOK
  <2>2. Born'
    BY <1>7 DEF AddTimer, addVars, nodeVars, Born, Shape, TypeOK
  <2> QED
    BY <1>1, <2>1, <2>2
<1>8. ASSUME NEW l \in Link, Fire(l) PROVE Placed'
  <2> DEFINE n == Len(queue)
             new(t) == [table |-> t, nodes |-> hub[t]]
  <2>1. /\ n \in Nat /\ Len(queue') = n + 1
        /\ \A i \in 1 .. n : queue'[i] = queue[i]
        /\ queue'[n + 1] = {new(t) : t \in Due}
    BY <1>8, FireJobs DEF Shape
  <2>2. Jobs' = Jobs \union {<<n + 1, new(t)>> : t \in Due}
    <3>1. \A x : x \in Jobs <=> \E i \in 1 .. n : \E job \in queue[i] : x = <<i, job>>
      BY DEF Jobs
    <3>2. \A x : x \in Jobs' <=> \E i \in 1 .. Len(queue') : \E job \in queue'[i] : x = <<i, job>>
      BY DEF Jobs
    <3>3. ASSUME NEW x \in Jobs' PROVE x \in Jobs \union {<<n + 1, new(t)>> : t \in Due}
      <4>1. PICK i \in 1 .. Len(queue') : \E job \in queue'[i] : x = <<i, job>>
        BY <3>2
      <4>2. CASE i \in 1 .. n
        BY <2>1, <3>1, <4>1, <4>2
      <4>3. CASE i = n + 1
        BY <2>1, <4>1, <4>3
      <4> QED
        BY <2>1, <4>2, <4>3
    <3>4. ASSUME NEW x \in Jobs PROVE x \in Jobs'
      <4>1. PICK i \in 1 .. n : \E job \in queue[i] : x = <<i, job>>
        BY <3>1
      <4>2. i \in 1 .. Len(queue') /\ queue'[i] = queue[i]
        BY <2>1
      <4> QED
        BY <3>2, <4>1, <4>2
    <3>5. ASSUME NEW t \in Due PROVE <<n + 1, new(t)>> \in Jobs'
      <4>1. n + 1 \in 1 .. Len(queue') /\ new(t) \in queue'[n + 1]
        BY <2>1
      <4> HIDE DEF new
      <4> QED
        BY <3>2, <4>1
    <3> HIDE DEF new
    <3> QED
      BY <3>3, <3>4, <3>5
  <2> HIDE DEF n
  <2>3. /\ Due \subseteq Link
        /\ hub' = [t \in Link |-> IF t \in Due THEN {} ELSE hub[t]]
    BY <1>8 DEF Fire, Due, Shape, TypeOK
  <2>4. ASSUME NEW k \in Link PROVE Apart(k)'
    <3>1. InList(k)' = InList(k) /\ InHand(k)' = InHand(k) /\ node'[k] = node[k]
      BY <1>8 DEF Fire, InList, InHand, Held, workerVars, nodeVars
    <3>2. InHub(k)' = InHub(k) \ Due
      BY <2>3 DEF InHub
    <3>3. InQueue(k)' = InQueue(k) \union {<<n + 1, new(t)>> : t \in InHub(k) \cap Due}
      <4>1. \A t \in Due : k \in new(t).nodes <=> t \in InHub(k)
        BY <2>3 DEF InHub
      <4>2. \A j : j \in InQueue(k)' <=> j \in Jobs' /\ k \in j[2].nodes
        BY DEF InQueue
      <4>3. \A j : j \in InQueue(k) <=> j \in Jobs /\ k \in j[2].nodes
        BY DEF InQueue
      <4>4. \A t \in Due : <<n + 1, new(t)>>[2] = new(t)
        OBVIOUS
      <4> HIDE DEF new
      <4>5. \A j : j \in {<<n + 1, new(t)>> : t \in Due} /\ k \in j[2].nodes
                     <=> j \in {<<n + 1, new(t)>> : t \in InHub(k) \cap Due}
        BY <4>1, <4>4
      <4> QED
        BY <2>2, <4>2, <4>3, <4>5
    <3>4. CASE InHub(k) \cap Due = {}
      <4>1. InHub(k)' = InHub(k) /\ InQueue(k)' = InQueue(k)
        BY <3>2, <3>3, <3>4
      <4> QED
        BY <3>1, <4>1, StaysApart DEF Stays
    <3>5. CASE InHub(k) \cap Due # {}
      <4>1. PICK t \in Link : t \in Due /\ InHub(k) = {t}
        BY <2>3, <3>5 DEF Apart, Single
      <4>2. InQueue(k) = {} /\ InList(k) = {} /\ InHand(k) = {} /\ node[k] = "linked"
        BY <4>1 DEF Apart
      <4>3. InHub(k)' = {} /\ InQueue(k)' = {<<n + 1, new(t)>>}
        BY <3>2, <3>3, <4>1, <4>2
      <4>4. PICK x : InQueue(k)' = {x}
        BY <4>3
      <4> QED
        BY <3>1, <4>2, <4>3, <4>4 DEF Apart, Single
    <3> QED
      BY <3>4, <3>5
  <2>5. Born'
    BY <1>8 DEF Fire, addVars, nodeVars, Born
  <2> QED
    BY <2>4, <2>5
<1>9. ASSUME NEW l \in Link, FireEmpty(l) PROVE Placed'
  <2>1. Still
    BY <1>9 DEF Still, FireEmpty, Held, tableVars, nodeVars, workerVars, Shape, TypeOK
  <2>2. Born'
    BY <1>9 DEF FireEmpty, addVars, nodeVars, Born, Shape, TypeOK
  <2> QED
    BY <1>1, <2>1, <2>2
<1>10. ASSUME NEW l \in Link, Close(l) PROVE Placed'
  <2>1. Still
    BY <1>10 DEF Still, Close, Held, tableVars, nodeVars, workerVars, Shape, TypeOK
  <2>2. Born'
    BY <1>10 DEF Close, addVars, nodeVars, Born, Shape, TypeOK
  <2> QED
    BY <1>1, <2>1, <2>2
<1>11. ASSUME NEW l \in Link, LinkDel(l) PROVE Placed'
  <2>1. Still
    BY <1>11 DEF Still, LinkDel, Held, tableVars, nodeVars, workerVars, Shape, TypeOK
  <2>2. Born'
    BY <1>11 DEF LinkDel, addVars, nodeVars, Born, Shape, TypeOK
  <2> QED
    BY <1>1, <2>1, <2>2
<1>12. ASSUME NEW w \in Worker, Take(w) PROVE Placed'
  <2>1. PICK job \in [table : Link, nodes : SUBSET Link], s \in {0, 1} :
            /\ Len(queue) \in Nat \ {0}
            /\ job \in queue[1]
            /\ TakeShifts(job, s)
            /\ list' = [list EXCEPT ![w] = job.nodes]
    BY <1>12, TakeJobs DEF Shape
  <2>2. \A i \in 1 .. Len(queue') : \A j :
            j \in queue'[i] => /\ i + s \in 1 .. Len(queue)
                                /\ j \in queue[i + s]
                                /\ <<i + s, j>> # <<1, job>>
    BY <2>1 DEF TakeShifts
  <2>3. <<1, job>> \in Jobs
    BY <2>1 DEF Jobs
  <2>4. \A j \in Jobs' : j[1] \in Int /\ <<j[1] + s, j[2]>> \in Jobs \ {<<1, job>>} /\ j = <<j[1], j[2]>>
    BY <2>2 DEF Jobs
  <2>5. list[w] = {} /\ at[w] = "idle"
    BY <1>12 DEF Take, Shape, TypeOK
  <2>6. ASSUME NEW k \in Link
        PROVE  InHub(k)' = InHub(k) /\ InHand(k)' = InHand(k) /\ node'[k] = node[k]
    BY <1>12, <2>5 DEF Take, InHub, InHand, Held, tableVars, nodeVars, Shape, TypeOK
  <2>7. ASSUME NEW k \in Link
        PROVE  \A j \in InQueue(k)' : <<j[1] + s, j[2]>> \in InQueue(k) \ {<<1, job>>}
    BY <2>4 DEF InQueue
  <2>8. ASSUME NEW k \in Link, k \in job.nodes PROVE Apart(k)'
    <3>1. <<1, job>> \in InQueue(k)
      BY <2>3, <2>8 DEF InQueue
    <3>2. InHub(k) = {} /\ InQueue(k) = {<<1, job>>} /\ InList(k) = {} /\ InHand(k) = {} /\ node[k] = "linked"
      BY <3>1 DEF Apart, Single
    <3>3. InQueue(k)' = {}
      BY <2>7, <3>2
    <3>4. InList(k)' = {w}
      BY <2>1, <2>8, <3>2 DEF InList, Shape, TypeOK
    <3> QED
      BY <2>6, <3>2, <3>3, <3>4 DEF Apart, Single
  <2>9. ASSUME NEW k \in Link, k \notin job.nodes PROVE Apart(k)'
    <3>1. InList(k)' = InList(k)
      BY <2>1, <2>5, <2>9 DEF InList, Shape, TypeOK
    <3>2. InQueue(k) # {} => InQueue(k)' # {}
      <4>1. ASSUME NEW j \in InQueue(k) PROVE InQueue(k)' # {}
        <5>1. PICK i \in 1 .. Len(queue) : \E x \in queue[i] : j = <<i, x>> /\ k \in x.nodes
          BY DEF InQueue, Jobs
        <5>3. PICK x \in queue[i] : j = <<i, x>> /\ k \in x.nodes
          BY <5>1
        <5>2. <<i - s, x>> \in Jobs' /\ k \in <<i - s, x>>[2].nodes
          <6>1. x # job
            BY <2>9, <5>3
          <6>2. i - s \in 1 .. Len(queue')
            BY <2>1, <5>1, <5>3, <6>1 DEF TakeShifts
          <6>3. x \in queue'[i - s]
            <7>1. (i - s) + s = i /\ (s = 0 => i - s = i)
              BY <2>1, <5>1
            <7> QED
              BY <2>1, <5>1, <5>3, <6>1, <6>2, <7>1 DEF TakeShifts
          <6> QED
            BY <5>3, <6>2, <6>3 DEF Jobs
        <5> QED
          BY <5>2 DEF InQueue
      <4> QED
        BY <4>1
    <3>3. InQueue(k)' # {} => InQueue(k) # {}
      BY <2>7
    <3>4. Single(InQueue(k)')
      <4>1. ASSUME NEW x \in InQueue(k)', NEW y \in InQueue(k)' PROVE x = y
        <5>1. Single(InQueue(k))
          BY DEF Apart
        <5>2. <<x[1] + s, x[2]>> \in InQueue(k) /\ <<y[1] + s, y[2]>> \in InQueue(k)
          BY <2>7
        <5>3. <<x[1] + s, x[2]>> = <<y[1] + s, y[2]>>
          BY <5>1, <5>2 DEF Single
        <5>4. x[1] + s = y[1] + s /\ x[2] = y[2]
          BY <5>3
        <5>5. /\ x[1] \in Int /\ x = <<x[1], x[2]>>
              /\ y[1] \in Int /\ y = <<y[1], y[2]>>
          <6>1. x \in Jobs' /\ y \in Jobs'
            BY DEF InQueue
          <6> QED
            BY <2>4, <6>1
        <5>6. x[1] = y[1]
          BY <2>1, <5>4, <5>5
        <5> QED
          BY <5>4, <5>5, <5>6
      <4> QED
        BY <4>1 DEF Single
    <3> QED
      BY <2>6, <3>1, <3>2, <3>3, <3>4 DEF Apart
  <2>10. Born'
    BY <1>12 DEF Take, addVars, nodeVars, Born
  <2> QED
    BY <2>8, <2>9, <2>10
<1>13. ASSUME NEW w \in Worker, PutBack(w) PROVE Placed'
  <2>0. PICK t \in Link : t = newest[pos[w]]
    BY <1>13 DEF PutBack, Shape, Works
  <2>1. /\ \A u \in Link : hub'[u] = IF u = t THEN hub[u] \union list[w] ELSE hub[u]
        /\ \A v \in Worker : list'[v] = IF v = w THEN {} ELSE list[v]
    BY <1>13, <2>0 DEF PutBack, Shape, TypeOK
  <2>2. ASSUME NEW k \in Link
        PROVE  InQueue(k)' = InQueue(k) /\ InHand(k)' = InHand(k) /\ node'[k] = node[k]
    BY <1>13 DEF PutBack, InQueue, Jobs, InHand, Held, nodeVars, Shape, TypeOK
  <2>3. ASSUME NEW k \in Link, k \notin list[w] PROVE Apart(k)'
    <3>1. InHub(k)' = InHub(k)
      BY <2>1, <2>3 DEF InHub
    <3>2. InList(k)' = InList(k)
      BY <2>1, <2>3 DEF InList
    <3> QED
      BY <2>2, <3>1, <3>2, StaysApart DEF Stays
  <2>4. ASSUME NEW k \in Link, k \in list[w] PROVE Apart(k)'
    <3>1. w \in InList(k)
      BY <2>4 DEF InList
    <3>2. InHub(k) = {} /\ InQueue(k) = {} /\ InList(k) = {w} /\ InHand(k) = {} /\ node[k] = "linked"
      BY <3>1 DEF Apart, Single
    <3>3. InList(k)' = {}
      BY <2>1, <3>2 DEF InList
    <3>4. InHub(k)' = {t}
      BY <2>1, <2>4, <3>2 DEF InHub
    <3> QED
      BY <2>2, <3>2, <3>3, <3>4 DEF Apart, Single
  <2>5. Born'
    BY <1>13 DEF PutBack, addVars, nodeVars, Born
  <2> QED
    BY <2>3, <2>4, <2>5
<1>14. ASSUME NEW w \in Worker, NEW l \in Link, VisitCleared(w, l) PROVE Placed'
  <2>1. l \in list[w] /\ w \in InList(l)
    BY <1>14 DEF VisitCleared, Shape, Works, InList
  <2>2. ASSUME NEW k \in Link, k # l PROVE Stays(k)
    <3>1. InList(k)' = InList(k)
      BY <1>14, <2>2 DEF VisitCleared, InList, Shape, TypeOK
    <3> QED
      BY <1>14, <2>2, <3>1 DEF VisitCleared, Stays, InHub, InQueue, InHand, Jobs, Held,
         tableVars, Shape, TypeOK
  <2>3. InHub(l) = {} /\ InQueue(l) = {} /\ InList(l) = {w} /\ InHand(l) = {} /\ node[l] = "linked"
    BY <2>1 DEF Apart, Single
  <2>4. InHub(l)' = {} /\ InQueue(l)' = {} /\ InList(l)' = {} /\ InHand(l)' = {} /\ node'[l] = "freed"
    <3>1. InList(l)' = {}
      BY <1>14, <2>3 DEF VisitCleared, InList, Shape, TypeOK
    <3> QED
      BY <1>14, <2>3, <3>1 DEF VisitCleared, InHub, InQueue, InHand, Jobs, Held, tableVars,
         Shape, TypeOK
  <2>5. Apart(l)'
    BY <2>4 DEF Apart, Single
  <2>6. Born'
    BY <1>14, <2>3 DEF VisitCleared, addVars, Born, Shape, TypeOK
  <2> QED
    BY <2>2, <2>5, <2>6, StaysApart
<1>15. ASSUME NEW w \in Worker, NEW l \in Link, Call(w, l) PROVE Placed'
  <2>1. Still
    BY <1>15 DEF Still, Call, Held, tableVars, nodeVars, workerVars, Shape, TypeOK
  <2>2. Born'
    BY <1>15 DEF Call, addVars, nodeVars, Born, Shape, TypeOK
  <2> QED
    BY <1>1, <2>1, <2>2
<1>16. ASSUME NEW w \in Worker, CallOk(w) PROVE Placed'
  <2>1. Still
    BY <1>16 DEF Still, CallOk, Held, tableVars, nodeVars, workerVars, Shape, TypeOK
  <2>2. Born'
    BY <1>16 DEF CallOk, addVars, nodeVars, Born, Shape, TypeOK
  <2> QED
    BY <1>1, <2>1, <2>2
<1>17. ASSUME NEW w \in Worker, CallFailed(w) PROVE Placed'
  <2>0. PICK c \in Link : c = cur[w]
    BY <1>17 DEF CallFailed, Shape, Works
  <2>1. c \in list[w] /\ w \in InList(c)
    BY <1>17, <2>0 DEF CallFailed, Shape, Works, InList
  <2>2. ASSUME NEW k \in Link, k # c PROVE Stays(k)
    <3>1. InList(k)' = InList(k)
      BY <1>17, <2>0, <2>2 DEF CallFailed, InList, Shape, TypeOK
    <3>2. InHand(k)' = InHand(k)
      BY <1>17, <2>0, <2>2 DEF CallFailed, InHand, Held, Shape, TypeOK
    <3> QED
      BY <1>17, <2>0, <2>2, <3>1, <3>2 DEF CallFailed, Stays, InHub, InQueue, Jobs,
         tableVars, nodeVars
  <2>3. InHub(c) = {} /\ InQueue(c) = {} /\ InList(c) = {w} /\ InHand(c) = {} /\ node[c] = "linked"
    BY <2>1 DEF Apart, Single
  <2>4. InHub(c)' = {} /\ InQueue(c)' = {} /\ InList(c)' = {} /\ InHand(c)' = {w} /\ node'[c] = "linked"
    <3>1. InList(c)' = {}
      BY <1>17, <2>0, <2>3 DEF CallFailed, InList, Shape, TypeOK
    <3>2. InHand(c)' = {w}
      BY <1>17, <2>0, <2>3 DEF CallFailed, InHand, Held, Shape, TypeOK
    <3> QED
      BY <1>17, <2>0, <2>3, <3>1, <3>2 DEF CallFailed, InHub, InQueue, Jobs, tableVars,
         nodeVars
  <2>5. Apart(c)'
    BY <2>4 DEF Apart, Single
  <2>6. Born'
    BY <1>17, <2>0 DEF CallFailed, addVars, nodeVars, Born
  <2> QED
    BY <2>2, <2>5, <2>6, StaysApart
<1>18. ASSUME NEW w \in Worker, CloseFailed(w) PROVE Placed'
  <2>1. Still
    BY <1>18 DEF Still, CloseFailed, Held, tableVars, nodeVars, workerVars, Shape, TypeOK
  <2>2. Born'
    BY <1>18 DEF CloseFailed, addVars, nodeVars, Born, Shape, TypeOK
  <2> QED
    BY <1>1, <2>1, <2>2
<1>19. ASSUME NEW w \in Worker, FreeFailed(w) PROVE Placed'
  <2>0. PICK c \in Link : c = cur[w]
    BY <1>19 DEF FreeFailed, Shape, Works
  <2>1. w \in InHand(c)
    BY <1>19, <2>0 DEF FreeFailed, Shape, Works, InHand, Held
  <2>2. ASSUME NEW k \in Link, k # c PROVE Stays(k)
    <3>1. InHand(k)' = InHand(k)
      BY <1>19, <2>0, <2>2 DEF FreeFailed, InHand, Held, Shape, TypeOK
    <3> QED
      BY <1>19, <2>0, <2>2, <3>1 DEF FreeFailed, Stays, InHub, InQueue, InList, Jobs,
         tableVars, Shape, TypeOK
  <2>3. InHub(c) = {} /\ InQueue(c) = {} /\ InList(c) = {} /\ InHand(c) = {w} /\ node[c] = "linked"
    BY <2>1 DEF Apart, Single
  <2>4. InHub(c)' = {} /\ InQueue(c)' = {} /\ InList(c)' = {} /\ InHand(c)' = {} /\ node'[c] = "freed"
    <3>1. InHand(c)' = {}
      BY <1>19, <2>0, <2>3 DEF FreeFailed, InHand, Held, Shape, TypeOK
    <3> QED
      BY <1>19, <2>0, <2>1, <2>3, <3>1 DEF FreeFailed, InHub, InQueue, InList, Jobs,
         tableVars, Shape, TypeOK
  <2>5. Apart(c)'
    BY <2>4 DEF Apart, Single
  <2>6. Born'
    BY <1>19, <2>0, <2>3 DEF FreeFailed, addVars, Born, Shape, TypeOK
  <2> QED
    BY <2>2, <2>5, <2>6, StaysApart
<1>20. ASSUME Tick PROVE Placed'
  <2>1. Still
    BY <1>20 DEF Still, Tick, Held, tableVars, nodeVars, workerVars, Shape, TypeOK
  <2>2. Born'
    BY <1>20 DEF Tick, addVars, nodeVars, Born, Shape, TypeOK
  <2> QED
    BY <1>1, <2>1, <2>2
<1>21. ASSUME Second PROVE Placed'
  <2>1. Still
    BY <1>21 DEF Still, Second, Held, tableVars, nodeVars, workerVars
  <2>2. Born'
    BY <1>21 DEF Second, addVars, nodeVars, Born
  <2> QED
    BY <1>1, <2>1, <2>2
<1>22. CASE UNCHANGED vars
  <2>1. Still
    BY <1>22 DEF Still, vars, Held, tableVars, nodeVars, workerVars
  <2>2. Born'
    BY <1>22 DEF vars, addVars, nodeVars, Born
  <2> QED
    BY <1>1, <2>1, <2>2
<1> QED
  BY <1>2, <1>3, <1>4, <1>5, <1>6, <1>7, <1>8, <1>9, <1>10, <1>11, <1>12, <1>13, <1>14,
     <1>15, <1>16, <1>17, <1>18, <1>19, <1>20, <1>21, <1>22 DEF Next, AddStep, WorkStep

-----------------------------------------------------------------------------
(* What a node says of its link: it is cleared by the one who closes the   *)
(* link, unless the link was closed before it had a node; and a node that  *)
(* is being given up, or has been, is of a link somebody has closed.       *)
Flags ==
    /\ \A l \in Link :
           /\ node[l] # "none" /\ ~live[l] => closing[l] = "closed"
           /\ live[l] => closing[l] # "closed"
           /\ node[l] = "none" => ~live[l] /\ closing[l] # "closed"
           /\ node[l] = "freed" => closing[l] # "open"
    /\ \A w \in Worker : at[w] = "free" => closing[cur[w]] # "open"
    /\ FreedUntouched /\ CalledWhileOpen

LEMMA FlagsInit == Init => Flags
BY DEF Init, Flags, FreedUntouched, CalledWhileOpen, Locked

(* A node a pool thread will free is in no list, and no harbour function   *)
(* is running for its link.                                                *)
LEMMA HandedIsAlone ==
    ASSUME Shape, Placed, NEW w \in Worker, at[w] \in {"close", "free"}
    PROVE  /\ cur[w] \in Link
           /\ node[cur[w]] = "linked"
           /\ ~Locked(cur[w])
           /\ \A v \in Worker : Held(v, cur[w]) => v = w
<1>1. PICK c \in Link : c = cur[w]
  BY DEF Shape, Works
<1>2. w \in InHand(c)
  BY <1>1 DEF InHand, Held
<1>3. InList(c) = {} /\ InHand(c) = {w} /\ node[c] = "linked"
  BY <1>2 DEF Placed, Apart, Single
<1>4. ~Locked(c)
  BY <1>3 DEF Locked, InList, Shape, Works
<1>5. \A v \in Worker : Held(v, c) => v = w
  BY <1>3 DEF InHand
<1> QED
  BY <1>1, <1>3, <1>4, <1>5

(* And one it looks at is there.                                           *)
LEMMA ListedIsThere ==
    ASSUME Shape, Placed, NEW w \in Worker, NEW l \in Link, l \in list[w]
    PROVE  /\ node[l] = "linked"
           /\ \A v \in Worker : ~Held(v, l)
           /\ \A v \in Worker : l \in list[v] => v = w
<1>1. w \in InList(l)
  BY DEF InList
<1>2. InList(l) = {w} /\ InHand(l) = {} /\ node[l] = "linked"
  BY <1>1 DEF Placed, Apart, Single
<1> QED
  BY <1>2 DEF InList, InHand

LEMMA FlagsStep == Shape /\ Placed /\ Shape' /\ Flags /\ [Next]_vars => Flags'
<1> SUFFICES ASSUME Shape, Placed, Shape', Flags, [Next]_vars PROVE Flags'
  OBVIOUS
<1> USE DEF Flags, FreedUntouched, CalledWhileOpen
<1>1. ASSUME NEW l \in Link, AddInterval(l) PROVE Flags'
  BY <1>1 DEF AddInterval, Locked, nodeVars, workerVars, Shape, TypeOK, Works
<1>2. ASSUME NEW l \in Link, AddFind(l) PROVE Flags'
  BY <1>2 DEF AddFind, Locked, nodeVars, workerVars, Shape, TypeOK, Works
<1>3. ASSUME NEW l \in Link, AddTable(l) PROVE Flags'
  BY <1>3 DEF AddTable, Locked, nodeVars, workerVars, Shape, TypeOK, Works
<1>4. ASSUME NEW l \in Link, AddNode(l) PROVE Flags'
  <2>1. node[l] = "none"
    BY <1>4 DEF AddNode, Placed, Born
  <2> QED
    BY <1>4, <2>1 DEF AddNode, Locked, nodeVars, workerVars, Shape, TypeOK
<1>5. ASSUME NEW l \in Link, AddTest(l) PROVE Flags'
  BY <1>5 DEF AddTest, Locked, nodeVars, workerVars, Shape, TypeOK, Works
<1>6. ASSUME NEW l \in Link, AddTimer(l) PROVE Flags'
  BY <1>6 DEF AddTimer, Locked, nodeVars, workerVars, Shape, TypeOK, Works
<1>7. ASSUME NEW l \in Link, Fire(l) PROVE Flags'
  BY <1>7 DEF Fire, Locked, nodeVars, workerVars, Shape, TypeOK, Works
<1>8. ASSUME NEW l \in Link, FireEmpty(l) PROVE Flags'
  BY <1>8 DEF FireEmpty, Locked, nodeVars, workerVars, Shape, TypeOK, Works
<1>9. ASSUME NEW l \in Link, Close(l) PROVE Flags'
  BY <1>9 DEF Close, Locked, nodeVars, workerVars, Shape, TypeOK, Works
<1>10. ASSUME NEW l \in Link, LinkDel(l) PROVE Flags'
  BY <1>10 DEF LinkDel, Locked, nodeVars, workerVars, Shape, TypeOK, Works
<1>11. ASSUME NEW w \in Worker, Take(w) PROVE Flags'
  BY <1>11 DEF Take, Locked, nodeVars, workerVars, Shape, TypeOK, Works
<1>12. ASSUME NEW w \in Worker, PutBack(w) PROVE Flags'
  BY <1>12 DEF PutBack, Locked, nodeVars, workerVars, Shape, TypeOK, Works
<1>13. ASSUME NEW w \in Worker, NEW l \in Link, VisitCleared(w, l) PROVE Flags'
  <2>1. node[l] = "linked" /\ ~live[l]
    BY <1>13, ListedIsThere DEF VisitCleared, Shape, Works
  <2>2. closing[l] = "closed"
    BY <2>1
  <2>3. \A k \in Link : node'[k] = IF k = l THEN "freed" ELSE node[k]
    BY <1>13 DEF VisitCleared, Shape, TypeOK
  <2> QED
    BY <1>13, <2>1, <2>2, <2>3 DEF VisitCleared, Locked
<1>14. ASSUME NEW w \in Worker, NEW l \in Link, Call(w, l) PROVE Flags'
  <2>1. node[l] = "linked" /\ live[l]
    BY <1>14, ListedIsThere DEF Call, Shape, Works
  <2>2. \A v \in Worker : at'[v] = (IF v = w THEN "call" ELSE at[v])
                            /\ cur'[v] = (IF v = w THEN l ELSE cur[v])
    BY <1>14 DEF Call, Shape, TypeOK
  <2> QED
    BY <1>14, <2>1, <2>2 DEF Call, Locked, nodeVars
<1>15. ASSUME NEW w \in Worker, CallOk(w) PROVE Flags'
  BY <1>15 DEF CallOk, Locked, nodeVars, workerVars, Shape, TypeOK, Works
<1>16. ASSUME NEW w \in Worker, CallFailed(w) PROVE Flags'
  BY <1>16 DEF CallFailed, Locked, nodeVars, workerVars, Shape, TypeOK, Works
<1>17. ASSUME NEW w \in Worker, CloseFailed(w) PROVE Flags'
  <2>1. PICK c \in Link : c = cur[w]
    BY <1>17 DEF CloseFailed, Shape, Works
  <2>2. node[c] = "linked" /\ ~Locked(c) /\ \A v \in Worker : Held(v, c) => v = w
    BY <1>17, <2>1, HandedIsAlone DEF CloseFailed
  <2>3. /\ \A l \in Link : l # c => closing'[l] = closing[l] /\ live'[l] = live[l]
        /\ closing'[c] = IF closing[c] = "open" THEN "closed" ELSE closing[c]
        /\ live'[c] = (live[c] /\ closing[c] # "open")
        /\ node' = node /\ failed' = failed /\ cur' = cur
    BY <1>17, <2>1 DEF CloseFailed, Shape, TypeOK
  <2>4. \A v \in Worker : at'[v] = IF v = w THEN "free" ELSE at[v]
    BY <1>17 DEF CloseFailed, Shape, TypeOK
  <2>5. \A v \in Worker : at'[v] = "free" => closing'[cur'[v]] # "open"
    BY <2>1, <2>2, <2>3, <2>4 DEF Held, Shape, Works
  <2>6. CalledWhileOpen'
    BY <2>2, <2>3, <2>4 DEF Locked
  <2>7. FreedUntouched'
    BY <2>2, <2>3
  <2> QED
    BY <2>2, <2>3, <2>5, <2>6, <2>7
<1>18. ASSUME NEW w \in Worker, FreeFailed(w) PROVE Flags'
  <2>1. /\ cur[w] \in Link /\ node[cur[w]] = "linked" /\ ~Locked(cur[w]) /\ cur[w] \in failed
        /\ \A v \in Worker : Held(v, cur[w]) => v = w
    BY <1>18, HandedIsAlone DEF FreeFailed, Shape, Works
  <2> QED
    BY <1>18, <2>1 DEF FreeFailed, Locked, Held, nodeVars, Shape, TypeOK, Works
<1>19. ASSUME Tick PROVE Flags'
  BY <1>19 DEF Tick, Locked, nodeVars, workerVars, Shape, TypeOK, Works
<1>20. ASSUME Second PROVE Flags'
  BY <1>20 DEF Second, Locked, nodeVars, workerVars
<1>21. CASE UNCHANGED vars
  BY <1>21 DEF vars, Locked, nodeVars, workerVars
<1> QED
  BY <1>1, <1>2, <1>3, <1>4, <1>5, <1>6, <1>7, <1>8, <1>9, <1>10, <1>11, <1>12, <1>13,
     <1>14, <1>15, <1>16, <1>17, <1>18, <1>19, <1>20, <1>21 DEF Next, AddStep, WorkStep

-----------------------------------------------------------------------------
(* As long as no two links were being added at the same time, whoever is   *)
(* about to make a table or a timer is the only one to make it.            *)
Alone ==
    ~overlap =>
        /\ \A k, l \in Link : Adding(k) /\ Adding(l) => k = l
        /\ \A t \in made : newest[interval[t]] = t
        /\ \A l \in Link : stage[l] = "table" => newest[interval[l]] = NoLink
        /\ \A l \in Link : left[l] # NoTimer => stage[l] = "done" /\ Id(l) \in timed
        /\ \A l \in Link : stage[l] = "timer" => Id(l) \notin timed
        /\ \A k, l \in Link : left[k] # NoTimer /\ left[l] # NoTimer /\ Id(k) = Id(l) => k = l

LEMMA AloneInit == Init => Alone
BY DEF Init, Alone, Adding

LEMMA AloneMeans == Shape /\ Alone => OneOfEach
BY DEF Alone, OneOfEach

(* A slot's number depends on the link's interval only.                    *)
LEMMA SameId ==
    ASSUME NEW l \in Link, interval'[l] = interval[l]
    PROVE  Id(l)' = Id(l)
BY DEF Id

LEMMA AloneStep == Shape /\ Alone /\ [Next]_vars => Alone'
<1> SUFFICES ASSUME Shape, Alone, [Next]_vars, ~overlap' PROVE Alone'
  BY DEF Alone
<1> USE HubAssumption
<1>1. ~overlap
  BY DEF Next, AddInterval, AddStep, AddFind, AddTable, AddNode, AddTest, AddTimer, Tick, Second,
     Fire, FireEmpty, Close, LinkDel, WorkStep, Take, PutBack, VisitCleared, Call, CallOk, CallFailed,
     CloseFailed, FreeFailed, vars
<1> DEFINE Still == made' = made /\ newest' = newest /\ interval' = interval /\ stage' = stage /\ timed' = timed
<1>2. ASSUME Still, \A k \in Link : left'[k] # NoTimer => left[k] # NoTimer PROVE Alone'
  <2>1. \A k \in Link : Id(k)' = Id(k)
    BY <1>2 DEF Id
  <2> QED
    BY <1>1, <1>2, <2>1 DEF Alone, Adding
<1>3. ASSUME NEW l \in Link, AddInterval(l) PROVE Alone'
  <2>1. \A k \in Link : ~Adding(k)
    BY <1>3 DEF AddInterval
  <2>2. stage[l] = "out" /\ l \notin made /\ left[l] = NoTimer
    BY <1>1, <1>3 DEF AddInterval, Shape, Stages, Alone
  <2>3. /\ \A k \in Link : k # l => stage'[k] = stage[k] /\ interval'[k] = interval[k]
        /\ stage'[l] = "find" /\ made' = made /\ newest' = newest /\ timed' = timed /\ left' = left
    BY <1>3 DEF AddInterval, tableVars, timerVars, Shape, TypeOK
  <2>4. \A k \in Link : k # l => Id(k)' = Id(k)
    BY <2>3, SameId
  <2>5. made \subseteq Link
    BY DEF Shape, TypeOK
  <2> QED
    BY <1>1, <2>1, <2>2, <2>3, <2>4, <2>5 DEF Alone, Adding
<1>4. ASSUME NEW l \in Link, AddFind(l) PROVE Alone'
  <2>1. stage[l] = "find" /\ interval' = interval
    BY <1>4 DEF AddFind
  <2>2. \A k \in Link : k # l => ~Adding(k)
    BY <1>1, <2>1 DEF Alone, Adding
  <2>5. \A k \in Link : k # l => stage'[k] = stage[k]
    BY <1>4 DEF AddFind, Found, Missing, Shape, TypeOK
  <2>6. /\ stage'[l] \in {"node", "table"} /\ made' = made /\ newest' = newest /\ timed' = timed /\ left' = left
        /\ stage'[l] = "table" => newest[interval[l]] = NoLink
    BY <1>4 DEF AddFind, Found, Missing, tableVars, timerVars, Shape, Stages, TypeOK
  <2>3. \A k \in Link : Id(k)' = Id(k)
    BY <2>1, SameId
  <2>4. made \subseteq Link /\ \A t \in made : interval[t] \in Intervals
    BY DEF Shape, TypeOK, Stages
  <2> QED
    BY <1>1, <2>1, <2>2, <2>3, <2>4, <2>5, <2>6 DEF Alone, Adding
<1>5. ASSUME NEW l \in Link, AddTable(l) PROVE Alone'
  <2>1. stage[l] = "table" /\ interval' = interval
    BY <1>5 DEF AddTable
  <2>2. \A k \in Link : k # l => ~Adding(k)
    BY <1>1, <2>1 DEF Alone, Adding
  <2>5. \A k \in Link : k # l => stage'[k] = stage[k]
    BY <1>5 DEF AddTable, Shape, TypeOK
  <2>6. /\ stage'[l] = "node" /\ made' = made \union {l} /\ timed' = timed /\ left' = left
        /\ interval[l] \in Intervals
        /\ \A i \in Intervals : newest'[i] = IF i = interval[l] THEN l ELSE newest[i]
    BY <1>5 DEF AddTable, tableVars, timerVars, Shape, Stages, TypeOK
  <2>3. \A k \in Link : Id(k)' = Id(k)
    BY <2>1, SameId
  <2>4. made \subseteq Link /\ \A t \in made : interval[t] \in Intervals
    BY DEF Shape, TypeOK, Stages
  <2> QED
    BY <1>1, <2>1, <2>2, <2>3, <2>4, <2>5, <2>6 DEF Alone, Adding
<1>6. ASSUME NEW l \in Link, AddNode(l) PROVE Alone'
  <2>1. stage[l] = "node" /\ interval' = interval
    BY <1>6 DEF AddNode
  <2>2. \A k \in Link : k # l => ~Adding(k)
    BY <1>1, <2>1 DEF Alone, Adding
  <2>5. \A k \in Link : k # l => stage'[k] = stage[k]
    BY <1>6 DEF AddNode, Shape, TypeOK
  <2>6. /\ stage'[l] = "test" /\ made' = made /\ newest' = newest /\ timed' = timed /\ left' = left
    BY <1>6 DEF AddNode, tableVars, timerVars, Shape, Stages, TypeOK
  <2>3. \A k \in Link : Id(k)' = Id(k)
    BY <2>1, SameId
  <2>4. made \subseteq Link /\ \A t \in made : interval[t] \in Intervals
    BY DEF Shape, TypeOK, Stages
  <2> QED
    BY <1>1, <2>1, <2>2, <2>3, <2>4, <2>5, <2>6 DEF Alone, Adding
<1>7. ASSUME NEW l \in Link, AddTest(l) PROVE Alone'
  <2>1. stage[l] = "test" /\ interval' = interval
    BY <1>7 DEF AddTest
  <2>2. \A k \in Link : k # l => ~Adding(k)
    BY <1>1, <2>1 DEF Alone, Adding
  <2>5. \A k \in Link : k # l => stage'[k] = stage[k]
    BY <1>7 DEF AddTest, Shape, TypeOK
  <2>6. /\ stage'[l] \in {"done", "timer"} /\ made' = made /\ newest' = newest /\ timed' = timed /\ left' = left
        /\ stage'[l] = "timer" => Id(l) \notin timed
    BY <1>7 DEF AddTest, tableVars, timerVars, Shape, Stages, TypeOK
  <2>3. \A k \in Link : Id(k)' = Id(k)
    BY <2>1, SameId
  <2>4. made \subseteq Link /\ \A t \in made : interval[t] \in Intervals
    BY DEF Shape, TypeOK, Stages
  <2> QED
    BY <1>1, <2>1, <2>2, <2>3, <2>4, <2>5, <2>6 DEF Alone, Adding
<1>8. ASSUME NEW l \in Link, AddTimer(l) PROVE Alone'
  <2>1. stage[l] = "timer" /\ interval' = interval
    BY <1>8 DEF AddTimer
  <2>2. \A k \in Link : k # l => ~Adding(k)
    BY <1>1, <2>1 DEF Alone, Adding
  <2>5. \A k \in Link : k # l => stage'[k] = stage[k]
    BY <1>8 DEF AddTimer, Shape, TypeOK
  <2>6. /\ stage'[l] = "done" /\ made' = made /\ newest' = newest /\ timed' = timed \union {Id(l)}
        /\ \A k \in Link : k # l => left'[k] = left[k]
    BY <1>8 DEF AddTimer, tableVars, timerVars, Shape, Stages, TypeOK
  <2>3. \A k \in Link : Id(k)' = Id(k)
    BY <2>1, SameId
  <2>4. made \subseteq Link /\ \A t \in made : interval[t] \in Intervals
    BY DEF Shape, TypeOK, Stages
  <2> QED
    BY <1>1, <2>1, <2>2, <2>3, <2>4, <2>5, <2>6 DEF Alone, Adding
<1>9. ASSUME NEW l \in Link, Fire(l) PROVE Alone'
  <2>1. \A k \in Link : left'[k] # NoTimer => left[k] # NoTimer
    BY <1>9 DEF Fire, NoTimer, Shape, TypeOK
  <2> QED
    BY <1>2, <1>9, <2>1 DEF Fire, addVars, tableVars
<1>10. ASSUME NEW l \in Link, FireEmpty(l) PROVE Alone'
  <2>1. \A k \in Link : left'[k] # NoTimer => left[k] # NoTimer
    BY <1>10 DEF FireEmpty, NoTimer, Shape, TypeOK
  <2> QED
    BY <1>2, <1>10, <2>1 DEF FireEmpty, addVars, tableVars
<1>11. ASSUME NEW l \in Link, Close(l) PROVE Alone'
  BY <1>2, <1>11 DEF Close, addVars, tableVars, timerVars
<1>12. ASSUME NEW l \in Link, LinkDel(l) PROVE Alone'
  BY <1>2, <1>12 DEF LinkDel, addVars, tableVars, timerVars
<1>13. ASSUME NEW w \in Worker, Take(w) PROVE Alone'
  BY <1>2, <1>13 DEF Take, addVars, tableVars, timerVars
<1>14. ASSUME NEW w \in Worker, PutBack(w) PROVE Alone'
  BY <1>2, <1>14 DEF PutBack, addVars, tableVars, timerVars
<1>15. ASSUME NEW w \in Worker, NEW l \in Link, VisitCleared(w, l) PROVE Alone'
  BY <1>2, <1>15 DEF VisitCleared, addVars, tableVars, timerVars
<1>16. ASSUME NEW w \in Worker, NEW l \in Link, Call(w, l) PROVE Alone'
  BY <1>2, <1>16 DEF Call, addVars, tableVars, timerVars
<1>17. ASSUME NEW w \in Worker, CallOk(w) PROVE Alone'
  BY <1>2, <1>17 DEF CallOk, addVars, tableVars, timerVars
<1>18. ASSUME NEW w \in Worker, CallFailed(w) PROVE Alone'
  BY <1>2, <1>18 DEF CallFailed, addVars, tableVars, timerVars
<1>19. ASSUME NEW w \in Worker, CloseFailed(w) PROVE Alone'
  BY <1>2, <1>19 DEF CloseFailed, addVars, tableVars, timerVars
<1>20. ASSUME NEW w \in Worker, FreeFailed(w) PROVE Alone'
  BY <1>2, <1>20 DEF FreeFailed, addVars, tableVars, timerVars
<1>21. ASSUME Tick PROVE Alone'
  <2>1. \A k \in Link : left'[k] # NoTimer => left[k] # NoTimer
    BY <1>21 DEF Tick, NoTimer, Shape, TypeOK
  <2> QED
    BY <1>2, <1>21, <2>1 DEF Tick, addVars, tableVars
<1>22. ASSUME Second PROVE Alone'
  BY <1>2, <1>22 DEF Second, addVars, tableVars, timerVars
<1>23. CASE UNCHANGED vars
  BY <1>2, <1>23 DEF vars, addVars, tableVars, timerVars
<1> QED
  BY <1>3, <1>4, <1>5, <1>6, <1>7, <1>8, <1>9, <1>10, <1>11, <1>12, <1>13, <1>14, <1>15,
     <1>16, <1>17, <1>18, <1>19, <1>20, <1>21, <1>22, <1>23 DEF Next, AddStep, WorkStep

-----------------------------------------------------------------------------
Inv == Shape /\ Placed /\ Flags /\ Alone

THEOREM Invariance == Spec => []Inv
<1>1. Init => Inv
  BY ShapeInit, PlacedInit, FlagsInit, AloneInit DEF Inv
<1>2. Inv /\ [Next]_vars => Inv'
  BY ShapeStep, PlacedStep, FlagsStep, AloneStep DEF Inv
<1> QED
  BY <1>1, <1>2, PTL DEF Spec

(* The type invariant, for any number of links and pool threads and for    *)
(* any interval: tc_hash_hub.c keeps its tables, lists and slots in shape. *)
THEOREM TypeCorrect == Spec => []TypeOK
<1>1. Inv => TypeOK
  BY DEF Inv, Shape
<1> QED
  BY <1>1, Invariance, PTL

(* A node is spliced from one list to the next and is never in two: the    *)
(* table's, that of the timer's call, that of the pool thread.             *)
THEOREM PlaceCorrect == Spec => []NodeInOnePlace
<1>1. Inv => NodeInOnePlace
  BY PlacedMeans DEF Inv
<1> QED
  BY <1>1, Invariance, PTL

(* A node is freed under the one who closes its link only if its harbour   *)
(* function failed.                                                        *)
THEOREM FreeCorrect == Spec => []FreedUntouched
<1>1. Inv => FreedUntouched
  BY DEF Inv, Flags
<1> QED
  BY <1>1, Invariance, PTL

(* No harbour function runs for a link after tc_hash_hub_link_del cleared  *)
(* its node.                                                               *)
THEOREM CallCorrect == Spec => []CalledWhileOpen
<1>1. Inv => CalledWhileOpen
  BY DEF Inv, Flags
<1> QED
  BY <1>1, Invariance, PTL

(* One table for an interval and one timer for a slot, as long as no two   *)
(* links are added at the same time.                                       *)
THEOREM AddCorrect == Spec => []OneOfEach
<1>1. Inv => OneOfEach
  BY AloneMeans DEF Inv
<1> QED
  BY <1>1, Invariance, PTL
=============================================================================

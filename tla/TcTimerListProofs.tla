------------------------- MODULE TcTimerListProofs -------------------------
(* What holds of the timer lists for any number of links and batches.      *)
EXTENDS TcTimerList, TcListLemmas

(* The flag of an adder is set while it chooses, and kept until it created *)
(* the timer; nobody adds after the end.                                   *)
AdderShape ==
    \A l \in Link :
        /\ adder[l] \in {"out", "choose"} => ~closer[l]
        /\ adder[l] = "timer" => closer[l]
        /\ closed => adder[l] \in {"out", "done"}

(* Only a batch with a timer is walked over, and none after the end.       *)
WalkShape ==
    \A b \in Batch :
        /\ check[b] # "idle" => stage[b] = "timed"
        /\ closed => check[b] = "idle"

Shape == AdderShape /\ WalkShape /\ OneTimer

-----------------------------------------------------------------------------
LEMMA DropTypes ==
    ASSUME TypeOK, NEW b \in Batch, todo[b] # <<>>, Drop(b)
    PROVE  /\ entries' \in [Batch -> Seq(Link)]
           /\ todo' \in [Batch -> Seq(Link)]
           /\ entry' \in [Link -> {"none", "held", "linked", "freed"}]
<1>1. entries[b] \in Seq(Link) /\ todo[b] \in Seq(Link)
  BY DEF TypeOK
<1>2. /\ Head(todo[b]) \in Link
      /\ Tail(todo[b]) \in Seq(Link)
      /\ Delete(entries[b], Head(todo[b])) \in Seq(Link)
  BY <1>1, PopElements, DeleteElements
<1> QED
  BY <1>2 DEF TypeOK, Drop

LEMMA TypeInit == Init => TypeOK
<1> SUFFICES ASSUME Init
             PROVE  TypeOK
  OBVIOUS
<1>1. <<>> \in Seq(Link)
  BY EmptySeq
<1>2. entries \in [Batch -> Seq(Link)] /\ todo \in [Batch -> Seq(Link)]
  BY <1>1 DEF Init
<1>3. closer \in [Link -> BOOLEAN] /\ live \in [Link -> BOOLEAN]
  BY DEF Init
<1>4. /\ current \in Batch \cup {NoBatch}
      /\ stage \in [Batch -> {"none", "open", "owed", "timed", "freed"}]
      /\ count \in [Batch -> Int] /\ cleared \in [Batch -> Nat]
      /\ check \in [Batch -> {"idle", "read", "call", "free"}]
      /\ \A b \in Batch : check[b] # "call"
  BY DEF Init
<1>5. /\ adder \in [Link -> {"out", "choose", "link", "timer", "done"}]
      /\ \A l \in Link : adder[l] = "out"
      /\ parent \in [Link -> Batch \cup {NoBatch}]
      /\ entry \in [Link -> {"none", "held", "linked", "freed"}]
  BY DEF Init
<1>6. aged \in BOOLEAN /\ closed \in BOOLEAN
  BY DEF Init
<1> QED
  BY <1>2, <1>3, <1>4, <1>5, <1>6 DEF TypeOK

LEMMA TypeStep == TypeOK /\ [Next]_vars => TypeOK'
<1> SUFFICES ASSUME TypeOK, [Next]_vars
             PROVE  TypeOK'
  OBVIOUS
<1> USE DEF TypeOK, batchVars, checkVars, addVars
<1>1. ASSUME NEW l \in Link, AddAlloc(l)
      PROVE  TypeOK'
  BY <1>1 DEF AddAlloc
<1>2. ASSUME NEW l \in Link, AddChoose(l)
      PROVE  TypeOK'
  <2>1. PICK b \in Batch : Open(l, b) \/ Join(l, b)
    BY <1>2 DEF AddChoose
  <2>2. CASE Open(l, b)
    BY <1>2, <2>2 DEF AddChoose, Open
  <2>3. CASE Join(l, b)
    BY <1>2, <2>3 DEF AddChoose, Join
  <2> QED
    BY <2>1, <2>2, <2>3
<1>3. ASSUME NEW l \in Link, AddLink(l)
      PROVE  TypeOK'
  <2>1. parent[l] \in Batch
    BY <1>3 DEF AddLink
  <2>2. Append(entries[parent[l]], l) \in Seq(Link)
    BY <2>1, AppendElements
  <2> QED
    BY <1>3, <2>1, <2>2 DEF AddLink
<1>4. ASSUME NEW l \in Link, AddTimer(l)
      PROVE  TypeOK'
  BY <1>4 DEF AddTimer
<1>5. ASSUME Age \/ End
      PROVE  TypeOK'
  BY <1>5 DEF Age, End
<1>6. ASSUME NEW l \in Link, Del(l)
      PROVE  TypeOK'
  BY <1>6 DEF Del
<1>7. ASSUME NEW b \in Batch, CheckStart(b)
      PROVE  TypeOK'
  BY <1>7 DEF CheckStart
<1>8. ASSUME NEW b \in Batch, CheckCleared(b)
      PROVE  TypeOK'
  <2>1. /\ entries' \in [Batch -> Seq(Link)]
        /\ todo' \in [Batch -> Seq(Link)]
        /\ entry' \in [Link -> {"none", "held", "linked", "freed"}]
    <3>1. todo[b] # <<>> /\ Drop(b)
      BY <1>8 DEF CheckCleared
    <3> QED
      BY <3>1, DropTypes
  <2>2. \A c \in Batch : check'[c] = "call" => todo'[c] # <<>>
    BY <1>8 DEF CheckCleared, Drop
  <2>3. /\ cleared' \in [Batch -> Nat]
        /\ UNCHANGED <<current, aged, stage, count, check, addVars, live, closed>>
    BY <1>8 DEF CheckCleared
  <2> QED
    BY <2>1, <2>2, <2>3
<1>9. ASSUME NEW b \in Batch, CheckLive(b)
      PROVE  TypeOK'
  BY <1>9 DEF CheckLive
<1>10. ASSUME NEW b \in Batch, CallOk(b)
       PROVE  TypeOK'
  <2>1. Tail(todo[b]) \in Seq(Link)
    BY <1>10, PopElements DEF CallOk
  <2> QED
    BY <1>10, <2>1 DEF CallOk
<1>11. ASSUME NEW b \in Batch, CallFailed(b)
       PROVE  TypeOK'
  <2>1. /\ entries' \in [Batch -> Seq(Link)]
        /\ todo' \in [Batch -> Seq(Link)]
        /\ entry' \in [Link -> {"none", "held", "linked", "freed"}]
    <3>1. todo[b] # <<>> /\ Drop(b)
      BY <1>11 DEF CallFailed
    <3> QED
      BY <3>1, DropTypes
  <2>2. \A c \in Batch : check'[c] = "call" => todo'[c] # <<>>
    BY <1>11 DEF CallFailed, Drop
  <2>3. /\ check' \in [Batch -> {"idle", "read", "call", "free"}]
        /\ count' \in [Batch -> Int]
        /\ UNCHANGED <<current, aged, stage, addVars, live, closed, cleared>>
    BY <1>11 DEF CallFailed
  <2> QED
    BY <2>1, <2>2, <2>3
<1>12. ASSUME NEW b \in Batch, CheckEnd(b)
       PROVE  TypeOK'
  BY <1>12 DEF CheckEnd
<1>13. ASSUME NEW b \in Batch, FreeBatch(b)
       PROVE  TypeOK'
  <2>1. <<>> \in Seq(Link)
    BY EmptySeq
  <2> QED
    BY <1>13, <2>1 DEF FreeBatch, Dispose
<1>14. ASSUME HandleDestroy
       PROVE  TypeOK'
  <2>1. <<>> \in Seq(Link)
    BY EmptySeq
  <2>2. /\ stage' \in [Batch -> {"none", "open", "owed", "timed", "freed"}]
        /\ entries' \in [Batch -> Seq(Link)]
        /\ entry' \in [Link -> {"none", "held", "linked", "freed"}]
    <3>1. CASE current = NoBatch
      BY <1>14, <3>1 DEF HandleDestroy
    <3>2. CASE current # NoBatch
      <4>1. current \in Batch /\ Dispose(current)
        BY <1>14, <3>2 DEF HandleDestroy
      <4> QED
        BY <2>1, <4>1 DEF Dispose
    <3> QED
      BY <3>1, <3>2
  <2> QED
    BY <1>14, <2>2 DEF HandleDestroy
<1>15. ASSUME UNCHANGED vars
       PROVE  TypeOK'
  BY <1>15 DEF vars
<1> QED
  BY <1>1, <1>2, <1>3, <1>4, <1>5, <1>6, <1>7, <1>8, <1>9, <1>10, <1>11, <1>12, <1>13, <1>14,
     <1>15 DEF Next, AddStep, CheckStep

(* The timer lists keep to their types, whatever the number of links and   *)
(* batches.                                                                *)
THEOREM TypeCorrect == Spec => []TypeOK
<1> QED
  BY TypeInit, TypeStep, PTL DEF Spec

-----------------------------------------------------------------------------
LEMMA ShapeInit == Init => Shape
<1> SUFFICES ASSUME Init
             PROVE  Shape
  OBVIOUS
<1>1. AdderShape
  BY DEF Init, AdderShape
<1>2. WalkShape
  BY DEF Init, WalkShape
<1>3. \A l \in Link, b \in Batch : ~Owes(l, b)
  BY DEF Init, Owes
<1>4. \A b \in Batch : stage[b] = "none" /\ b # current
  BY ListAssumption DEF Init
<1> QED
  BY <1>1, <1>2, <1>3, <1>4 DEF Shape, OneTimer

LEMMA ShapeStep == TypeOK /\ Shape /\ [Next]_vars => Shape'
<1> SUFFICES ASSUME TypeOK, Shape, [Next]_vars
             PROVE  Shape'
  OBVIOUS
<1> USE DEF Shape, AdderShape, WalkShape, OneTimer, Owes, batchVars, checkVars, addVars
<1>1. ASSUME NEW l \in Link, AddAlloc(l)
      PROVE  Shape'
  BY <1>1 DEF AddAlloc, TypeOK
<1>2. ASSUME NEW l \in Link, AddChoose(l)
      PROVE  Shape'
  <2>1. PICK b \in Batch : Open(l, b) \/ Join(l, b)
    BY <1>2 DEF AddChoose
  <2>2. CASE Open(l, b)
    <3>1. /\ ~closer[l] /\ ~closed /\ \A m \in Link : ~Owes(m, b)
          /\ UNCHANGED <<closer, check, closed>>
      BY <1>2, <2>2 DEF AddChoose, Open
    <3>2. /\ adder' = [adder EXCEPT ![l] = "link"]
          /\ parent' = [parent EXCEPT ![l] = b]
          /\ stage[b] = "none" /\ stage' = [stage EXCEPT ![b] = "open"]
          /\ current = NoBatch /\ current' = b
      BY <1>2, <2>2 DEF AddChoose, Open
    <3>3. AdderShape' /\ WalkShape'
      BY <3>1, <3>2 DEF TypeOK
    <3>4. \A m \in Link, c \in Batch : Owes(m, c)' => Owes(m, c)
      BY <3>1, <3>2 DEF TypeOK
    <3>5. \A m \in Link, c \in Batch : Owes(m, c) => Owes(m, c)'
      BY <1>2, <3>1, <3>2 DEF TypeOK
    <3>6. \A c \in Batch : stage'[c] = "open" <=> c = current'
      BY <3>1, <3>2, ListAssumption DEF TypeOK
    <3>7. \A c \in Batch : stage'[c] = "owed" <=> stage[c] = "owed"
      BY <3>2 DEF TypeOK
    <3> HIDE DEF AdderShape, WalkShape, Owes
    <3>8. OneTimer'
      BY <3>1, <3>4, <3>5, <3>6, <3>7
    <3> QED
      BY <3>3, <3>8
  <2>3. CASE Join(l, b)
    BY <1>2, <2>3, ListAssumption DEF AddChoose, Join, TypeOK
  <2> QED
    BY <2>1, <2>2, <2>3
<1>3. ASSUME NEW l \in Link, AddLink(l)
      PROVE  Shape'
  BY <1>3 DEF AddLink, TypeOK
<1>4. ASSUME NEW l \in Link, AddTimer(l)
      PROVE  Shape'
  BY <1>4 DEF AddTimer, TypeOK
<1>5. ASSUME End
      PROVE  Shape'
  BY <1>5, ListAssumption DEF End, TypeOK
<1>6. ASSUME NEW b \in Batch, CheckStart(b)
      PROVE  Shape'
  BY <1>6 DEF CheckStart, TypeOK
<1>7. ASSUME NEW b \in Batch, CheckLive(b) \/ CallOk(b) \/ CheckEnd(b)
      PROVE  Shape'
  BY <1>7 DEF CheckLive, CallOk, CheckEnd, TypeOK
<1>8. ASSUME NEW b \in Batch, CallFailed(b)
      PROVE  Shape'
  BY <1>8 DEF CallFailed, TypeOK
<1>9. ASSUME NEW b \in Batch, FreeBatch(b)
      PROVE  Shape'
  BY <1>9 DEF FreeBatch, Dispose, TypeOK
<1>10. ASSUME HandleDestroy
       PROVE  Shape'
  BY <1>10 DEF HandleDestroy
<1>11. ASSUME \/ Age
              \/ \E l \in Link : Del(l)
              \/ \E b \in Batch : CheckCleared(b)
              \/ UNCHANGED vars
       PROVE  Shape'
  BY <1>11 DEF Age, Del, CheckCleared, vars
<1> QED
  BY <1>1, <1>2, <1>3, <1>4, <1>5, <1>6, <1>7, <1>8, <1>9, <1>10, <1>11
     DEF Next, AddStep, CheckStep

(* Every batch gets one timer, and no adder's promise of one is forgotten  *)
(* or kept twice, whatever the number of links and batches.                *)
THEOREM TimerCorrect == Spec => []OneTimer
<1>1. TypeOK /\ Shape => OneTimer
  BY DEF Shape
<1> QED
  BY <1>1, ShapeInit, ShapeStep, TypeCorrect, PTL DEF Spec

-----------------------------------------------------------------------------
(* Until it is linked, the entry of an adder is in nobody else's hands.    *)
EntryShape ==
    \A l \in Link :
        /\ adder[l] = "out" => entry[l] = "none"
        /\ adder[l] \in {"choose", "link"} => entry[l] = "held"

(* A walk has still to visit entries of its own batch, each once.          *)
WalkInList ==
    \A b \in Batch : check[b] \in {"read", "call"} =>
        NoRepeat(todo[b]) /\ Elements(todo[b]) \subseteq Elements(entries[b])

Place == EntryShape /\ EntryInOnePlace /\ WalkInList

LEMMA EmptyList == NoRepeat(<<>>) /\ Elements(<<>>) = {}
BY DEF NoRepeat, Elements

LEMMA PlaceInit == Init => Place
<1> SUFFICES ASSUME Init
             PROVE  Place
  OBVIOUS
<1>1. EntryShape
  BY DEF Init, EntryShape
<1>2. EntryInOnePlace
  BY EmptyList DEF Init, EntryInOnePlace
<1>3. WalkInList
  BY DEF Init, WalkInList
<1> QED
  BY <1>1, <1>2, <1>3 DEF Place

(* A dropped entry leaves its list and the walk, and no other list had it. *)
LEMMA DropKeepsPlace ==
    ASSUME TypeOK, Place, NEW b \in Batch, check[b] \in {"read", "call"},
           todo[b] # <<>>, Drop(b), check' = [check EXCEPT ![b] = "read"],
           UNCHANGED addVars
    PROVE  Place'
<1> DEFINE h == Head(todo[b])
           d == Delete(entries[b], h)
<1>1. entries[b] \in Seq(Link) /\ todo[b] \in Seq(Link)
  BY DEF TypeOK
<1>2. /\ NoRepeat(todo[b]) /\ Elements(todo[b]) \subseteq Elements(entries[b])
      /\ NoRepeat(entries[b])
  BY DEF Place, WalkInList, EntryInOnePlace
<1>3. /\ h \in Link /\ h \in Elements(todo[b])
      /\ NoRepeat(Tail(todo[b])) /\ h \notin Elements(Tail(todo[b]))
      /\ Elements(Tail(todo[b])) \subseteq Elements(todo[b])
  BY <1>1, <1>2, PopElements
<1>4. /\ NoRepeat(d) /\ h \notin Elements(d)
      /\ Elements(d) \subseteq Elements(entries[b])
      /\ Elements(entries[b]) \subseteq Elements(d) \cup {h}
  BY <1>1, <1>2, DeleteElements
<1>5. entry[h] = "linked" /\ parent[h] = b
  BY <1>2, <1>3 DEF Place, EntryInOnePlace
<1>6. /\ entries' = [entries EXCEPT ![b] = d]
      /\ entry' = [entry EXCEPT ![h] = "freed"]
      /\ todo' = [todo EXCEPT ![b] = Tail(todo[b])]
  BY DEF Drop
<1> HIDE DEF h, d
<1>7. EntryShape'
  BY <1>3, <1>5, <1>6 DEF TypeOK, Place, EntryShape, addVars
<1>8. EntryInOnePlace'
  <2> SUFFICES ASSUME NEW c \in Batch
               PROVE  /\ NoRepeat(entries'[c])
                      /\ \A l \in Elements(entries'[c]) : entry'[l] = "linked" /\ parent'[l] = c
    BY DEF EntryInOnePlace
  <2>1. /\ NoRepeat(entries[c])
        /\ \A l \in Elements(entries[c]) : entry[l] = "linked" /\ parent[l] = c
    BY DEF Place, EntryInOnePlace
  <2>2. entries'[c] = IF c = b THEN d ELSE entries[c]
    BY <1>6 DEF TypeOK
  <2>3. Elements(entries'[c]) \subseteq Elements(entries[c]) \ {h}
    BY <1>4, <1>5, <2>1, <2>2
  <2>4. \A l \in Elements(entries[c]) : l # h => entry'[l] = entry[l]
    BY <1>6 DEF TypeOK
  <2> QED
    BY <1>4, <2>1, <2>2, <2>3, <2>4 DEF addVars
<1>9. WalkInList'
  <2> SUFFICES ASSUME NEW c \in Batch, check'[c] \in {"read", "call"}
               PROVE  NoRepeat(todo'[c]) /\ Elements(todo'[c]) \subseteq Elements(entries'[c])
    BY DEF WalkInList
  <2>1. CASE c = b
    BY <1>2, <1>3, <1>4, <1>6, <2>1 DEF TypeOK
  <2>2. CASE c # b
    BY <1>6, <2>2 DEF TypeOK, Place, WalkInList
  <2> QED
    BY <2>1, <2>2
<1> QED
  BY <1>7, <1>8, <1>9 DEF Place

(* Freeing a batch frees what is in its list, and nothing else.            *)
LEMMA DisposeKeepsPlace ==
    ASSUME TypeOK, Place, NEW b \in Batch, Dispose(b),
           check'[b] = "idle", \A c \in Batch : c # b => check'[c] = check[c],
           UNCHANGED <<todo, addVars>>
    PROVE  Place'
<1>1. /\ \A c \in Batch : entries'[c] = IF c = b THEN <<>> ELSE entries[c]
      /\ \A l \in Link : entry'[l] = IF l \in Elements(entries[b]) THEN "freed" ELSE entry[l]
  BY DEF Dispose, TypeOK
<1>2. EntryShape'
  BY <1>1 DEF Place, EntryShape, EntryInOnePlace, addVars
<1>3. EntryInOnePlace'
  <2> SUFFICES ASSUME NEW c \in Batch
               PROVE  /\ NoRepeat(entries'[c])
                      /\ \A l \in Elements(entries'[c]) : entry'[l] = "linked" /\ parent'[l] = c
    BY DEF EntryInOnePlace
  <2>1. CASE c = b
    BY <1>1, <2>1, EmptyList
  <2>2. CASE c # b
    <3>1. /\ entries'[c] = entries[c] /\ NoRepeat(entries[c])
          /\ \A l \in Elements(entries[c]) : entry[l] = "linked" /\ parent[l] = c
      BY <1>1, <2>2 DEF Place, EntryInOnePlace
    <3>2. \A l \in Elements(entries[c]) : l \in Link /\ l \notin Elements(entries[b])
      <4>1. Elements(entries[c]) \subseteq Link
        BY ElementsInSet DEF TypeOK
      <4>2. \A l \in Elements(entries[b]) : parent[l] = b
        BY DEF Place, EntryInOnePlace
      <4> QED
        BY <2>2, <3>1, <4>1, <4>2
    <3> QED
      BY <1>1, <3>1, <3>2 DEF addVars
  <2> QED
    BY <2>1, <2>2
<1>4. WalkInList'
  BY <1>1 DEF Place, WalkInList
<1> QED
  BY <1>2, <1>3, <1>4 DEF Place

LEMMA PlaceStep == TypeOK /\ Shape /\ Place /\ [Next]_vars => Place'
<1> SUFFICES ASSUME TypeOK, Shape, Place, [Next]_vars
             PROVE  Place'
  OBVIOUS
<1> USE DEF batchVars, checkVars, addVars
<1>1. ASSUME NEW l \in Link, AddAlloc(l)
      PROVE  Place'
  <2>1. \A b \in Batch : l \notin Elements(entries[b])
    BY <1>1 DEF AddAlloc, Place, EntryShape, EntryInOnePlace
  <2>2. /\ EntryShape'
        /\ \A b \in Batch : \A m \in Elements(entries[b]) : entry'[m] = entry[m]
    BY <1>1, <2>1 DEF AddAlloc, TypeOK, Place, EntryShape
  <2> QED
    BY <1>1, <2>2 DEF AddAlloc, Place, EntryInOnePlace, WalkInList
<1>2. ASSUME NEW l \in Link, AddChoose(l)
      PROVE  Place'
  <2>1. /\ adder[l] = "choose" /\ adder' = [adder EXCEPT ![l] = "link"]
        /\ \A m \in Link : m # l => parent'[m] = parent[m]
        /\ UNCHANGED <<entries, check, todo, entry>>
    BY <1>2 DEF AddChoose, Open, Join, TypeOK
  <2>2. \A b \in Batch : Elements(entries[b]) \subseteq Link \ {l}
    <3>1. \A b \in Batch : Elements(entries[b]) \subseteq Link
      BY ElementsInSet DEF TypeOK
    <3> QED
      BY <2>1, <3>1 DEF Place, EntryShape, EntryInOnePlace
  <2>3. EntryShape'
    BY <2>1 DEF TypeOK, Place, EntryShape
  <2> QED
    BY <2>1, <2>2, <2>3 DEF Place, EntryInOnePlace, WalkInList
<1>3. ASSUME NEW l \in Link, AddLink(l)
      PROVE  Place'
  <2> DEFINE p == parent[l]
             a == Append(entries[p], l)
  <2>1. /\ p \in Batch /\ entries[p] \in Seq(Link)
        /\ entry[l] = "held" /\ check[p] \notin {"read", "call"}
        /\ entries' = [entries EXCEPT ![p] = a]
        /\ entry' = [entry EXCEPT ![l] = "linked"]
        /\ adder'[l] \in {"timer", "done"}
        /\ \A m \in Link : m # l => adder'[m] = adder[m]
        /\ UNCHANGED <<parent, check, todo>>
    BY <1>3 DEF AddLink, Linkable, TypeOK, Place, EntryShape
  <2>2. \A b \in Batch : l \notin Elements(entries[b])
    BY <2>1 DEF Place, EntryInOnePlace
  <2>3. NoRepeat(entries[p])
    BY <2>1 DEF Place, EntryInOnePlace
  <2>4. NoRepeat(a) /\ Elements(a) = Elements(entries[p]) \cup {l}
    BY <2>1, <2>2, <2>3, AppendElements
  <2> HIDE DEF a
  <2>5. EntryShape'
    BY <2>1 DEF TypeOK, Place, EntryShape
  <2>6. EntryInOnePlace'
    <3> SUFFICES ASSUME NEW c \in Batch
                 PROVE  /\ NoRepeat(entries'[c])
                        /\ \A m \in Elements(entries'[c]) : entry'[m] = "linked" /\ parent'[m] = c
      BY DEF EntryInOnePlace
    <3>1. /\ NoRepeat(entries[c])
          /\ \A m \in Elements(entries[c]) : entry[m] = "linked" /\ parent[m] = c
      BY DEF Place, EntryInOnePlace
    <3>2. Elements(entries[c]) \subseteq Link
      BY ElementsInSet DEF TypeOK
    <3>3. \A m \in Link : entry'[m] = IF m = l THEN "linked" ELSE entry[m]
      BY <2>1 DEF TypeOK
    <3>4. entries'[c] = IF c = p THEN a ELSE entries[c]
      BY <2>1 DEF TypeOK
    <3> QED
      BY <2>1, <2>2, <2>4, <3>1, <3>2, <3>3, <3>4
  <2>7. WalkInList'
    BY <2>1 DEF TypeOK, Place, WalkInList
  <2> QED
    BY <2>5, <2>6, <2>7 DEF Place
<1>4. ASSUME NEW l \in Link, AddTimer(l)
      PROVE  Place'
  <2>1. EntryShape'
    BY <1>4 DEF AddTimer, TypeOK, Place, EntryShape
  <2> QED
    BY <1>4, <2>1 DEF AddTimer, Place, EntryInOnePlace, WalkInList
<1>5. ASSUME Age \/ End \/ (\E l \in Link : Del(l)) \/ UNCHANGED vars
      PROVE  Place'
  BY <1>5 DEF Age, End, Del, vars, Place, EntryShape, EntryInOnePlace, WalkInList
<1>6. ASSUME NEW b \in Batch, CheckStart(b)
      PROVE  Place'
  <2>1. \A c \in Batch : /\ todo'[c] = IF c = b THEN entries[c] ELSE todo[c]
                         /\ c # b => check'[c] = check[c]
    BY <1>6 DEF CheckStart, TypeOK
  <2> QED
    BY <1>6, <2>1 DEF CheckStart, Place, EntryShape, EntryInOnePlace, WalkInList
<1>7. ASSUME NEW b \in Batch, CheckLive(b) \/ CheckEnd(b)
      PROVE  Place'
  <2>1. WalkInList'
    BY <1>7 DEF CheckLive, CheckEnd, TypeOK, Place, WalkInList
  <2> QED
    BY <1>7, <2>1 DEF CheckLive, CheckEnd, Place, EntryShape, EntryInOnePlace
<1>8. ASSUME NEW b \in Batch, CallOk(b)
      PROVE  Place'
  <2>1. /\ todo[b] \in Seq(Link) /\ todo[b] # <<>> /\ NoRepeat(todo[b])
        /\ Elements(todo[b]) \subseteq Elements(entries[b])
    BY <1>8 DEF CallOk, TypeOK, Place, WalkInList
  <2>2. NoRepeat(Tail(todo[b])) /\ Elements(Tail(todo[b])) \subseteq Elements(todo[b])
    BY <2>1, PopElements
  <2>3. WalkInList'
    BY <1>8, <2>1, <2>2 DEF CallOk, TypeOK, Place, WalkInList
  <2> QED
    BY <1>8, <2>3 DEF CallOk, Place, EntryShape, EntryInOnePlace
<1>9. ASSUME NEW b \in Batch, CheckCleared(b)
      PROVE  Place'
  <2>1. /\ check[b] = "read" /\ todo[b] # <<>> /\ Drop(b)
        /\ UNCHANGED <<check, addVars>>
    BY <1>9 DEF CheckCleared
  <2>2. check' = [check EXCEPT ![b] = "read"]
    BY <2>1 DEF TypeOK
  <2> QED
    BY <2>1, <2>2, DropKeepsPlace
<1>10. ASSUME NEW b \in Batch, CallFailed(b)
       PROVE  Place'
  <2>1. /\ check[b] = "call" /\ todo[b] # <<>> /\ Drop(b)
        /\ check' = [check EXCEPT ![b] = "read"]
        /\ UNCHANGED addVars
    BY <1>10 DEF CallFailed, TypeOK
  <2> QED
    BY <2>1, DropKeepsPlace
<1>11. ASSUME NEW b \in Batch, FreeBatch(b)
       PROVE  Place'
  <2>1. /\ Dispose(b) /\ check'[b] = "idle" /\ UNCHANGED <<todo, addVars>>
        /\ \A c \in Batch : c # b => check'[c] = check[c]
    BY <1>11 DEF FreeBatch, TypeOK
  <2> QED
    BY <2>1, DisposeKeepsPlace
<1>12. ASSUME HandleDestroy
       PROVE  Place'
  <2>1. CASE current = NoBatch
    BY <1>12, <2>1 DEF HandleDestroy, Place, EntryShape, EntryInOnePlace, WalkInList
  <2>2. CASE current # NoBatch
    <3>1. /\ current \in Batch /\ Dispose(current) /\ UNCHANGED <<todo, addVars>>
          /\ check'[current] = "idle" /\ check' = check
      BY <1>12, <2>2 DEF HandleDestroy, TypeOK
    <3> QED
      BY <3>1, DisposeKeepsPlace
  <2> QED
    BY <2>1, <2>2
<1> QED
  BY <1>1, <1>2, <1>3, <1>4, <1>5, <1>6, <1>7, <1>8, <1>9, <1>10, <1>11, <1>12
     DEF Next, AddStep, CheckStep

(* Every entry is in the list of the batch its adder chose, once, and no   *)
(* list has an entry that was freed, whatever the number of links and      *)
(* batches.                                                                *)
THEOREM EntriesCorrect == Spec => []EntryInOnePlace
<1>1. TypeOK /\ Shape /\ Place => EntryInOnePlace
  BY DEF Place
<1> QED
  BY <1>1, ShapeInit, ShapeStep, PlaceInit, PlaceStep, TypeCorrect, PTL DEF Spec

-----------------------------------------------------------------------------
(* A batch counts the entries in its list, and those that were dropped     *)
(* because they had been cleared: the leak of tc_timer_list.c:57-61.       *)
Counted ==
    \A b \in Batch : stage[b] # "freed" => count[b] = Len(entries[b]) + cleared[b]

(* Nothing is left in a batch that is freed, or about to be.               *)
FreedShape ==
    \A b \in Batch :
        /\ stage[b] = "freed" => entries[b] = <<>>
        /\ Prompt /\ check[b] = "free" => entries[b] = <<>>

(* Prompt adders have left a batch before it is walked over or freed.      *)
Quiet ==
    Prompt => \A b \in Batch : check[b] # "idle" \/ stage[b] = "freed" =>
        \A l \in Link : adder[l] = "link" => parent[l] # b

Count == Counted /\ FreedShape /\ Quiet

LEMMA CountInit == Init => Count
<1> SUFFICES ASSUME Init
             PROVE  Count
  OBVIOUS
<1>1. Len(<<>>) = 0
  BY EmptySeq
<1>2. Counted
  BY <1>1 DEF Init, Counted
<1>3. FreedShape /\ Quiet
  BY DEF Init, FreedShape, Quiet
<1> QED
  BY <1>2, <1>3 DEF Count

(* A step that leaves the lists and the stages alone.                      *)
LEMMA CountStill ==
    ASSUME Count, UNCHANGED <<stage, entries, count, cleared>>,
           \A b \in Batch : check'[b] = "free" => check[b] = "free",
           Quiet'
    PROVE  Count'
BY DEF Count, Counted, FreedShape

LEMMA DropLength ==
    ASSUME TypeOK, Place, NEW b \in Batch, check[b] \in {"read", "call"},
           todo[b] # <<>>, Drop(b)
    PROVE  /\ Len(entries'[b]) = Len(entries[b]) - 1
           /\ Len(entries[b]) \in Nat
           /\ \A c \in Batch : c # b => entries'[c] = entries[c]
<1>1. entries[b] \in Seq(Link) /\ todo[b] \in Seq(Link)
  BY DEF TypeOK
<1>2. Head(todo[b]) \in Elements(entries[b])
  <2>1. Elements(todo[b]) \subseteq Elements(entries[b])
    BY DEF Place, WalkInList
  <2>2. Head(todo[b]) \in Elements(todo[b])
    BY <1>1, PopElements
  <2> QED
    BY <2>1, <2>2
<1>3. Len(Delete(entries[b], Head(todo[b]))) = Len(entries[b]) - 1
  BY <1>1, <1>2, DeleteElements
<1>4. Len(entries[b]) \in Nat
  BY <1>1, LenProperties
<1>5. entries' = [entries EXCEPT ![b] = Delete(entries[b], Head(todo[b]))]
  BY DEF Drop
<1> QED
  BY <1>3, <1>4, <1>5 DEF TypeOK

LEMMA CountStep == TypeOK /\ Shape /\ Place /\ Count /\ [Next]_vars => Count'
<1> SUFFICES ASSUME TypeOK, Shape, Place, Count, [Next]_vars
             PROVE  Count'
  OBVIOUS
<1> USE DEF batchVars, checkVars, addVars
<1>1. ASSUME NEW l \in Link, AddAlloc(l)
      PROVE  Count'
  <2>1. Quiet'
    BY <1>1 DEF AddAlloc, TypeOK, Count, Quiet
  <2> QED
    BY <1>1, <2>1, CountStill DEF AddAlloc
<1>2. ASSUME NEW l \in Link, AddChoose(l)
      PROVE  Count'
  <2>1. PICK b \in Batch : Open(l, b) \/ Join(l, b)
    BY <1>2 DEF AddChoose
  <2>2. /\ stage[b] \in {"none", "open"}
        /\ check[b] = "idle"
    <3>1. stage[b] \in {"none", "open"}
      BY <1>2, <2>1 DEF AddChoose, Open, Join, Shape, OneTimer, AdderShape
    <3> QED
      BY <3>1 DEF Shape, WalkShape
  <2>3. /\ stage'[b] \in {"open", "owed"}
        /\ \A c \in Batch : c # b => stage'[c] = stage[c]
        /\ parent'[l] = b /\ \A m \in Link : m # l => parent'[m] = parent[m]
        /\ \A m \in Link : m # l => adder'[m] = adder[m]
        /\ UNCHANGED <<entries, count, check, cleared>>
    <3>1. /\ parent' = [parent EXCEPT ![l] = b]
          /\ adder' = [adder EXCEPT ![l] = "link"]
          /\ UNCHANGED <<entries, count, check, cleared>>
      BY <1>2, <2>1 DEF AddChoose, Open, Join
    <3>2. \E st \in {"open", "owed"} : stage' = [stage EXCEPT ![b] = st]
      <4>1. CASE Open(l, b)
        BY <4>1 DEF Open
      <4>2. CASE Join(l, b)
        <5>1. stage[b] = "open"
          BY <1>2, <4>2 DEF AddChoose, Join, Shape, OneTimer, AdderShape
        <5> QED
          BY <4>2, <5>1 DEF Join, TypeOK
      <4> QED
        BY <2>1, <4>1, <4>2
    <3> QED
      BY <3>1, <3>2 DEF TypeOK
  <2>4. Quiet'
    BY <2>2, <2>3 DEF Count, Quiet
  <2>5. Counted' /\ FreedShape'
    BY <2>2, <2>3 DEF Count, Counted, FreedShape
  <2> QED
    BY <2>4, <2>5 DEF Count
<1>3. ASSUME NEW l \in Link, AddLink(l)
      PROVE  Count'
  <2> DEFINE p == parent[l]
  <2>1. /\ p \in Batch /\ entries[p] \in Seq(Link)
        /\ stage[p] # "freed" /\ adder[l] = "link"
        /\ entries' = [entries EXCEPT ![p] = Append(entries[p], l)]
        /\ count'[p] = count[p] + 1
        /\ \A c \in Batch : c # p => count'[c] = count[c]
        /\ UNCHANGED <<stage, check, parent, cleared>>
    BY <1>3 DEF AddLink, Linkable, TypeOK
  <2>2. /\ Len(Append(entries[p], l)) = Len(entries[p]) + 1
        /\ Len(entries[p]) \in Nat
    BY <2>1, AppendElements, LenProperties
  <2>3. \A c \in Batch : entries'[c] = IF c = p THEN Append(entries[p], l) ELSE entries[c]
    BY <2>1 DEF TypeOK
  <2> HIDE DEF p
  <2>4. Counted'
    <3>1. count[p] = Len(entries[p]) + cleared[p] /\ cleared[p] \in Nat
      BY <2>1 DEF TypeOK, Count, Counted
    <3>2. count'[p] = Len(entries'[p]) + cleared'[p]
      <4>1. Len(entries'[p]) = Len(entries[p]) + 1
        BY <2>1, <2>2, <2>3
      <4>2. count'[p] = count[p] + 1 /\ cleared'[p] = cleared[p]
        BY <2>1
      <4> QED
        BY <2>2, <3>1, <4>1, <4>2
    <3> QED
      BY <2>1, <2>3, <3>2 DEF Count, Counted
  <2>5. Prompt => check[p] # "free"
    BY <2>1 DEF Count, Quiet, p
  <2>6. FreedShape'
    BY <2>1, <2>3, <2>5 DEF Count, FreedShape
  <2>7. Quiet'
    BY <1>3 DEF AddLink, TypeOK, Count, Quiet
  <2> QED
    BY <2>4, <2>6, <2>7 DEF Count
<1>4. ASSUME NEW l \in Link, AddTimer(l)
      PROVE  Count'
  <2>1. /\ parent[l] \in Batch /\ stage[parent[l]] = "owed"
        /\ stage' = [stage EXCEPT ![parent[l]] = "timed"]
    <3>1. parent[l] \in Batch /\ adder[l] = "timer" /\ closer[l] /\ ~closed
      BY <1>4 DEF AddTimer, TypeOK, Shape, AdderShape
    <3> QED
      BY <1>4, <3>1 DEF AddTimer, Shape, OneTimer, Owes
  <2>2. \A b \in Batch : stage'[b] = "freed" <=> stage[b] = "freed"
    BY <2>1 DEF TypeOK
  <2>3. Quiet'
    BY <1>4, <2>2 DEF AddTimer, TypeOK, Count, Quiet
  <2> QED
    BY <1>4, <2>2, <2>3 DEF AddTimer, Count, Counted, FreedShape
<1>5. ASSUME End
      PROVE  Count'
  <2>1. \A b \in Batch : stage'[b] = "freed" <=> stage[b] = "freed"
    BY <1>5 DEF End, TypeOK, Shape, OneTimer
  <2> QED
    BY <1>5, <2>1 DEF End, Count, Counted, FreedShape, Quiet
<1>6. ASSUME NEW b \in Batch, CheckStart(b)
      PROVE  Count'
  <2>1. Quiet'
    BY <1>6 DEF CheckStart, TypeOK, Count, Quiet
  <2>2. \A c \in Batch : check'[c] = "free" => check[c] = "free"
    BY <1>6 DEF CheckStart, TypeOK
  <2> QED
    BY <1>6, <2>1, <2>2, CountStill DEF CheckStart
<1>7. ASSUME NEW b \in Batch, CheckLive(b) \/ CallOk(b)
      PROVE  Count'
  <2>1. Quiet'
    BY <1>7 DEF CheckLive, CallOk, TypeOK, Count, Quiet
  <2>2. \A c \in Batch : check'[c] = "free" => check[c] = "free"
    BY <1>7 DEF CheckLive, CallOk, TypeOK
  <2> QED
    BY <1>7, <2>1, <2>2, CountStill DEF CheckLive, CallOk
<1>8. ASSUME NEW b \in Batch, CheckCleared(b)
      PROVE  Count'
  <2>1. /\ check[b] = "read" /\ todo[b] # <<>> /\ Drop(b)
        /\ cleared'[b] = cleared[b] + 1 /\ cleared[b] \in Nat
        /\ \A c \in Batch : c # b => cleared'[c] = cleared[c]
        /\ UNCHANGED <<stage, count, check, addVars>>
    BY <1>8 DEF CheckCleared, TypeOK
  <2>2. /\ Len(entries'[b]) = Len(entries[b]) - 1 /\ Len(entries[b]) \in Nat
        /\ \A c \in Batch : c # b => entries'[c] = entries[c]
    BY <2>1, DropLength
  <2>3. stage[b] = "timed"
    BY <2>1 DEF Shape, WalkShape
  <2>4. count[b] = Len(entries[b]) + cleared[b]
    BY <2>3 DEF Count, Counted
  <2>5. count'[b] = Len(entries'[b]) + cleared'[b]
    <3>1. count'[b] = count[b] /\ cleared'[b] = cleared[b] + 1 /\ cleared[b] \in Nat
      BY <2>1
    <3>2. Len(entries'[b]) = Len(entries[b]) - 1 /\ Len(entries[b]) \in Nat
      BY <2>2
    <3> QED
      BY ONLY <2>4, <3>1, <3>2
  <2>6. Counted'
    BY <2>1, <2>2, <2>5 DEF Count, Counted
  <2>7. FreedShape' /\ Quiet'
    BY <2>1, <2>2, <2>3 DEF Count, FreedShape, Quiet
  <2> QED
    BY <2>6, <2>7 DEF Count
<1>9. ASSUME NEW b \in Batch, CallFailed(b)
      PROVE  Count'
  <2>1. /\ check[b] = "call" /\ todo[b] # <<>> /\ Drop(b)
        /\ count'[b] = count[b] - 1
        /\ \A c \in Batch : c # b => count'[c] = count[c] /\ check'[c] = check[c]
        /\ check'[b] = "read" /\ cleared[b] \in Nat
        /\ UNCHANGED <<stage, addVars, cleared>>
    BY <1>9 DEF CallFailed, TypeOK
  <2>2. /\ Len(entries'[b]) = Len(entries[b]) - 1 /\ Len(entries[b]) \in Nat
        /\ \A c \in Batch : c # b => entries'[c] = entries[c]
    BY <2>1, DropLength
  <2>3. stage[b] = "timed"
    BY <2>1 DEF Shape, WalkShape
  <2>4. count[b] = Len(entries[b]) + cleared[b]
    BY <2>3 DEF Count, Counted
  <2>5. count'[b] = Len(entries'[b]) + cleared'[b]
    BY <2>1, <2>2, <2>4
  <2>6. Counted'
    BY <2>1, <2>2, <2>5 DEF Count, Counted
  <2>7. FreedShape' /\ Quiet'
    BY <2>1, <2>2, <2>3 DEF Count, FreedShape, Quiet
  <2> QED
    BY <2>6, <2>7 DEF Count
<1>10. ASSUME NEW b \in Batch, CheckEnd(b)
       PROVE  Count'
  <2>1. /\ check[b] = "read" /\ stage[b] = "timed"
        /\ entries[b] \in Seq(Link) /\ cleared[b] \in Nat
        /\ count[b] = Len(entries[b]) + cleared[b]
    BY <1>10 DEF CheckEnd, TypeOK, Shape, WalkShape, Count, Counted
  <2>2. count[b] = 0 => entries[b] = <<>>
    <3>1. Len(entries[b]) \in Nat
      BY <2>1, LenProperties
    <3>2. count[b] = 0 => Len(entries[b]) = 0
      BY <2>1, <3>1
    <3> QED
      BY <2>1, <3>2, EmptySeq
  <2>3. /\ check'[b] = "free" => count[b] = 0
        /\ \A c \in Batch : c # b => check'[c] = check[c]
        /\ UNCHANGED <<stage, entries, count, addVars, cleared>>
    BY <1>10 DEF CheckEnd, TypeOK
  <2>4. Counted' /\ FreedShape' /\ Quiet'
    BY <2>1, <2>2, <2>3 DEF Count, Counted, FreedShape, Quiet
  <2> QED
    BY <2>4 DEF Count
<1>11. ASSUME NEW b \in Batch, FreeBatch(b)
       PROVE  Count'
  <2>1. /\ check[b] = "free"
        /\ stage'[b] = "freed" /\ entries'[b] = <<>> /\ check'[b] = "idle"
        /\ \A c \in Batch : c # b => /\ stage'[c] = stage[c] /\ entries'[c] = entries[c]
                                    /\ check'[c] = check[c]
        /\ UNCHANGED <<count, addVars, cleared>>
    BY <1>11 DEF FreeBatch, Dispose, TypeOK
  <2>2. Counted' /\ FreedShape' /\ Quiet'
    BY <2>1 DEF Count, Counted, FreedShape, Quiet
  <2> QED
    BY <2>2 DEF Count
<1>12. ASSUME HandleDestroy
       PROVE  Count'
  <2>1. /\ \A l \in Link : adder[l] # "link"
        /\ UNCHANGED <<count, check, addVars, cleared>>
    BY <1>12 DEF HandleDestroy
  <2>2. \A b \in Batch :
            \/ stage'[b] = "freed" /\ entries'[b] = <<>>
            \/ stage'[b] = stage[b] /\ entries'[b] = entries[b]
    <3>1. CASE current = NoBatch
      BY <1>12, <3>1 DEF HandleDestroy
    <3>2. CASE current # NoBatch
      <4>1. current \in Batch /\ Dispose(current)
        BY <1>12, <3>2 DEF HandleDestroy, TypeOK
      <4> QED
        BY <4>1 DEF Dispose, TypeOK
    <3> QED
      BY <3>1, <3>2
  <2>3. Counted' /\ FreedShape' /\ Quiet'
    BY <2>1, <2>2 DEF Count, Counted, FreedShape, Quiet
  <2> QED
    BY <2>3 DEF Count
<1>13. ASSUME Age \/ (\E l \in Link : Del(l)) \/ UNCHANGED vars
       PROVE  Count'
  BY <1>13 DEF Age, Del, vars, Count, Counted, FreedShape, Quiet
<1> QED
  BY <1>1, <1>2, <1>3, <1>4, <1>5, <1>6, <1>7, <1>8, <1>9, <1>10, <1>11, <1>12, <1>13
     DEF Next, AddStep, CheckStep

(* If adders finish before the first check of their batch, a batch that is *)
(* freed holds nothing and nobody is about to add to it, whatever the      *)
(* number of links and batches.                                            *)
THEOREM FreedCorrect == Spec => []FreedIsEmpty
<1>1. Count => FreedIsEmpty
  BY DEF Count, FreedShape, Quiet, FreedIsEmpty
<1> QED
  BY <1>1, ShapeInit, ShapeStep, PlaceInit, PlaceStep, CountInit, CountStep, TypeCorrect, PTL
     DEF Spec

(* A batch never counts less than the entries in it, and what it counts    *)
(* over them is the number of cleared ones: with one of those it is never  *)
(* freed by its timer.                                                     *)
THEOREM CountCorrect == Spec => []Counted
<1>1. Count => Counted
  BY DEF Count
<1> QED
  BY <1>1, ShapeInit, ShapeStep, PlaceInit, PlaceStep, CountInit, CountStep, TypeCorrect, PTL
     DEF Spec
=============================================================================

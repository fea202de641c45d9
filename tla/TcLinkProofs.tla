---------------------------- MODULE TcLinkProofs ----------------------------
(* What holds of the links for any number of links, sockets, packets and   *)
(* threads.                                                                *)
EXTENDS TcLink, TcListLemmas

(* Nobody has a link that is not opened yet, and an opened one has a       *)
(* number.                                                                 *)
Fresh ==
    \A l \in Link :
        /\ status[l] = "none" =>
              /\ order[l] = <<>> /\ arming[l] = {}
              /\ \A f \in Fd : owner[f] # l /\ ptr[f] # l
              /\ \A t \in Thread : on[t] # l
              /\ \A q \in Pool : tasks[q][l] = 0
        /\ status[l] # "none" => sock[l] \in Fd

(* A number that is registered or open is the one its link has, and what   *)
(* waits for an event is registered.                                       *)
Numbers ==
    \A f \in Fd :
        /\ \A l \in Link : owner[f] = l \/ ptr[f] = l => sock[l] = f
        /\ armed[f] # "off" => ptr[f] \in Link

Shape == TypeOK /\ Fresh /\ Numbers

LEMMA ShapeInit == Init => Shape
<1> SUFFICES ASSUME Init PROVE Shape
  OBVIOUS
<1>1. <<>> \in Seq(Packet)
  BY EmptySeq
<1>2. TypeOK
  BY <1>1, LinkAssumption DEF TypeOK, Init, Place, PlaceName, Thread, Pool
<1>3. Fresh /\ Numbers
  BY LinkAssumption DEF Init, Fresh, Numbers, Pool
<1> QED
  BY <1>2, <1>3 DEF Shape

(* tc_epoll_data_ctl registers a number with the link that has it.         *)
LEMMA ModRegisters ==
    ASSUME Shape, NEW l \in Link, sock[l] \in Fd, NEW event \in {"in", "out"}, Mod(l, event)
    PROVE  /\ ptr' \in [Fd -> Link \cup {None}]
           /\ armed' \in [Fd -> {"off", "in", "out"}]
           /\ \A f \in Fd : ptr'[f] = ptr[f] \/ (f = sock[l] /\ ptr'[f] = l)
           /\ \A f \in Fd : armed'[f] # "off" => ptr'[f] \in Link
<1>1. CASE owner[sock[l]] = None
  BY <1>1 DEF Mod, Shape, TypeOK, Numbers
<1>2. CASE owner[sock[l]] # None
  <2>1. /\ ptr' = [ptr EXCEPT ![sock[l]] = l]
        /\ armed' = [armed EXCEPT ![sock[l]] = event]
    BY <1>2 DEF Mod
  <2> QED
    BY <2>1 DEF Shape, TypeOK, Numbers
<1> QED
  BY <1>1, <1>2

LEMMA ShapeStep == Shape /\ [Next]_vars => Shape'
<1> SUFFICES ASSUME Shape, [Next]_vars PROVE Shape'
  OBVIOUS
<1> USE LinkAssumption DEF Shape
<1>1. ASSUME NEW l \in Link, Open(l) PROVE Shape'
  <2>1. TypeOK'
    BY <1>1 DEF Open, linkVars, listVars, epollVars, socketVars, threadVars, packetVars,
       TypeOK, Place, PlaceName, ErrPlace, Thread, Pool, Fresh
  <2>2. Fresh' /\ Numbers'
    BY <1>1 DEF Open, linkVars, listVars, epollVars, socketVars, threadVars, packetVars,
       Fresh, Numbers, TypeOK, Thread, Pool, Place
  <2> QED
    BY <2>1, <2>2
<1>2. ASSUME NEW f \in Fd, Break(f) PROVE Shape'
  <2>1. TypeOK'
    BY <1>2 DEF Break, linkVars, listVars, epollVars, socketVars, threadVars, packetVars,
       TypeOK, Place, PlaceName, ErrPlace, Thread, Pool, Fresh
  <2>2. Fresh' /\ Numbers'
    BY <1>2 DEF Break, linkVars, listVars, epollVars, socketVars, threadVars, packetVars,
       Fresh, Numbers, TypeOK, Thread, Pool, Place
  <2> QED
    BY <2>1, <2>2
<1>3. ASSUME NEW f \in Fd, Readable(f) PROVE Shape'
  <2>1. TypeOK'
    BY <1>3 DEF Readable, Report, linkVars, listVars, epollVars, socketVars, threadVars,
       packetVars, TypeOK, Place, PlaceName, ErrPlace, Thread, Pool, Fresh, Numbers
  <2>2. Fresh' /\ Numbers'
    BY <1>3 DEF Readable, Report, linkVars, listVars, epollVars, socketVars, threadVars,
       packetVars, Fresh, Numbers, TypeOK, Thread, Pool, Place
  <2> QED
    BY <2>1, <2>2
<1>4. ASSUME NEW f \in Fd, Writable(f) PROVE Shape'
  <2>1. TypeOK'
    BY <1>4 DEF Writable, Report, linkVars, listVars, epollVars, socketVars, threadVars,
       packetVars, TypeOK, Place, PlaceName, ErrPlace, Thread, Pool, Fresh, Numbers
  <2>2. Fresh' /\ Numbers'
    BY <1>4 DEF Writable, Report, linkVars, listVars, epollVars, socketVars, threadVars,
       packetVars, Fresh, Numbers, TypeOK, Thread, Pool, Place
  <2> QED
    BY <2>1, <2>2
<1>5. ASSUME NEW l \in Link, NEW p \in Packet, SendAdd(l, p) PROVE Shape'
  <2>1. TypeOK'
    BY <1>5 DEF SendAdd, linkVars, listVars, epollVars, socketVars, threadVars, packetVars,
       TypeOK, Place, PlaceName, ErrPlace, Thread, Pool, Fresh
  <2>2. Fresh' /\ Numbers'
    BY <1>5 DEF SendAdd, linkVars, listVars, epollVars, socketVars, threadVars, packetVars,
       Fresh, Numbers, TypeOK, Thread, Pool, Place
  <2> QED
    BY <2>1, <2>2
<1>6. ASSUME NEW l \in Link, NEW p \in Packet, Arm(l, p) PROVE Shape'
  <2>1. l \in Link /\ sock[l] \in Fd
    BY <1>6 DEF Arm, TypeOK, Place, Fresh, Thread
  <2>2. Mod(l, "out")
    BY <1>6 DEF Arm
  <2>3. /\ ptr' \in [Fd -> Link \cup {None}]
        /\ armed' \in [Fd -> {"off", "in", "out"}]
        /\ \A f \in Fd : ptr'[f] = ptr[f] \/ (f = sock[l] /\ ptr'[f] = l)
        /\ \A f \in Fd : armed'[f] # "off" => ptr'[f] \in Link
    BY <2>1, <2>2, ModRegisters
  <2>4. TypeOK'
    BY <1>6, <2>1, <2>3 DEF Arm, linkVars, listVars, epollVars, socketVars, threadVars,
       packetVars, TypeOK, Place, PlaceName, ErrPlace, Thread, Pool, Fresh
  <2>5. Fresh' /\ Numbers'
    BY <1>6, <2>1, <2>3 DEF Arm, linkVars, listVars, epollVars, socketVars, threadVars,
       packetVars, Fresh, Numbers, TypeOK, Thread, Pool, Place
  <2> QED
    BY <2>4, <2>5
<1>7. ASSUME NEW s \in Sender, SendTake(s) PROVE Shape'
  <2>1. TypeOK'
    BY <1>7 DEF SendTake, Take, linkVars, listVars, epollVars, socketVars, threadVars,
       packetVars, TypeOK, Place, PlaceName, ErrPlace, Thread, Pool, Fresh
  <2>2. Fresh' /\ Numbers'
    BY <1>7 DEF SendTake, Take, linkVars, listVars, epollVars, socketVars, threadVars,
       packetVars, Fresh, Numbers, TypeOK, Thread, Pool, Place
  <2> QED
    BY <2>1, <2>2
<1>8. ASSUME NEW s \in Sender, ConnectFailed(s) PROVE Shape'
  <2>1. on[s] \in Link /\ sock[on[s]] \in Fd
    BY <1>8 DEF ConnectFailed, TypeOK, Place, Fresh, Thread
  <2>2. Mod(on[s], "out")
    BY <1>8 DEF ConnectFailed
  <2>3. /\ ptr' \in [Fd -> Link \cup {None}]
        /\ armed' \in [Fd -> {"off", "in", "out"}]
        /\ \A f \in Fd : ptr'[f] = ptr[f] \/ (f = sock[on[s]] /\ ptr'[f] = on[s])
        /\ \A f \in Fd : armed'[f] # "off" => ptr'[f] \in Link
    BY <2>1, <2>2, ModRegisters
  <2>4. TypeOK'
    BY <1>8, <2>1, <2>3 DEF ConnectFailed, Usable, Reported, Done, linkVars, listVars,
       epollVars, socketVars, threadVars, packetVars, TypeOK, Place, PlaceName, ErrPlace,
       Thread, Pool, Fresh
  <2>5. Fresh' /\ Numbers'
    BY <1>8, <2>1, <2>3 DEF ConnectFailed, Usable, Reported, Done, linkVars, listVars,
       epollVars, socketVars, threadVars, packetVars, Fresh, Numbers, TypeOK, Thread, Pool,
       Place
  <2> QED
    BY <2>4, <2>5
<1>9. ASSUME NEW s \in Sender, Connected(s) PROVE Shape'
  <2>1. TypeOK'
    BY <1>9 DEF Connected, Goto, linkVars, listVars, epollVars, socketVars, threadVars,
       packetVars, TypeOK, Place, PlaceName, ErrPlace, Thread, Pool, Fresh
  <2>2. Fresh' /\ Numbers'
    BY <1>9 DEF Connected, Goto, linkVars, listVars, epollVars, socketVars, threadVars,
       packetVars, Fresh, Numbers, TypeOK, Thread, Pool, Place
  <2> QED
    BY <2>1, <2>2
<1>10. ASSUME NEW s \in Sender, ConnectEnd(s) PROVE Shape'
  <2>1. TypeOK'
    BY <1>10 DEF ConnectEnd, Done, linkVars, listVars, epollVars, socketVars, threadVars,
       packetVars, TypeOK, Place, PlaceName, ErrPlace, Thread, Pool, Fresh
  <2>2. Fresh' /\ Numbers'
    BY <1>10 DEF ConnectEnd, Done, linkVars, listVars, epollVars, socketVars, threadVars,
       packetVars, Fresh, Numbers, TypeOK, Thread, Pool, Place
  <2> QED
    BY <2>1, <2>2
<1>11. ASSUME NEW s \in Sender, Pop(s) PROVE Shape'
  <2>1. TypeOK'
    BY <1>11 DEF Pop, Goto, linkVars, listVars, epollVars, socketVars, threadVars,
       packetVars, TypeOK, Place, PlaceName, ErrPlace, Thread, Pool, Fresh
  <2>2. Fresh' /\ Numbers'
    BY <1>11 DEF Pop, Goto, linkVars, listVars, epollVars, socketVars, threadVars,
       packetVars, Fresh, Numbers, TypeOK, Thread, Pool, Place
  <2> QED
    BY <2>1, <2>2
<1>12. ASSUME NEW s \in Sender, PopNone(s) PROVE Shape'
  <2>1. TypeOK'
    BY <1>12 DEF PopNone, Goto, linkVars, listVars, epollVars, socketVars, threadVars,
       packetVars, TypeOK, Place, PlaceName, ErrPlace, Thread, Pool, Fresh
  <2>2. Fresh' /\ Numbers'
    BY <1>12 DEF PopNone, Goto, linkVars, listVars, epollVars, socketVars, threadVars,
       packetVars, Fresh, Numbers, TypeOK, Thread, Pool, Place
  <2> QED
    BY <2>1, <2>2
<1>13. ASSUME NEW s \in Sender, Sent(s) PROVE Shape'
  <2>1. TypeOK'
    BY <1>13 DEF Sent, Usable, Goto, linkVars, listVars, epollVars, socketVars, threadVars,
       packetVars, TypeOK, Place, PlaceName, ErrPlace, Thread, Pool, Fresh
  <2>2. Fresh' /\ Numbers'
    BY <1>13 DEF Sent, Usable, Goto, linkVars, listVars, epollVars, socketVars, threadVars,
       packetVars, Fresh, Numbers, TypeOK, Thread, Pool, Place
  <2> QED
    BY <2>1, <2>2
<1>14. ASSUME NEW s \in Sender, Interrupted(s) PROVE Shape'
  <2>1. TypeOK'
    BY <1>14 DEF Interrupted, Drop, Goto, linkVars, listVars, epollVars, socketVars,
       threadVars, packetVars, TypeOK, Place, PlaceName, ErrPlace, Thread, Pool, Fresh
  <2>2. Fresh' /\ Numbers'
    BY <1>14 DEF Interrupted, Drop, Goto, linkVars, listVars, epollVars, socketVars,
       threadVars, packetVars, Fresh, Numbers, TypeOK, Thread, Pool, Place
  <2> QED
    BY <2>1, <2>2
<1>15. ASSUME NEW s \in Sender, NoRoom(s) PROVE Shape'
  <2>1. on[s] \in Link /\ sock[on[s]] \in Fd
    BY <1>15 DEF NoRoom, TypeOK, Place, Fresh, Thread
  <2>2. Mod(on[s], "out")
    BY <1>15 DEF NoRoom
  <2>3. /\ ptr' \in [Fd -> Link \cup {None}]
        /\ armed' \in [Fd -> {"off", "in", "out"}]
        /\ \A f \in Fd : ptr'[f] = ptr[f] \/ (f = sock[on[s]] /\ ptr'[f] = on[s])
        /\ \A f \in Fd : armed'[f] # "off" => ptr'[f] \in Link
    BY <2>1, <2>2, ModRegisters
  <2>4. TypeOK'
    BY <1>15, <2>1, <2>3 DEF NoRoom, Drop, Done, linkVars, listVars, epollVars, socketVars,
       threadVars, packetVars, TypeOK, Place, PlaceName, ErrPlace, Thread, Pool, Fresh
  <2>5. Fresh' /\ Numbers'
    BY <1>15, <2>1, <2>3 DEF NoRoom, Drop, Done, linkVars, listVars, epollVars, socketVars,
       threadVars, packetVars, Fresh, Numbers, TypeOK, Thread, Pool, Place
  <2> QED
    BY <2>4, <2>5
<1>16. ASSUME NEW s \in Sender, SendFailed(s) PROVE Shape'
  <2>1. TypeOK'
    BY <1>16 DEF SendFailed, Reported, Drop, Done, linkVars, listVars, epollVars,
       socketVars, threadVars, packetVars, TypeOK, Place, PlaceName, ErrPlace, Thread, Pool,
       Fresh
  <2>2. Fresh' /\ Numbers'
    BY <1>16 DEF SendFailed, Reported, Drop, Done, linkVars, listVars, epollVars,
       socketVars, threadVars, packetVars, Fresh, Numbers, TypeOK, Thread, Pool, Place
  <2> QED
    BY <2>1, <2>2
<1>17. ASSUME NEW s \in Sender, SendRearm(s) PROVE Shape'
  <2>1. on[s] \in Link /\ sock[on[s]] \in Fd
    BY <1>17 DEF SendRearm, TypeOK, Place, Fresh, Thread
  <2>2. Mod(on[s], "in")
    BY <1>17 DEF SendRearm
  <2>3. /\ ptr' \in [Fd -> Link \cup {None}]
        /\ armed' \in [Fd -> {"off", "in", "out"}]
        /\ \A f \in Fd : ptr'[f] = ptr[f] \/ (f = sock[on[s]] /\ ptr'[f] = on[s])
        /\ \A f \in Fd : armed'[f] # "off" => ptr'[f] \in Link
    BY <2>1, <2>2, ModRegisters
  <2>4. TypeOK'
    BY <1>17, <2>1, <2>3 DEF SendRearm, Done, linkVars, listVars, epollVars, socketVars,
       threadVars, packetVars, TypeOK, Place, PlaceName, ErrPlace, Thread, Pool, Fresh
  <2>5. Fresh' /\ Numbers'
    BY <1>17, <2>1, <2>3 DEF SendRearm, Done, linkVars, listVars, epollVars, socketVars,
       threadVars, packetVars, Fresh, Numbers, TypeOK, Thread, Pool, Place
  <2> QED
    BY <2>4, <2>5
<1>18. ASSUME NEW r \in Receiver, RecvTake(r) PROVE Shape'
  <2>1. TypeOK'
    BY <1>18 DEF RecvTake, Take, linkVars, listVars, epollVars, socketVars, threadVars,
       packetVars, TypeOK, Place, PlaceName, ErrPlace, Thread, Pool, Fresh
  <2>2. Fresh' /\ Numbers'
    BY <1>18 DEF RecvTake, Take, linkVars, listVars, epollVars, socketVars, threadVars,
       packetVars, Fresh, Numbers, TypeOK, Thread, Pool, Place
  <2> QED
    BY <2>1, <2>2
<1>19. ASSUME NEW r \in Receiver, Read(r) PROVE Shape'
  <2>1. on[r] \in Link /\ sock[on[r]] \in Fd
    BY <1>19 DEF Read, TypeOK, Place, Fresh, Thread
  <2>2. Mod(on[r], "in")
    BY <1>19 DEF Read
  <2>3. /\ ptr' \in [Fd -> Link \cup {None}]
        /\ armed' \in [Fd -> {"off", "in", "out"}]
        /\ \A f \in Fd : ptr'[f] = ptr[f] \/ (f = sock[on[r]] /\ ptr'[f] = on[r])
        /\ \A f \in Fd : armed'[f] # "off" => ptr'[f] \in Link
    BY <2>1, <2>2, ModRegisters
  <2>4. TypeOK'
    BY <1>19, <2>1, <2>3 DEF Read, Done, linkVars, listVars, epollVars, socketVars,
       threadVars, packetVars, TypeOK, Place, PlaceName, ErrPlace, Thread, Pool, Fresh
  <2>5. Fresh' /\ Numbers'
    BY <1>19, <2>1, <2>3 DEF Read, Done, linkVars, listVars, epollVars, socketVars,
       threadVars, packetVars, Fresh, Numbers, TypeOK, Thread, Pool, Place
  <2> QED
    BY <2>4, <2>5
<1>20. ASSUME NEW r \in Receiver, ReadFailed(r) PROVE Shape'
  <2>1. TypeOK'
    BY <1>20 DEF ReadFailed, Reported, Goto, linkVars, listVars, epollVars, socketVars,
       threadVars, packetVars, TypeOK, Place, PlaceName, ErrPlace, Thread, Pool, Fresh
  <2>2. Fresh' /\ Numbers'
    BY <1>20 DEF ReadFailed, Reported, Goto, linkVars, listVars, epollVars, socketVars,
       threadVars, packetVars, Fresh, Numbers, TypeOK, Thread, Pool, Place
  <2> QED
    BY <2>1, <2>2
<1>21. ASSUME NEW r \in Receiver, PeerClosed(r) PROVE Shape'
  <2>1. TypeOK'
    <3>1. CASE Goto(r, "ask")
      BY <1>21, <3>1 DEF PeerClosed, Goto, Done, linkVars, listVars, epollVars, socketVars,
         threadVars, packetVars, TypeOK, Place, PlaceName, ErrPlace, Thread, Pool, Fresh
    <3>2. CASE Done(r)
      BY <1>21, <3>2 DEF PeerClosed, Goto, Done, linkVars, listVars, epollVars, socketVars,
         threadVars, packetVars, TypeOK, Place, PlaceName, ErrPlace, Thread, Pool, Fresh
    <3> QED
      BY <1>21, <3>1, <3>2 DEF PeerClosed
  <2>2. Fresh' /\ Numbers'
    BY <1>21 DEF PeerClosed, Goto, Done, linkVars, listVars, epollVars, socketVars,
       threadVars, packetVars, Fresh, Numbers, TypeOK, Thread, Pool, Place
  <2> QED
    BY <2>1, <2>2
<1>22. ASSUME NEW h \in Handler, HandleTake(h) PROVE Shape'
  <2>1. TypeOK'
    BY <1>22 DEF HandleTake, Take, linkVars, listVars, epollVars, socketVars, threadVars,
       packetVars, TypeOK, Place, PlaceName, ErrPlace, Thread, Pool, Fresh
  <2>2. Fresh' /\ Numbers'
    BY <1>22 DEF HandleTake, Take, linkVars, listVars, epollVars, socketVars, threadVars,
       packetVars, Fresh, Numbers, TypeOK, Thread, Pool, Place
  <2> QED
    BY <2>1, <2>2
<1>23. ASSUME NEW h \in Handler, Handled(h) PROVE Shape'
  <2>1. TypeOK'
    <3>1. CASE Goto(h, "ask")
      BY <1>23, <3>1 DEF Handled, Goto, Done, linkVars, listVars, epollVars, socketVars,
         threadVars, packetVars, TypeOK, Place, PlaceName, ErrPlace, Thread, Pool, Fresh
    <3>2. CASE Done(h)
      BY <1>23, <3>2 DEF Handled, Goto, Done, linkVars, listVars, epollVars, socketVars,
         threadVars, packetVars, TypeOK, Place, PlaceName, ErrPlace, Thread, Pool, Fresh
    <3> QED
      BY <1>23, <3>1, <3>2 DEF Handled
  <2>2. Fresh' /\ Numbers'
    BY <1>23 DEF Handled, Goto, Done, linkVars, listVars, epollVars, socketVars, threadVars,
       packetVars, Fresh, Numbers, TypeOK, Thread, Pool, Place
  <2> QED
    BY <2>1, <2>2
<1>24. ASSUME NEW t \in Receiver \cup Handler, Ask(t) PROVE Shape'
  <2>1. TypeOK'
    BY <1>24 DEF Ask, Goto, linkVars, listVars, epollVars, socketVars, threadVars,
       packetVars, TypeOK, Place, PlaceName, ErrPlace, Thread, Pool, Fresh
  <2>2. Fresh' /\ Numbers'
    BY <1>24 DEF Ask, Goto, linkVars, listVars, epollVars, socketVars, threadVars,
       packetVars, Fresh, Numbers, TypeOK, Thread, Pool, Place
  <2> QED
    BY <2>1, <2>2
<1>25. ASSUME NEW t \in Receiver \cup Handler, Ignore(t) PROVE Shape'
  <2>1. TypeOK'
    BY <1>25 DEF Ignore, Done, linkVars, listVars, epollVars, socketVars, threadVars,
       packetVars, TypeOK, Place, PlaceName, ErrPlace, Thread, Pool, Fresh
  <2>2. Fresh' /\ Numbers'
    BY <1>25 DEF Ignore, Done, linkVars, listVars, epollVars, socketVars, threadVars,
       packetVars, Fresh, Numbers, TypeOK, Thread, Pool, Place
  <2> QED
    BY <2>1, <2>2
<1>26. ASSUME NEW t \in Receiver \cup Handler, Del(t) PROVE Shape'
  <2>1. TypeOK'
    <3>1. CASE Goto(t, "close")
      BY <1>26, <3>1 DEF Del, Goto, Done, linkVars, listVars, epollVars, socketVars,
         threadVars, packetVars, TypeOK, Place, PlaceName, ErrPlace, Thread, Pool, Fresh
    <3>2. CASE Done(t)
      BY <1>26, <3>2 DEF Del, Goto, Done, linkVars, listVars, epollVars, socketVars,
         threadVars, packetVars, TypeOK, Place, PlaceName, ErrPlace, Thread, Pool, Fresh
    <3> QED
      BY <1>26, <3>1, <3>2 DEF Del
  <2>2. Fresh' /\ Numbers'
    BY <1>26 DEF Del, Goto, Done, linkVars, listVars, epollVars, socketVars, threadVars,
       packetVars, Fresh, Numbers, TypeOK, Thread, Pool, Place
  <2> QED
    BY <2>1, <2>2
<1>27. ASSUME NEW t \in Receiver \cup Handler, Close(t) PROVE Shape'
  <2>1. TypeOK'
    BY <1>27 DEF Close, Done, linkVars, listVars, epollVars, socketVars, threadVars,
       packetVars, TypeOK, Place, PlaceName, ErrPlace, Thread, Pool, Fresh
  <2>2. Fresh' /\ Numbers'
    BY <1>27 DEF Close, Done, linkVars, listVars, epollVars, socketVars, threadVars,
       packetVars, Fresh, Numbers, TypeOK, Thread, Pool, Place
  <2> QED
    BY <2>1, <2>2
<1>28. ASSUME UNCHANGED vars PROVE Shape'
  BY <1>28 DEF vars, linkVars, listVars, epollVars, socketVars, threadVars, packetVars,
     TypeOK, Place, Fresh, Numbers
<1>29. CASE Next
  <2>1. ASSUME NEW s \in Sender, SendStep(s) PROVE Shape'
    BY <2>1, <1>7, <1>8, <1>9, <1>10, <1>11, <1>12, <1>13, <1>14, <1>15, <1>16, <1>17
       DEF SendStep
  <2>2. ASSUME NEW t \in Receiver \cup Handler, ErrStep(t) PROVE Shape'
    BY <2>2, <1>24, <1>25, <1>26, <1>27 DEF ErrStep
  <2>3. ASSUME NEW r \in Receiver, RecvStep(r) PROVE Shape'
    BY <2>3, <1>18, <1>19, <1>20, <1>21 DEF RecvStep
  <2>4. ASSUME NEW h \in Handler, HandleStep(h) PROVE Shape'
    BY <2>4, <1>22, <1>23 DEF HandleStep
  <2> QED
    BY <1>29, <2>1, <2>2, <2>3, <2>4,
       <1>1, <1>5, <1>6, <1>2, <1>3, <1>4 DEF Next
<1> QED
  BY <1>28, <1>29

-----------------------------------------------------------------------------
(* What deletion rests on: who closes a link is alone in it, the link is   *)
(* gone, and its number is still its own.                                  *)
Owning ==
    revived \/
        /\ \A l \in Link : Opened(l) => owner[sock[l]] = l
        /\ \A l \in Link, t \in Thread :
              Closing(t, l) => status[l] = "gone" /\ owner[sock[l]] = l
        /\ \A l \in Link, t, u \in Thread : Closing(t, l) /\ Closing(u, l) => t = u
        /\ \A l \in Link : status[l] = "gone" /\ owner[sock[l]] = l =>
              \E t \in Thread : Closing(t, l)

(* A step that neither opens, closes nor deletes.                          *)
Aside ==
    /\ UNCHANGED <<status, sock, owner, revived>>
    /\ \A t \in Thread : \A l \in Link : Closing(t, l)' <=> Closing(t, l)

LEMMA AsideOwning == ASSUME Owning, Aside PROVE Owning'
BY DEF Owning, Aside, Opened

LEMMA SenderAside ==
    ASSUME Shape, NEW s \in Sender, SendStep(s), ~ConnectEnd(s) PROVE Aside
BY LinkAssumption DEF Shape, TypeOK, Place, Thread, Aside, Closing, SendStep, SendTake,
   Take, ConnectFailed,
  Connected, Pop, PopNone, Sent, Interrupted, NoRoom, SendFailed, SendRearm, Mod, Goto, Done, Drop, Reported,
  linkVars, listVars, epollVars, socketVars, threadVars, packetVars

LEMMA PoolAside ==
    ASSUME Shape, NEW t \in Receiver \cup Handler,
           RecvStep(t) \/ HandleStep(t) \/ Ask(t) \/ Ignore(t)
    PROVE  Aside
BY LinkAssumption DEF Shape, TypeOK, Place, Thread, Aside, Closing, RecvStep, RecvTake,
   Take, HandleStep, HandleTake,
   Handled, Read, ReadFailed, PeerClosed, Ask, Ignore, Mod, Goto, Done, Drop, Reported,
  linkVars, listVars, epollVars, socketVars, threadVars, packetVars

LEMMA UserAside ==
    ASSUME Shape, NEW l \in Link, NEW p \in Packet, SendAdd(l, p) \/ Arm(l, p)
    PROVE  Aside
BY DEF Aside, Closing, SendAdd, Arm, Mod, linkVars, epollVars, socketVars, threadVars

LEMMA EventAside ==
    ASSUME Shape, NEW f \in Fd, Break(f) \/ Readable(f) \/ Writable(f)
    PROVE  Aside
BY DEF Aside, Closing, Break, Readable, Writable, Report, linkVars, socketVars, threadVars

LEMMA OwningInit == Init => Owning
BY LinkAssumption DEF Init, Owning, Opened, Closing

LEMMA OwningStep == Shape /\ Owning /\ [Next]_vars => Owning'
<1> SUFFICES ASSUME Shape, Owning, [Next]_vars PROVE Owning'
  OBVIOUS
<1> USE LinkAssumption
<1>1. ASSUME NEW l \in Link, Open(l) PROVE Owning'
  <2>1. PICK f \in Fd : /\ owner[f] = None
                        /\ sock' = [sock EXCEPT ![l] = f]
                        /\ owner' = [owner EXCEPT ![f] = l]
    BY <1>1 DEF Open
  <2>2. /\ status[l] = "none"
        /\ status' = [status EXCEPT ![l] = "connect"]
        /\ UNCHANGED <<pc, on, revived>>
    BY <1>1 DEF Open, threadVars
  <2>3. \A t \in Thread : on[t] # l
    BY <2>2 DEF Shape, Fresh
  <2>4. \A m \in Link : status[m] # "none" => sock[m] \in Fd /\ m # l
    BY <2>2 DEF Shape, Fresh
  <2> QED
    BY <2>1, <2>2, <2>3, <2>4 DEF Owning, Opened, Closing, Shape, TypeOK
<1>2. ASSUME NEW s \in Sender, ConnectEnd(s) PROVE Owning'
  <2>1. /\ status' = [status EXCEPT ![on[s]] = "send"]
        /\ revived' = (revived \/ status[on[s]] = "gone")
        /\ UNCHANGED <<sock, owner>>
        /\ pc[s] = "connected" /\ Done(s)
    BY <1>2 DEF ConnectEnd, socketVars
  <2>2. on[s] \in Link /\ s \in Thread
    BY <2>1 DEF Shape, TypeOK, Place, Thread
  <2>3. CASE status[on[s]] = "gone"
    BY <2>1, <2>3 DEF Owning
  <2>4. CASE status[on[s]] # "gone"
    <3>1. Opened(on[s])
      BY <2>2, <2>4 DEF Shape, TypeOK, Fresh, Opened
    <3> QED
      BY <2>1, <2>2, <2>4, <3>1 DEF Done, Owning, Opened, Closing, Shape, TypeOK
  <2> QED
    BY <2>3, <2>4
<1>3. ASSUME NEW t \in Receiver \cup Handler, Del(t) PROVE Owning'
  <2>1. /\ status' = [status EXCEPT ![on[t]] = "gone"]
        /\ UNCHANGED <<sock, owner, revived>>
        /\ pc[t] = "act"
    BY <1>3 DEF Del, socketVars
  <2>2. on[t] \in Link /\ t \in Thread
    BY <2>1 DEF Shape, TypeOK, Place, Thread
  <2>3. CASE status[on[t]] = "gone"
    <3>1. Done(t)
      BY <1>3, <2>3 DEF Del
    <3> QED
      BY <2>1, <2>2, <2>3, <3>1 DEF Done, Owning, Opened, Closing, Shape, TypeOK
  <2>4. CASE status[on[t]] # "gone"
    <3>1. Goto(t, "close")
      BY <1>3, <2>4 DEF Del
    <3>2. Opened(on[t])
      BY <2>2, <2>4 DEF Shape, TypeOK, Fresh, Opened
    <3> QED
      BY <2>1, <2>2, <2>4, <3>1, <3>2 DEF Goto, Owning, Opened, Closing, Shape, TypeOK
  <2> QED
    BY <2>3, <2>4
<1>4. ASSUME NEW t \in Receiver \cup Handler, Close(t) PROVE Owning'
  <2>1. /\ pc[t] = "close"
        /\ owner' = [owner EXCEPT ![sock[on[t]]] = None]
        /\ UNCHANGED <<status, sock, revived>>
        /\ Done(t)
    BY <1>4 DEF Close, linkVars
  <2>2. on[t] \in Link /\ t \in Thread
    BY <2>1 DEF Shape, TypeOK, Place, Thread
  <2>3. Closing(t, on[t])
    BY <2>1 DEF Closing
  <2>4. \A l \in Link : owner[sock[l]] = l /\ l # on[t] /\ status[l] # "none" /\ ~revived
          => sock[l] # sock[on[t]]
    BY <2>2, <2>3 DEF Owning
  <2> QED
    BY <2>1, <2>2, <2>3, <2>4 DEF Done, Owning, Opened, Closing, Shape, TypeOK, Fresh
<1>5. CASE UNCHANGED vars
  BY <1>5 DEF vars, linkVars, socketVars, threadVars, Owning, Opened, Closing
<1>6. CASE Next
  <2>1. ASSUME NEW s \in Sender, SendStep(s) PROVE Owning'
    BY <2>1, <1>2, SenderAside, AsideOwning
  <2>2. ASSUME NEW t \in Receiver \cup Handler, RecvStep(t) \/ HandleStep(t) \/ ErrStep(t)
        PROVE  Owning'
    BY <2>2, <1>3, <1>4, PoolAside, AsideOwning DEF ErrStep
  <2>3. ASSUME NEW l \in Link, NEW p \in Packet, SendAdd(l, p) \/ Arm(l, p) PROVE Owning'
    BY <2>3, UserAside, AsideOwning
  <2>4. ASSUME NEW f \in Fd, Break(f) \/ Readable(f) \/ Writable(f) PROVE Owning'
    BY <2>4, EventAside, AsideOwning
  <2> QED
    BY <1>6, <1>1, <2>1, <2>2, <2>3, <2>4 DEF Next
<1> QED
  BY <1>5, <1>6
-----------------------------------------------------------------------------
(* What a list that is filled at its end and emptied at its head has of    *)
(* all that was put in: the last ones; the first ones are out.             *)
Suffix(s, q) ==
    /\ Len(q) <= Len(s)
    /\ \A i \in 1 .. Len(q) : q[i] = s[Len(s) - Len(q) + i]

OutOf(s, q) == {s[i] : i \in 1 .. (Len(s) - Len(q))}

LEMMA SuffixAppend ==
    ASSUME NEW S, NEW s \in Seq(S), NEW q \in Seq(S), NEW e \in S, Suffix(s, q)
    PROVE  /\ Suffix(Append(s, e), Append(q, e))
           /\ OutOf(Append(s, e), Append(q, e)) = OutOf(s, q)
<1> DEFINE a == Append(s, e) b == Append(q, e)
<1>1. /\ Len(a) = Len(s) + 1 /\ a[Len(s) + 1] = e
      /\ \A i \in 1 .. Len(s) : a[i] = s[i]
      /\ Len(b) = Len(q) + 1 /\ b[Len(q) + 1] = e
      /\ \A i \in 1 .. Len(q) : b[i] = q[i]
      /\ Len(s) \in Nat /\ Len(q) \in Nat /\ Len(q) <= Len(s)
      /\ \A i \in 1 .. Len(q) : q[i] = s[Len(s) - Len(q) + i]
  BY AppendProperties, LenProperties DEF Suffix
<1> HIDE DEF a, b
<1>2. Suffix(a, b)
  <2> SUFFICES ASSUME NEW i \in 1 .. Len(b) PROVE b[i] = a[Len(a) - Len(b) + i]
    BY <1>1 DEF Suffix
  <2>1. CASE i = Len(q) + 1
    BY <1>1, <2>1
  <2>2. CASE i # Len(q) + 1
    <3>1. i \in 1 .. Len(q) /\ Len(s) - Len(q) + i \in 1 .. Len(s)
      BY <1>1, <2>2
    <3>2. b[i] = q[i] /\ q[i] = s[Len(s) - Len(q) + i]
      BY <1>1, <3>1
    <3>3. a[Len(s) - Len(q) + i] = s[Len(s) - Len(q) + i]
      BY <1>1, <3>1
    <3>4. Len(a) - Len(b) + i = Len(s) - Len(q) + i
      BY <1>1
    <3> QED
      BY <3>2, <3>3, <3>4
  <2> QED
    BY <2>1, <2>2
<1>3. OutOf(a, b) = OutOf(s, q)
  <2>1. /\ Len(a) - Len(b) = Len(s) - Len(q)
        /\ \A i \in 1 .. (Len(s) - Len(q)) : a[i] = s[i]
    BY <1>1
  <2> QED
    BY <2>1 DEF OutOf
<1> QED
  BY <1>2, <1>3 DEF a, b

LEMMA SuffixTail ==
    ASSUME NEW S, NEW s \in Seq(S), NEW q \in Seq(S), q # <<>>, Suffix(s, q)
    PROVE  /\ Suffix(s, Tail(q))
           /\ OutOf(s, Tail(q)) = OutOf(s, q) \cup {Head(q)}
<1> DEFINE b == Tail(q) h == Head(q)
<1>1. /\ h = q[1] /\ Len(b) = Len(q) - 1
      /\ \A i \in 1 .. Len(b) : b[i] = q[i + 1]
      /\ Len(s) \in Nat /\ Len(q) \in Nat \ {0} /\ Len(q) <= Len(s)
      /\ \A i \in 1 .. Len(q) : q[i] = s[Len(s) - Len(q) + i]
  BY HeadTailProperties, LenProperties, EmptySeq DEF Suffix
<1> HIDE DEF b, h
<1>2. Suffix(s, b)
  BY <1>1 DEF Suffix
<1>3. h = s[Len(s) - Len(q) + 1]
  BY <1>1
<1>4. OutOf(s, b) = OutOf(s, q) \cup {h}
  BY <1>1, <1>3 DEF OutOf
<1> QED
  BY <1>2, <1>4 DEF b, h

LEMMA SuffixParts ==
    ASSUME NEW S, NEW s \in Seq(S), NEW q \in Seq(S), Suffix(s, q)
    PROVE  /\ Elements(s) = OutOf(s, q) \cup Elements(q)
           /\ NoRepeat(s) => OutOf(s, q) \cap Elements(q) = {}
           /\ \A i, j \in DOMAIN s : i < j /\ NoRepeat(s) /\ s[j] \in OutOf(s, q)
                 => s[i] \in OutOf(s, q)
<1>1. /\ Len(s) \in Nat /\ Len(q) \in Nat /\ Len(q) <= Len(s)
      /\ DOMAIN s = 1 .. Len(s) /\ DOMAIN q = 1 .. Len(q)
      /\ \A i \in 1 .. Len(q) : q[i] = s[Len(s) - Len(q) + i]
  BY LenProperties DEF Suffix
<1> DEFINE d == Len(s) - Len(q)
<1>2. d \in Nat /\ d <= Len(s)
  BY <1>1
<1> HIDE DEF d
<1>3. OutOf(s, q) = {s[i] : i \in 1 .. d} /\ Elements(s) = {s[i] : i \in 1 .. Len(s)}
  BY <1>1 DEF OutOf, Elements, d
<1>4. Elements(q) = {s[d + i] : i \in 1 .. Len(q)} /\ Len(s) = d + Len(q)
  BY <1>1 DEF Elements, d
<1>5. Elements(s) \subseteq OutOf(s, q) \cup Elements(q)
  <2> SUFFICES ASSUME NEW i \in 1 .. Len(s) PROVE s[i] \in OutOf(s, q) \cup Elements(q)
    BY <1>3
  <2>1. CASE i <= d
    BY <1>2, <1>3, <2>1
  <2>2. CASE i > d
    <3>1. i - d \in 1 .. Len(q) /\ d + (i - d) = i
      BY <1>1, <1>2, <1>4, <2>2
    <3> QED
      BY <1>4, <3>1
  <2> QED
    BY <1>2, <2>1, <2>2
<1>6. OutOf(s, q) \cup Elements(q) \subseteq Elements(s)
  <2>1. \A i \in 1 .. d : i \in 1 .. Len(s)
    BY <1>1, <1>2
  <2>2. \A i \in 1 .. Len(q) : d + i \in 1 .. Len(s)
    BY <1>1, <1>2, <1>4
  <2> QED
    BY <1>3, <1>4, <2>1, <2>2
<1>7. ASSUME NoRepeat(s) PROVE OutOf(s, q) \cap Elements(q) = {}
  <2> SUFFICES ASSUME NEW i \in 1 .. d, NEW j \in 1 .. Len(q), s[i] = s[d + j] PROVE FALSE
    BY <1>3, <1>4
  <2>1. i \in DOMAIN s /\ d + j \in DOMAIN s /\ i # d + j
    BY <1>1, <1>2, <1>4
  <2> QED
    BY <1>7, <2>1 DEF NoRepeat
<1>8. ASSUME NEW i \in DOMAIN s, NEW j \in DOMAIN s, i < j, NoRepeat(s), s[j] \in OutOf(s, q)
      PROVE  s[i] \in OutOf(s, q)
  <2>1. PICK k \in 1 .. d : s[j] = s[k]
    BY <1>3, <1>8
  <2>2. k \in DOMAIN s
    BY <1>1, <1>2
  <2>3. j = k
    BY <1>8, <2>1, <2>2 DEF NoRepeat
  <2>4. i \in 1 .. d
    BY <1>1, <1>2, <1>8, <2>3
  <2> QED
    BY <1>3, <2>4
<1> QED
  BY <1>5, <1>6, <1>7, <1>8

-----------------------------------------------------------------------------
(* Where packets are: in the list, or out of it; a sender has one that is  *)
(* out of the list of the link it works on, and what is out was sent or    *)
(* dropped or is with a sender.                                            *)
Out(l) == OutOf(order[l], sendList[l])

Packets ==
    /\ \A l \in Link : NoRepeat(order[l]) /\ Suffix(order[l], sendList[l])
    /\ \A l, m \in Link : l # m => Elements(order[l]) \cap Elements(order[m]) = {}
    /\ \A s \in Sender : held[s] # None => held[s] \in Out(on[s])
    /\ \A l \in Link : \A p \in Out(l) : wire[p] # None \/ p \in dropped \cup Held
    /\ \A l \in Link : \A p \in Elements(sendList[l]) : wire[p] = None
    /\ \A p \in Packet : wire[p] # None => \E l \in Link : p \in Elements(order[l])

LEMMA PacketsOrder == ASSUME Shape, Packets PROVE NotOvertaken
<1> SUFFICES ASSUME NEW l \in Link, NEW i \in DOMAIN order[l], NEW j \in DOMAIN order[l],
                    i < j, wire[order[l][j]] # None
             PROVE  wire[order[l][i]] # None \/ order[l][i] \in dropped \cup Held
  BY DEF NotOvertaken
<1>1. order[l] \in Seq(Packet) /\ sendList[l] \in Seq(Packet)
  BY DEF Shape, TypeOK
<1>2. Suffix(order[l], sendList[l]) /\ NoRepeat(order[l])
  BY DEF Packets
<1>3. order[l][j] \in Elements(order[l])
  BY DEF Elements
<1>4. order[l][j] \in Out(l)
  BY <1>1, <1>2, <1>3, SuffixParts DEF Packets, Out
<1>5. order[l][i] \in Out(l)
  BY <1>1, <1>2, <1>4, SuffixParts DEF Out
<1> QED
  BY <1>5 DEF Packets

LEMMA PacketsInit == Init => Packets
<1> SUFFICES ASSUME Init PROVE Packets
  OBVIOUS
<1>1. /\ \A l \in Link : order[l] = <<>> /\ sendList[l] = <<>>
      /\ \A s \in Sender : held[s] = None
      /\ \A p \in Packet : wire[p] = None
  BY DEF Init, Thread
<1>2. Elements(<<>>) = {} /\ NoRepeat(<<>>) /\ Suffix(<<>>, <<>>) /\ OutOf(<<>>, <<>>) = {}
  BY DEF Elements, NoRepeat, Suffix, OutOf
<1> QED
  BY <1>1, <1>2 DEF Packets, Out

(* A step that leaves packets where they are.                              *)
Still ==
    /\ UNCHANGED <<sendList, order, held, wire, dropped>>
    /\ \A s \in Sender : held[s] # None => on'[s] = on[s]

LEMMA StillPackets == ASSUME Packets, Still PROVE Packets'
<1>1. UNCHANGED <<sendList, order, held, wire, dropped>> /\ Held' = Held
  BY DEF Still, Held
<1>2. \A l : Out(l)' = Out(l)
  BY <1>1 DEF Out
<1>3. \A s \in Sender : held'[s] # None => held'[s] \in OutOf(order'[on'[s]], sendList'[on'[s]])
  BY <1>1 DEF Packets, Still, Out
<1> QED
  BY <1>1, <1>3 DEF Packets, Out

LEMMA SenderStill ==
    ASSUME Shape, NEW s \in Sender,
           SendTake(s) \/ ConnectFailed(s) \/ Connected(s) \/ ConnectEnd(s) \/ PopNone(s)
             \/ SendRearm(s)
    PROVE  Still
BY DEF Still, Shape, TypeOK, Place, SendTake, Take, ConnectFailed, Connected, ConnectEnd,
   PopNone,
   SendRearm, Goto, Done, Thread, linkVars, listVars, packetVars

LEMMA PoolStill ==
    ASSUME Shape, NEW t \in Receiver \cup Handler,
           RecvStep(t) \/ HandleStep(t) \/ ErrStep(t)
    PROVE  Still
BY LinkAssumption DEF Still, Shape, TypeOK, Place, RecvStep, HandleStep, ErrStep, RecvTake,
   HandleTake, Take, Read,
   ReadFailed, PeerClosed, Handled, Ask, Ignore, Del, Close, Goto, Done, Thread, linkVars, listVars, threadVars, packetVars

LEMMA LinkStill ==
    ASSUME NEW l \in Link, Open(l) \/ (\E p \in Packet : Arm(l, p))
    PROVE  Still
BY DEF Still, Open, Arm, listVars, threadVars, packetVars

LEMMA EventStill ==
    ASSUME NEW f \in Fd, Break(f) \/ Readable(f) \/ Writable(f)
    PROVE  Still
BY DEF Still, Break, Readable, Writable, Report, listVars, threadVars, packetVars
(* send_add: a packet nobody has had yet goes to the end of the list.      *)
LEMMA AddPackets ==
    ASSUME Shape, Packets, NEW l \in Link, NEW p \in Packet, SendAdd(l, p)
    PROVE  Packets'
<1>1. /\ \A m \in Link : p \notin Elements(order[m])
      /\ sendList' = [sendList EXCEPT ![l] = Append(@, p)]
      /\ order' = [order EXCEPT ![l] = Append(@, p)]
      /\ UNCHANGED <<on, held, wire, dropped>>
  BY DEF SendAdd, threadVars, packetVars
<1>2. order[l] \in Seq(Packet) /\ sendList[l] \in Seq(Packet)
  BY DEF Shape, TypeOK
<1>3. /\ order'[l] = Append(order[l], p) /\ sendList'[l] = Append(sendList[l], p)
      /\ \A m \in Link \ {l} : order'[m] = order[m] /\ sendList'[m] = sendList[m]
  BY <1>1 DEF Shape, TypeOK
<1>4. /\ Elements(order'[l]) = Elements(order[l]) \cup {p}
      /\ Elements(sendList'[l]) = Elements(sendList[l]) \cup {p}
      /\ NoRepeat(order'[l])
      /\ Suffix(order'[l], sendList'[l])
      /\ OutOf(order'[l], sendList'[l]) = OutOf(order[l], sendList[l])
  BY <1>1, <1>2, <1>3, AppendElements, SuffixAppend DEF Packets
<1>5. \A m \in Link : OutOf(order'[m], sendList'[m]) = OutOf(order[m], sendList[m])
  BY <1>3, <1>4
<1>6. \A s \in Sender : held[s] # None => on[s] \in Link
  BY DEF Shape, TypeOK, Place, Thread
<1>7. wire[p] = None
  BY <1>1 DEF Packets
<1>8. Held' = Held
  BY <1>1 DEF Held
<1>9. \A m \in Link : NoRepeat(order'[m]) /\ Suffix(order'[m], sendList'[m])
  BY <1>3, <1>4 DEF Packets
<1>10. \A m, o \in Link : m # o => Elements(order'[m]) \cap Elements(order'[o]) = {}
  <2>1. \A m, o \in Link : m # o => Elements(order[m]) \cap Elements(order[o]) = {}
    BY DEF Packets
  <2>2. \A m \in Link : Elements(order'[m]) = IF m = l THEN Elements(order[l]) \cup {p}
                                                     ELSE Elements(order[m])
    BY <1>3, <1>4
  <2>3. \A m \in Link : p \notin Elements(order[m])
    BY <1>1
  <2> QED
    BY ONLY <2>1, <2>2, <2>3
<1>11. /\ \A m \in Link : \A e \in Elements(sendList'[m]) : wire[e] = None
       /\ \A m \in Link : Elements(order[m]) \subseteq Elements(order'[m])
  BY <1>3, <1>4, <1>7 DEF Packets
<1> QED
  BY <1>1, <1>5, <1>6, <1>8, <1>9, <1>10, <1>11 DEF Packets, Out

(* data_send: the first packet is taken into the sender's hand.            *)
LEMMA PopPackets ==
    ASSUME Shape, Packets, NEW s \in Sender, Pop(s)
    PROVE  Packets'
<1> DEFINE l == on[s] h == Head(sendList[l])
<1>1. /\ pc[s] = "pop" /\ sendList[l] # <<>>
      /\ held' = [held EXCEPT ![s] = h]
      /\ sendList' = [sendList EXCEPT ![l] = Tail(@)]
      /\ UNCHANGED <<order, on, wire, dropped>>
  BY DEF Pop, Goto, packetVars
<1>2. l \in Link /\ held[s] = None /\ s \in Thread
  BY <1>1 DEF Shape, TypeOK, Place, Thread
<1>3. order[l] \in Seq(Packet) /\ sendList[l] \in Seq(Packet)
  BY <1>2 DEF Shape, TypeOK
<1>4. /\ sendList'[l] = Tail(sendList[l])
      /\ \A m \in Link \ {l} : sendList'[m] = sendList[m]
      /\ held'[s] = h
      /\ \A u \in Sender \ {s} : held'[u] = held[u]
  BY <1>1, <1>2 DEF Shape, TypeOK, Thread
<1>5. /\ Elements(sendList[l]) = Elements(sendList'[l]) \cup {h}
      /\ Suffix(order[l], sendList'[l])
      /\ OutOf(order[l], sendList'[l]) = OutOf(order[l], sendList[l]) \cup {h}
  BY <1>1, <1>2, <1>3, <1>4, PopElements, SuffixTail DEF Packets
<1>6. \A m \in Link : OutOf(order[m], sendList[m]) \subseteq OutOf(order[m], sendList'[m])
  BY <1>4, <1>5
<1>7. \A m \in Link : \A p \in OutOf(order[m], sendList'[m]) :
        p \in OutOf(order[m], sendList[m]) \/ p = h
  BY <1>4, <1>5
<1>8. h \in Held' /\ \A u \in Sender \ {s} : held[u] \in Held'
  BY <1>4 DEF Held
<1>9. \A p \in Held : p \in Held' \/ p = None
  BY <1>2, <1>8 DEF Held
<1>10. \A m \in Link : \A p \in OutOf(order[m], sendList[m]) : p # None
  <2>1. ASSUME NEW m \in Link PROVE OutOf(order[m], sendList[m]) \subseteq Packet
    <3>1. order[m] \in Seq(Packet) /\ sendList[m] \in Seq(Packet) /\ Suffix(order[m], sendList[m])
      BY DEF Shape, TypeOK, Packets
    <3> QED
      BY <3>1, SuffixParts, ElementsInSet
  <2> QED
    BY <2>1, LinkAssumption
<1>11. \A u \in Sender : held'[u] # None => held'[u] \in OutOf(order[on[u]], sendList'[on[u]])
  <2>1. \A u \in Sender : held[u] # None => on[u] \in Link
    BY DEF Shape, TypeOK, Place, Thread
  <2> QED
    BY <1>2, <1>4, <1>5, <1>6, <2>1 DEF Packets, Out
<1>12. \A m \in Link : \A p \in OutOf(order[m], sendList'[m]) :
         wire[p] # None \/ p \in dropped \cup Held'
  BY <1>7, <1>8, <1>9, <1>10 DEF Packets, Out
<1>13. \A m \in Link : Suffix(order[m], sendList'[m])
  BY <1>4, <1>5 DEF Packets
<1>14. \A m \in Link : \A p \in Elements(sendList'[m]) : wire[p] = None
  BY <1>4, <1>5 DEF Packets
<1> QED
  BY <1>1, <1>11, <1>12, <1>13, <1>14 DEF Packets, Out

(* A packet that was sent, or dropped, leaves the sender's hand.           *)
LEMMA LeavePackets ==
    ASSUME Shape, Packets, NEW s \in Sender, held[s] # None, held[s] \in Packet,
           UNCHANGED <<sendList, order>>,
           held' = [held EXCEPT ![s] = None],
           \A u \in Sender \ {s} : on'[u] = on[u],
           \/ wire' = [wire EXCEPT ![held[s]] = owner[sock[on[s]]]]
              /\ owner[sock[on[s]]] # None /\ dropped' = dropped
           \/ dropped' = dropped \cup {held[s]} /\ wire' = wire
    PROVE  Packets'
<1>1. held'[s] = None /\ \A u \in Sender \ {s} : held'[u] = held[u]
  BY DEF Shape, TypeOK, Thread
<1>2. held[s] \in Out(on[s]) /\ on[s] \in Link
  BY LinkAssumption DEF Packets, Shape, TypeOK, Place, Thread
<1>3. \A p \in Packet : p # held[s] => wire'[p] = wire[p]
  BY DEF Shape, TypeOK
<1>4. \A p \in Packet : wire[p] # None => wire'[p] # None
  BY DEF Shape, TypeOK
<1>5. ASSUME NEW m \in Link
      PROVE  /\ Elements(order[m]) = Out(m) \cup Elements(sendList[m])
             /\ Out(m) \cap Elements(sendList[m]) = {}
             /\ Elements(order[m]) \subseteq Packet
  BY SuffixParts, ElementsInSet DEF Shape, TypeOK, Packets, Out
<1>6. \A m \in Link : held[s] \notin Elements(sendList[m])
  BY <1>2, <1>5 DEF Packets
<1>7. held[s] \in dropped' \/ wire'[held[s]] # None
  BY DEF Shape, TypeOK
<1>8. \A m \in Link : \A p \in Out(m) : wire'[p] # None \/ p \in dropped' \cup Held'
  <2>1. \A p \in Held : p = held[s] \/ p \in Held'
    BY <1>1 DEF Held
  <2>2. dropped \subseteq dropped'
    OBVIOUS
  <2> QED
    BY <1>4, <1>5, <1>7, <2>1, <2>2 DEF Packets
<1>9. \A m \in Link : \A p \in Elements(sendList[m]) : wire'[p] = None
  BY <1>3, <1>5, <1>6 DEF Packets
<1>10. \A p \in Packet : wire'[p] # None => \E m \in Link : p \in Elements(order[m])
  BY <1>2, <1>3, <1>5 DEF Packets
<1>11. \A u \in Sender : held'[u] # None => held'[u] \in OutOf(order[on'[u]], sendList[on'[u]])
  BY <1>1 DEF Packets, Out
<1> QED
  BY <1>8, <1>9, <1>10, <1>11 DEF Packets, Out

LEMMA PacketsStep == Shape /\ Packets /\ [Next]_vars => Packets'
<1> SUFFICES ASSUME Shape, Packets, [Next]_vars PROVE Packets'
  OBVIOUS
<1>1. ASSUME NEW s \in Sender, Sent(s) \/ Interrupted(s) \/ NoRoom(s) \/ SendFailed(s)
      PROVE  Packets'
  <2>1. pc[s] = "write" /\ UNCHANGED <<sendList, order>>
    BY <1>1 DEF Sent, Interrupted, NoRoom, SendFailed, listVars
  <2>2. held[s] \in Packet
    BY <2>1 DEF Shape, TypeOK, Place, Thread
  <2>5. held[s] # None
    BY <2>2, LinkAssumption
  <2>3. /\ held' = [held EXCEPT ![s] = None]
        /\ \A u \in Sender \ {s} : on'[u] = on[u]
    BY <1>1 DEF Sent, Interrupted, NoRoom, SendFailed, Drop, Goto, Done, Shape, TypeOK,
       Thread
  <2>4. \/ wire' = [wire EXCEPT ![held[s]] = owner[sock[on[s]]]]
           /\ owner[sock[on[s]]] # None /\ dropped' = dropped
        \/ dropped' = dropped \cup {held[s]} /\ wire' = wire
    BY <1>1 DEF Sent, Interrupted, NoRoom, SendFailed, Drop, Usable
  <2> QED
    BY <2>1, <2>2, <2>3, <2>4, <2>5, LeavePackets
<1>2. CASE UNCHANGED vars
  BY <1>2, StillPackets DEF Still, vars, listVars, threadVars, packetVars
<1>3. CASE Next
  <2>1. ASSUME NEW s \in Sender, SendStep(s) PROVE Packets'
    BY <2>1, <1>1, PopPackets, SenderStill, StillPackets DEF SendStep
  <2>2. ASSUME NEW t \in Receiver \cup Handler, RecvStep(t) \/ HandleStep(t) \/ ErrStep(t)
        PROVE  Packets'
    BY <2>2, PoolStill, StillPackets
  <2>3. ASSUME NEW l \in Link, Open(l) \/ (\E p \in Packet : SendAdd(l, p) \/ Arm(l, p))
        PROVE  Packets'
    BY <2>3, AddPackets, LinkStill, StillPackets
  <2>4. ASSUME NEW f \in Fd, Break(f) \/ Readable(f) \/ Writable(f) PROVE Packets'
    BY <2>4, EventStill, StillPackets
  <2> QED
    BY <1>3, <2>1, <2>2, <2>3, <2>4 DEF Next
<1> QED
  BY <1>2, <1>3

-----------------------------------------------------------------------------
(* What an open link sends goes out on its own socket.                     *)
OwnWire ==
    revived \/ \A l \in Link : Opened(l) => \A p \in Elements(order[l]) : wire[p] \in {l, None}

(* A step that sends nothing, adds nothing and opens nothing.              *)
Quiet ==
    /\ UNCHANGED <<order, wire>>
    /\ revived => revived'
    /\ revived' \/ \A l \in Link : Opened(l)' => Opened(l)

LEMMA QuietWire == ASSUME OwnWire, Quiet PROVE OwnWire'
BY DEF OwnWire, Quiet

LEMMA SenderQuiet ==
    ASSUME Shape, NEW s \in Sender, SendStep(s), ~Sent(s) PROVE Quiet
<1>1. CASE ConnectEnd(s)
  <2>1. on[s] \in Link /\ status[on[s]] # "none"
    BY <1>1 DEF ConnectEnd, Shape, TypeOK, Place, Thread, Fresh
  <2> QED
    BY <1>1, <2>1 DEF ConnectEnd, Quiet, Opened, Shape, TypeOK, listVars, packetVars
<1>2. CASE ~ConnectEnd(s)
  BY <1>2 DEF Quiet, Opened, SendStep, SendTake, Take, ConnectFailed, Connected, Pop,
     PopNone, Interrupted,
    NoRoom, SendFailed, SendRearm, Drop, linkVars, listVars, packetVars
<1> QED
  BY <1>1, <1>2

LEMMA PoolQuiet ==
    ASSUME Shape, NEW t \in Receiver \cup Handler, RecvStep(t) \/ HandleStep(t) \/ ErrStep(t)
    PROVE  Quiet
<1>1. CASE Del(t)
  BY <1>1 DEF Del, Quiet, Opened, Shape, TypeOK, listVars, packetVars
<1>2. CASE ~Del(t)
  BY <1>2 DEF Quiet, Opened, RecvStep, HandleStep, ErrStep, RecvTake, HandleTake, Take,
     Read, ReadFailed,
    PeerClosed, Handled, Ask, Ignore, Close, linkVars, listVars, packetVars
<1> QED
  BY <1>1, <1>2

LEMMA WireStep == Shape /\ Owning /\ Packets /\ OwnWire /\ [Next]_vars => OwnWire'
<1> SUFFICES ASSUME Shape, Owning, Packets, OwnWire, [Next]_vars PROVE OwnWire'
  OBVIOUS
<1>1. ASSUME NEW s \in Sender, Sent(s) PROVE OwnWire'
  <2>1. /\ pc[s] = "write"
        /\ wire' = [wire EXCEPT ![held[s]] = owner[sock[on[s]]]]
        /\ UNCHANGED <<order, status, revived>>
    BY <1>1 DEF Sent, linkVars, listVars
  <2>2. held[s] \in Packet /\ on[s] \in Link /\ held[s] # None
    BY <2>1, LinkAssumption DEF Shape, TypeOK, Place, Thread
  <2>3. held[s] \in Elements(order[on[s]])
    BY <2>2, SuffixParts DEF Packets, Out, Shape, TypeOK
  <2>4. \A l \in Link : l # on[s] => held[s] \notin Elements(order[l])
    BY <2>2, <2>3 DEF Packets
  <2>5. revived \/ (Opened(on[s]) => owner[sock[on[s]]] = on[s])
    BY <2>2 DEF Owning
  <2>6. \A p \in Packet : wire'[p] = IF p = held[s] THEN owner[sock[on[s]]] ELSE wire[p]
    BY <2>1 DEF Shape, TypeOK
  <2>7. \A l \in Link : Elements(order[l]) \subseteq Packet
    BY ElementsInSet DEF Shape, TypeOK
  <2> QED
    BY <2>1, <2>2, <2>4, <2>5, <2>6, <2>7 DEF OwnWire, Opened
<1>2. ASSUME NEW l \in Link, NEW p \in Packet, SendAdd(l, p) PROVE OwnWire'
  <2>1. /\ \A m \in Link : p \notin Elements(order[m])
        /\ order' = [order EXCEPT ![l] = Append(@, p)]
        /\ UNCHANGED <<status, wire, revived>>
    BY <1>2 DEF SendAdd, linkVars, packetVars
  <2>2. order[l] \in Seq(Packet)
    BY DEF Shape, TypeOK
  <2>3. Elements(order'[l]) = Elements(order[l]) \cup {p}
    BY <2>1, <2>2, AppendElements DEF Shape, TypeOK
  <2>4. wire[p] = None
    BY <2>1 DEF Packets
  <2>5. \A m \in Link \ {l} : order'[m] = order[m]
    BY <2>1 DEF Shape, TypeOK
  <2> QED
    BY <2>1, <2>3, <2>4, <2>5 DEF OwnWire, Opened
<1>3. ASSUME NEW l \in Link, Open(l) PROVE OwnWire'
  <2>1. order[l] = <<>> /\ UNCHANGED <<order, wire, revived>>
    BY <1>3 DEF Open, Shape, Fresh, listVars, packetVars
  <2>2. \A m \in Link \ {l} : status'[m] = status[m]
    BY <1>3 DEF Open, Shape, TypeOK
  <2>3. Elements(<<>>) = {}
    BY DEF Elements
  <2> QED
    BY <2>1, <2>2, <2>3 DEF OwnWire, Opened
<1>4. ASSUME NEW l \in Link, NEW p \in Packet, Arm(l, p) PROVE OwnWire'
  BY <1>4, QuietWire DEF Arm, Quiet, Opened, linkVars, packetVars
<1>5. ASSUME NEW f \in Fd, Break(f) \/ Readable(f) \/ Writable(f) PROVE OwnWire'
  BY <1>5, QuietWire DEF Break, Readable, Writable, Report, Quiet, Opened, linkVars,
     listVars, packetVars
<1>6. CASE UNCHANGED vars
  BY <1>6, QuietWire DEF vars, Quiet, Opened, linkVars, listVars, packetVars
<1>7. CASE Next
  <2>1. ASSUME NEW s \in Sender, SendStep(s) PROVE OwnWire'
    BY <2>1, <1>1, SenderQuiet, QuietWire
  <2>2. ASSUME NEW t \in Receiver \cup Handler, RecvStep(t) \/ HandleStep(t) \/ ErrStep(t)
        PROVE  OwnWire'
    BY <2>2, PoolQuiet, QuietWire
  <2> QED
    BY <1>2, <1>3, <1>4, <1>5, <1>7, <2>1, <2>2 DEF Next
<1> QED
  BY <1>6, <1>7

-----------------------------------------------------------------------------
Inv == Shape /\ Owning /\ Packets /\ OwnWire

LEMMA InvAlways == Spec => []Inv
<1>1. Init => Inv
  <2>1. Init => OwnWire
    BY LinkAssumption DEF Init, OwnWire, Opened
  <2> QED
    BY <2>1, ShapeInit, OwningInit, PacketsInit DEF Inv
<1>2. Inv /\ [Next]_vars => Inv'
  BY ShapeStep, OwningStep, PacketsStep, WireStep DEF Inv
<1> QED
  BY <1>1, <1>2, PTL DEF Spec

(* The type invariant, including where a thread may hold a packet.         *)
THEOREM TypeCorrect == Spec => []TypeOK
<1>1. Inv => TypeOK
  BY DEF Inv, Shape
<1> QED
  BY <1>1, InvAlways, PTL

(* A link that is open has the socket it opened, unless a connect that     *)
(* ended late has overwritten the status of a deleted link.                *)
THEOREM SocketCorrect == Spec => []OwnSocket
<1>1. Inv => OwnSocket
  BY DEF Inv, Owning, OwnSocket
<1> QED
  BY <1>1, InvAlways, PTL

(* A deleted link is closed once, by one thread, under the same condition. *)
THEOREM CloseCorrect == Spec => []ClosedOnce
<1>1. Inv => ClosedOnce
  BY DEF Inv, Owning, ClosedOnce
<1> QED
  BY <1>1, InvAlways, PTL

(* An open link's packets and events are on its own socket, under the same *)
(* condition.                                                              *)
THEOREM TalkCorrect == Spec => []NoCrossTalk
<1>1. Inv => NoCrossTalk
  BY DEF Inv, Shape, Numbers, Owning, OwnWire, NoCrossTalk
<1> QED
  BY <1>1, InvAlways, PTL

(* Packets are sent in the order in which they were added, but for those   *)
(* that senders have in hand and those that were dropped.                  *)
THEOREM OrderCorrect == Spec => []NotOvertaken
<1>1. Inv => NotOvertaken
  BY PacketsOrder DEF Inv
<1> QED
  BY <1>1, InvAlways, PTL

=============================================================================

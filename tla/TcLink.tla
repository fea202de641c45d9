------------------------------- MODULE TcLink -------------------------------
(***************************************************************************)
(* The life of TCP client links in libtc: opened by the link threads       *)
(* (tc_create.c, tc_tcp.c), driven by one-shot events of the epoll loop    *)
(* (tc_epoll.c), worked on by the pools that send, receive and handle      *)
(* (tc_send.c, tc_recv.c, tc_handle.c over tc_transfer_proto_comm.c), and  *)
(* deleted by whichever of them meets an error that the user's err_handle  *)
(* answers with TC_LINK_DEL.  Sockets are numbers: after a close the       *)
(* number is free for the next link, while threads may still hold the old  *)
(* link and use the number it has in it.                                   *)
(***************************************************************************)
EXTENDS TcList, Integers

CONSTANTS
    Link,      \* links, each opened once
    Fd,        \* socket numbers
    Packet,    \* what users send, each packet once and on one link
    Sender,    \* the threads of the send pool,
    Receiver,  \*   of the receive pool,
    Handler,   \*   and of the handle pool
    Backlog,   \* bound: nodes of a link in the handle pool
    None       \* no link, no packet, no socket

Thread == Sender \cup Receiver \cup Handler

ASSUME LinkAssumption ==
    /\ None \notin Link \cup Fd \cup Packet
    /\ Backlog \in Nat
    /\ Sender \cap Receiver = {} /\ Sender \cap Handler = {} /\ Receiver \cap Handler = {}

VARIABLES
    status,    \* private_link_data.status: none before the link is opened, then
               \*   connect, send, gone (TC_STATUS_DISCONNECT)
    sock,      \* private_link_data.sock, which a close does not reset
    errFlag,   \* private_link_data.err_flag is TC_LINK_DEL
    sendList,  \* private_link_data.send_list
    arming,    \* packets in the list whose tc_epoll_data_send_mod is to come
    owner,     \* of each socket number, the link that opened it
    ptr,       \* epoll: the data.ptr registered with each number
    armed,     \* epoll: the event each waits for, off after it was reported
    broken,    \* SO_ERROR is set: an error the kernel reports once
    tasks,     \* nodes in the three pools: how many per pool and link
    pc, on, held,  \* of each thread: where it is, its cl_data, its io_data
    wire,      \* history: the owner of the socket each packet was sent on
    dropped,   \* history: packets taken out of a list and not sent
    order,     \* history: what was added to each list, in order
    revived    \* history: a connect that ended late has overwritten gone

linkVars   == <<status, sock, errFlag>>
listVars   == <<sendList, arming, order>>
epollVars  == <<ptr, armed>>
socketVars == <<owner, broken>>
threadVars == <<pc, on, held>>
packetVars == <<wire, dropped>>
vars == <<linkVars, listVars, epollVars, socketVars, tasks, threadVars, packetVars,
          revived>>

Pool == {"send", "recv", "handle"}

Init ==
    /\ status = [l \in Link |-> "none"]
    /\ sock = [l \in Link |-> None]
    /\ errFlag = [l \in Link |-> FALSE]
    /\ sendList = [l \in Link |-> <<>>]
    /\ arming = [l \in Link |-> {}]
    /\ order = [l \in Link |-> <<>>]
    /\ owner = [f \in Fd |-> None]
    /\ ptr = [f \in Fd |-> None]
    /\ armed = [f \in Fd |-> "off"]
    /\ broken = [f \in Fd |-> FALSE]
    /\ tasks = [q \in Pool |-> [l \in Link |-> 0]]
    /\ pc = [t \in Thread |-> "idle"]
    /\ on = [t \in Thread |-> None]
    /\ held = [t \in Thread |-> None]
    /\ wire = [p \in Packet |-> None]
    /\ dropped = {}
    /\ revived = FALSE

-----------------------------------------------------------------------------
(* tc_link_create_handle with tc_tcp_connect: the link has status connect  *)
(* by calloc and waits for its socket to become writable.                  *)
Open(l) ==
    /\ status[l] = "none"
    /\ \E f \in Fd :
        /\ owner[f] = None
        /\ sock' = [sock EXCEPT ![l] = f]
        /\ owner' = [owner EXCEPT ![f] = l]
        /\ ptr' = [ptr EXCEPT ![f] = l]
        /\ armed' = [armed EXCEPT ![f] = "out"]
    /\ status' = [status EXCEPT ![l] = "connect"]
    /\ UNCHANGED <<errFlag, listVars, broken, tasks, threadVars, packetVars, revived>>

(* tc_epoll_data_ctl(EPOLL_CTL_MOD) with the number that l has: it fails,  *)
(* unnoticed, if the number is closed; if it is another link's by now, l   *)
(* takes the events of that link.                                          *)
Mod(l, event) ==
    IF owner[sock[l]] = None
    THEN UNCHANGED <<ptr, armed>>
    ELSE /\ ptr' = [ptr EXCEPT ![sock[l]] = l]
         /\ armed' = [armed EXCEPT ![sock[l]] = event]

(* A connection breaks: what is next done with the socket fails.           *)
Break(f) ==
    /\ owner[f] # None /\ ~broken[f]
    /\ broken' = [broken EXCEPT ![f] = TRUE]
    /\ UNCHANGED <<linkVars, listVars, epollVars, owner, tasks, threadVars, packetVars, revived>>

(* tc_epoll_start: an event that was armed is reported once and becomes a  *)
(* node of the receive or the send pool.  An error is reported whatever    *)
(* was armed, and goes to the receive pool.                                *)
Report(f, pool) ==
    /\ armed' = [armed EXCEPT ![f] = "off"]
    /\ tasks' = [tasks EXCEPT ![pool][ptr[f]] = @ + 1]
    /\ UNCHANGED <<linkVars, listVars, ptr, socketVars, threadVars, packetVars, revived>>

Readable(f) ==
    /\ armed[f] = "in" \/ (armed[f] = "out" /\ broken[f])
    /\ tasks["handle"][ptr[f]] < Backlog
    /\ Report(f, "recv")

Writable(f) ==
    /\ armed[f] = "out" /\ ~broken[f]
    /\ Report(f, "send")

-----------------------------------------------------------------------------
(* tc_transfer_proto_comm_data_send_add, by any thread of the user's: the  *)
(* packet enters the list under send_mutex; then epoll is armed.           *)
SendAdd(l, p) ==
    /\ status[l] # "none"
    /\ \A m \in Link : p \notin Elements(order[m])
    /\ sendList' = [sendList EXCEPT ![l] = Append(@, p)]
    /\ order' = [order EXCEPT ![l] = Append(@, p)]
    /\ arming' = [arming EXCEPT ![l] = @ \cup {p}]
    /\ UNCHANGED <<linkVars, epollVars, socketVars, tasks, threadVars, packetVars, revived>>

Arm(l, p) ==
    /\ p \in arming[l]
    /\ arming' = [arming EXCEPT ![l] = @ \ {p}]
    /\ Mod(l, "out")
    /\ UNCHANGED <<linkVars, sendList, order, socketVars, tasks, threadVars, packetVars, revived>>

-----------------------------------------------------------------------------
(* A pool thread takes a node, and goes on where its callback begins.      *)
Take(t, pool, place) ==
    /\ pc[t] = "idle"
    /\ \E l \in Link :
        /\ tasks[pool][l] > 0
        /\ tasks' = [tasks EXCEPT ![pool][l] = @ - 1]
        /\ pc' = [pc EXCEPT ![t] = place[l]]
        /\ on' = [on EXCEPT ![t] = l]
    /\ UNCHANGED <<linkVars, listVars, epollVars, socketVars, held, packetVars, revived>>

Done(t) == pc' = [pc EXCEPT ![t] = "idle"] /\ on' = [on EXCEPT ![t] = None]
Goto(t, place) == pc' = [pc EXCEPT ![t] = place] /\ UNCHANGED on

-----------------------------------------------------------------------------
(* tc_send.  The status is read once, without a lock.                      *)
SendTake(s) ==
    Take(s, "send", [l \in Link |-> IF status[l] = "connect" THEN "connect" ELSE "pop"])

(* tc_send_connect_handle: SO_ERROR may say no, may not be had (the socket *)
(* is closed), or say that the link is connected; then connected_func is   *)
(* called, which may send as any user may.                                 *)
Usable(f) == owner[f] # None /\ ~broken[f]
Reported(f) == broken' = [broken EXCEPT ![f] = FALSE] /\ UNCHANGED owner

ConnectFailed(s) ==
    /\ pc[s] = "connect"
    /\ ~Usable(sock[on[s]])
    /\ Reported(sock[on[s]])
    /\ Mod(on[s], "out")
    /\ Done(s)
    /\ UNCHANGED <<linkVars, listVars, tasks, held, packetVars, revived>>

Connected(s) ==
    /\ pc[s] = "connect"
    /\ Usable(sock[on[s]])
    /\ Goto(s, "connected")
    /\ UNCHANGED <<linkVars, listVars, epollVars, socketVars, tasks, held, packetVars, revived>>

(* The status is written without a lock and without a look at it.          *)
ConnectEnd(s) ==
    /\ pc[s] = "connected"
    /\ status' = [status EXCEPT ![on[s]] = "send"]
    /\ revived' = (revived \/ status[on[s]] = "gone")
    /\ Done(s)
    /\ UNCHANGED <<sock, errFlag, listVars, epollVars, socketVars, tasks, held, packetVars>>

(* tc_transfer_proto_comm_data_send: take the first packet under           *)
(* send_mutex, if there is one ...                                         *)
(* A plausible bug: the last packet is taken.                              *)
PopLast(s) ==
    /\ pc[s] = "pop" /\ sendList[on[s]] # <<>>
    /\ held' = [held EXCEPT ![s] = sendList[on[s]][Len(sendList[on[s]])]]
    /\ sendList' = [sendList EXCEPT ![on[s]] = SubSeq(@, 1, Len(@) - 1)]
    /\ Goto(s, "write")
    /\ UNCHANGED <<linkVars, arming, order, epollVars, socketVars, tasks, packetVars, revived>>

Pop(s) ==
    /\ pc[s] = "pop" /\ sendList[on[s]] # <<>>
    /\ held' = [held EXCEPT ![s] = Head(sendList[on[s]])]
    /\ sendList' = [sendList EXCEPT ![on[s]] = Tail(@)]
    /\ Goto(s, "write")
    /\ UNCHANGED <<linkVars, arming, order, epollVars, socketVars, tasks, packetVars, revived>>

(* A plausible bug: an empty list is not noticed.                          *)
PopNothing(s) ==
    /\ pc[s] = "pop" /\ sendList[on[s]] = <<>>
    /\ Goto(s, "write")
    /\ UNCHANGED <<linkVars, listVars, epollVars, socketVars, tasks, held, packetVars, revived>>

PopNone(s) ==
    /\ pc[s] = "pop" /\ sendList[on[s]] = <<>>
    /\ Goto(s, "rearm")
    /\ UNCHANGED <<linkVars, listVars, epollVars, socketVars, tasks, held, packetVars, revived>>

(* ... and send it on the number that the link has, whoever owns it now.   *)
Sent(s) ==
    /\ pc[s] = "write"
    /\ Usable(sock[on[s]])
    /\ wire' = [wire EXCEPT ![held[s]] = owner[sock[on[s]]]]
    /\ held' = [held EXCEPT ![s] = None]
    /\ Goto(s, "pop")
    /\ UNCHANGED <<linkVars, listVars, epollVars, socketVars, tasks, dropped, revived>>

(* A packet that is not sent is not put back.                              *)
Drop(s) ==
    /\ dropped' = dropped \cup {held[s]}
    /\ held' = [held EXCEPT ![s] = None]
    /\ UNCHANGED wire

(* Interrupted, the loop goes on with the next one ...                     *)
Interrupted(s) ==
    /\ pc[s] = "write"
    /\ Drop(s)
    /\ Goto(s, "pop")
    /\ UNCHANGED <<linkVars, listVars, epollVars, socketVars, tasks, revived>>

(* ... with no room it ends, to go on when there is ...                    *)
NoRoom(s) ==
    /\ pc[s] = "write"
    /\ Drop(s)
    /\ Mod(on[s], "out")
    /\ Done(s)
    /\ UNCHANGED <<linkVars, listVars, socketVars, tasks, revived>>

(* ... at an error the user is asked, and his answer kept in the link, but *)
(* not acted on; a closed number is an error, too ...                      *)
SendFailed(s) ==
    /\ pc[s] = "write"
    /\ ~Usable(sock[on[s]])
    /\ Reported(sock[on[s]])
    /\ Drop(s)
    /\ \E del \in BOOLEAN : errFlag' = [errFlag EXCEPT ![on[s]] = del]
    /\ Done(s)
    /\ UNCHANGED <<status, sock, listVars, epollVars, tasks, revived>>

(* ... and with nothing left the link waits for input.                     *)
SendRearm(s) ==
    /\ pc[s] = "rearm"
    /\ Mod(on[s], "in")
    /\ Done(s)
    /\ UNCHANGED <<linkVars, listVars, socketVars, tasks, held, packetVars, revived>>

SendStep(s) ==
    \/ SendTake(s) \/ ConnectFailed(s) \/ Connected(s) \/ ConnectEnd(s)
    \/ Pop(s) \/ PopNone(s) \/ Sent(s)
    \/ Interrupted(s) \/ NoRoom(s) \/ SendFailed(s) \/ SendRearm(s)

-----------------------------------------------------------------------------
(* tc_recv.  What the user makes of the data, and whether he is told of    *)
(* them, is left out; with no more to read, or on a closed number, epoll   *)
(* is armed again and the link goes to the handle pool.                    *)
RecvTake(r) == Take(r, "recv", [l \in Link |-> "read"])

Read(r) ==
    /\ pc[r] = "read"
    /\ ~broken[sock[on[r]]]
    /\ Mod(on[r], "in")
    /\ tasks' = [tasks EXCEPT !["handle"][on[r]] = @ + 1]
    /\ Done(r)
    /\ UNCHANGED <<linkVars, listVars, socketVars, held, packetVars, revived>>

(* An error, or the peer has closed.  In the last seconds of the program a *)
(* close is not looked at.                                                 *)
ReadFailed(r) ==
    /\ pc[r] = "read"
    /\ broken[sock[on[r]]]
    /\ Reported(sock[on[r]])
    /\ Goto(r, "ask")
    /\ UNCHANGED <<linkVars, listVars, epollVars, tasks, held, packetVars, revived>>

PeerClosed(r) ==
    /\ pc[r] = "read"
    /\ Usable(sock[on[r]])
    /\ Goto(r, "ask") \/ Done(r)
    /\ UNCHANGED <<linkVars, listVars, epollVars, socketVars, tasks, held, packetVars, revived>>

(* tc_handle: handle_data may fail.                                        *)
HandleTake(h) == Take(h, "handle", [l \in Link |-> "handle"])

Handled(h) ==
    /\ pc[h] = "handle"
    /\ Goto(h, "ask") \/ Done(h)
    /\ UNCHANGED <<linkVars, listVars, epollVars, socketVars, tasks, held, packetVars, revived>>

-----------------------------------------------------------------------------
(* Both pools ask err_handle, store the answer in the link, and then act   *)
(* on what is stored: tc_create_link_err_handle.                           *)
Ask(t) ==
    /\ pc[t] = "ask"
    /\ \E del \in BOOLEAN : errFlag' = [errFlag EXCEPT ![on[t]] = del]
    /\ Goto(t, "act")
    /\ UNCHANGED <<status, sock, listVars, epollVars, socketVars, tasks, held, packetVars,
                   revived>>

Ignore(t) ==
    /\ pc[t] = "act"
    /\ ~errFlag[on[t]]
    /\ Done(t)
    /\ UNCHANGED <<linkVars, listVars, epollVars, socketVars, tasks, held, packetVars, revived>>

(* tc_create_link_data_del: the first to come has the link to delete.      *)
(* A plausible bug: whoever comes deletes it.                              *)
DelAgain(t) ==
    /\ pc[t] = "act"
    /\ errFlag[on[t]]
    /\ status' = [status EXCEPT ![on[t]] = "gone"]
    /\ Goto(t, "close")
    /\ UNCHANGED <<sock, errFlag, listVars, epollVars, socketVars, tasks, held, packetVars,
                   revived>>

(* A plausible bug: the status is tested and not set.                      *)
DelUnmarked(t) ==
    /\ pc[t] = "act"
    /\ errFlag[on[t]]
    /\ IF status[on[t]] = "gone" THEN Done(t) ELSE Goto(t, "close")
    /\ UNCHANGED <<linkVars, listVars, epollVars, socketVars, tasks, held, packetVars, revived>>

Del(t) ==
    /\ pc[t] = "act"
    /\ errFlag[on[t]]
    /\ status' = [status EXCEPT ![on[t]] = "gone"]
    /\ IF status[on[t]] = "gone" THEN Done(t) ELSE Goto(t, "close")
    /\ UNCHANGED <<sock, errFlag, listVars, epollVars, socketVars, tasks, held, packetVars,
                   revived>>

(* The number is taken out of epoll and closed; pending events go with it. *)
Close(t) ==
    /\ pc[t] = "close"
    /\ owner' = [owner EXCEPT ![sock[on[t]]] = None]
    /\ ptr' = [ptr EXCEPT ![sock[on[t]]] = None]
    /\ armed' = [armed EXCEPT ![sock[on[t]]] = "off"]
    /\ broken' = [broken EXCEPT ![sock[on[t]]] = FALSE]
    /\ Done(t)
    /\ UNCHANGED <<linkVars, listVars, tasks, held, packetVars, revived>>

ErrStep(t) == Ask(t) \/ Ignore(t) \/ Del(t) \/ Close(t)
RecvStep(r) == RecvTake(r) \/ Read(r) \/ ReadFailed(r) \/ PeerClosed(r)
HandleStep(h) == HandleTake(h) \/ Handled(h)

-----------------------------------------------------------------------------
Next ==
    \/ \E l \in Link : Open(l) \/ \E p \in Packet : SendAdd(l, p) \/ Arm(l, p)
    \/ \E f \in Fd : Break(f) \/ Readable(f) \/ Writable(f)
    \/ \E s \in Sender : SendStep(s)
    \/ \E r \in Receiver : RecvStep(r) \/ ErrStep(r)
    \/ \E h \in Handler : HandleStep(h) \/ ErrStep(h)

Spec == Init /\ [][Next]_vars

(* A socket armed for output is reported and so is a broken one, the       *)
(* threads are scheduled and callbacks return.  Input need not come.       *)
Due(f) == (armed[f] = "out" \/ broken[f]) /\ (Readable(f) \/ Writable(f))

Fairness ==
    /\ \A f \in Fd : WF_vars(Due(f))
    /\ \A l \in Link, p \in Packet : WF_vars(Arm(l, p))
    /\ \A s \in Sender : WF_vars(SendStep(s))
    /\ \A r \in Receiver : WF_vars(RecvStep(r)) /\ WF_vars(ErrStep(r))
    /\ \A h \in Handler : WF_vars(HandleStep(h)) /\ WF_vars(ErrStep(h))

FairSpec == Spec /\ Fairness

-----------------------------------------------------------------------------
ErrPlace == {"ask", "act", "close"}
PlaceName ==
    {"idle", "connect", "connected", "pop", "write", "rearm", "read", "handle"} \cup ErrPlace
Place ==
    /\ \A s \in Sender : pc[s] \in {"idle", "connect", "connected", "pop", "write", "rearm"}
    /\ \A r \in Receiver : pc[r] \in {"idle", "read"} \cup ErrPlace
    /\ \A h \in Handler : pc[h] \in {"idle", "handle"} \cup ErrPlace
    /\ \A t \in Thread : /\ pc[t] # "idle" <=> on[t] \in Link
                         /\ pc[t] = "write" <=> held[t] \in Packet

TypeOK ==
    /\ status \in [Link -> {"none", "connect", "send", "gone"}]
    /\ sock \in [Link -> Fd \cup {None}]
    /\ errFlag \in [Link -> BOOLEAN]
    /\ sendList \in [Link -> Seq(Packet)]
    /\ arming \in [Link -> SUBSET Packet]
    /\ order \in [Link -> Seq(Packet)]
    /\ owner \in [Fd -> Link \cup {None}]
    /\ ptr \in [Fd -> Link \cup {None}]
    /\ armed \in [Fd -> {"off", "in", "out"}]
    /\ broken \in [Fd -> BOOLEAN]
    /\ tasks \in [Pool -> [Link -> Nat]]
    /\ on \in [Thread -> Link \cup {None}]
    /\ held \in [Thread -> Packet \cup {None}]
    /\ pc \in [Thread -> PlaceName] /\ Place
    /\ wire \in [Packet -> Link \cup {None}]
    /\ dropped \in SUBSET Packet
    /\ revived \in BOOLEAN

(* An open link has the socket it opened: a number that another link got   *)
(* is never closed by this one.  It rests on data_del's test and set of    *)
(* the status, so it ends when a connect overwrites the status of a link   *)
(* that was deleted meanwhile: the link can be deleted again then, and     *)
(* close a number that is another's by now.                                *)
Opened(l) == status[l] \in {"connect", "send"}
OwnSocket ==
    revived \/ \A l \in Link : Opened(l) => owner[sock[l]] = l

(* No packet is sent on another link's socket and no event of a socket     *)
(* goes to another link than the one that owns it, unless by a thread that *)
(* had a node of a link when it was deleted, or a user who goes on sending *)
(* on it: deleted links are the only ones that meddle with others.         *)
NoCrossTalk ==
    revived \/ \A l \in Link : Opened(l) =>
        /\ \A p \in Elements(order[l]) : wire[p] \in {l, None}
        /\ \A f \in Fd : ptr[f] = l => owner[f] = l

(* The packets of a link are sent in the order in which they were added,   *)
(* but for those a sender has in hand, at most one for each thread of the  *)
(* pool (with one thread, the default, the order is kept), and for those   *)
(* that were dropped.                                                      *)
Held == {held[s] : s \in Sender}
NotOvertaken ==
    \A l \in Link : \A i, j \in DOMAIN order[l] :
        i < j /\ wire[order[l][j]] # None =>
            wire[order[l][i]] # None \/ order[l][i] \in dropped \cup Held

(* A link that is deleted is closed once: one thread closes it, and only   *)
(* then its number is free.                                                *)
Closing(t, l) == pc[t] = "close" /\ on[t] = l
ClosedOnce ==
    revived \/ \A l \in Link :
        /\ \A t, u \in Thread : Closing(t, l) /\ Closing(u, l) => t = u
        /\ status[l] = "gone" =>
              (owner[sock[l]] = l <=> \E t \in Thread : Closing(t, l))

(* harbor_func in tc_create.h has downstream send a packet when the event  *)
(* is set to TC_EVENT_WRITE: a packet whose event is set on an open link   *)
(* is taken up, if the event is not lost to an error or to a deletion.     *)
EventIsKept ==
    \A l \in Link, p \in Packet : (status[l] = "send" /\ p \in arming[l]) ~>
        \/ p \notin Elements(sendList[l])
        \/ status[l] = "gone"
        \/ [](armed[sock[l]] = "off")

=============================================================================

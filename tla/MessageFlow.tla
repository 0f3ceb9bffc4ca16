---------------------------- MODULE MessageFlow ----------------------------
(***************************************************************************)
(* The message pipeline of the gateway: the inbound queue qMSGin, the two  *)
(* outbound queues qTTYout and qETHout, the per-port queues MsgQout, and   *)
(* the two threads that move entries between them.                         *)
(*                                                                         *)
(*   - the Comm thread (threadComm) purges old entries, routes qMSGin,     *)
(*     empties qTTYout into the COM port queues and transmits from them;   *)
(*   - the Socket thread (threadTCPserver) services every socket in turn   *)
(*     and moves one qETHout entry per loop into a socket queue;           *)
(*   - the main thread and the command line flip Me.IsActive at any time.  *)
(*                                                                         *)
(* A step is the code between two points where the other thread can be     *)
(* observed: one critical section, or one unlocked read that is used after *)
(* it.  The payload of a message is its identity; its time stamp is an age *)
(* that saturates just above maxQage, since only the purges look at it.    *)
(* Messages here are ASCII text or NMEA sentences: the duplicate filter    *)
(* lets them pass and the paging stitcher sends them one by one.           *)
(***************************************************************************)
EXTENDS Integers, Sequences, FiniteSets

CONSTANTS
  Devs,        \* device designator indexes
  NTty,        \* number of COM ports (MAX_TTY)
  NSock,       \* number of socket objects (MAXSOCKETS)
  TtyDev,      \* COM port -> the device designator bound to it (myDevIndex)
  SockDev,     \* socket   -> the device designator bound to it (myDevDesIndex)
  TtyDevs,     \* the designators for which OurDevices.IsTTY() holds
  RouteTable,  \* sequence of [src, dst] entries, scanned in order
  maxQcount,   \* most entries a port queue holds (setting MAXQCOUNT)
  maxQage,     \* age above which the head of a port queue is purged
  PurgeBatch,  \* sockets purged per pass of the Comm loop (20)
  MAX_WDC_PURGE, \* most entries one pass removes for being over the limit
  InBatch,     \* most qMSGin entries routed per pass (500)
  MoveBatch,   \* most qTTYout entries moved per pass (200)
  MaxMsg       \* bound: messages that ever arrive

Tty  == 1 .. NTty
Sock == 1 .. NSock
Routes == 1 .. Len(RouteTable)

ASSUME SizesAssumption ==
  /\ NTty \in Nat \ {0} /\ NSock \in Nat \ {0}
  /\ maxQcount \in Nat /\ maxQcount > 1     \* settings.cpp refuses less
  /\ maxQage \in Nat /\ MaxMsg \in Nat
  /\ PurgeBatch \in Nat \ {0} /\ MAX_WDC_PURGE \in Nat \ {0}
  /\ InBatch \in Nat \ {0} /\ MoveBatch \in Nat \ {0}

ASSUME TablesAssumption ==
  /\ TtyDevs \subseteq Devs
  /\ TtyDev \in [Tty -> Devs] /\ SockDev \in [Sock -> Devs]
  /\ RouteTable \in Seq([src : Devs, dst : Devs])

VARIABLES
  qMSGin,       \* entries parsed from any port, waiting for the router
  qTTYout,      \* routed copies for serial devices
  qETHout,      \* routed copies for socket devices
  comQ,         \* COMport[t].MsgQout
  tcpQ,         \* tcpsockets[s].MsgQout
  IsActive,     \* Me.IsActive
  FailedTTYOut, \* copies the serial mover could not place
  FailedSockOut,\* copies the socket mover could not place
  comm,         \* where the Comm thread is in its loop, and its loop variables
  idx,          \* static cursor of PurgeOldMessages over the sockets
  j,            \* static cursor of PurgeOldMessages over the COM ports
  sockpc,       \* where the Socket thread is in its loop, and at which socket
  hand,         \* the qETHout entry the Socket thread holds (TopEntry), if any
  arrived,      \* number of messages that have arrived so far
  popUB,        \* std::queue::pop() was called on an empty queue
  sent,         \* history: port -> the copies written to it, in order
  gone,         \* history: copies that left the pipeline unsent
  routed,       \* history: copies the router made
  lateSends     \* history: writes per thread since IsActive last became FALSE

queues == <<qMSGin, qTTYout, qETHout, comQ, tcpQ>>
history == <<sent, gone, routed, lateSends>>
vars == <<queues, IsActive, FailedTTYOut, FailedSockOut, comm, idx, j, sockpc,
          hand, arrived, popUB, history>>

Older == maxQage + 1              \* any age above maxQage
Ages  == 0 .. Older
Ports == ({"tty"} \X Tty) \cup ({"sock"} \X Sock)
Entry == [id : 1 .. MaxMsg, r : Routes, age : Ages]
Input == [id : 1 .. MaxMsg, src : Devs, age : Ages]
Copy  == (1 .. MaxMsg) \X Routes

CopyOf(e) == <<e.id, e.r>>
Dest(e)   == RouteTable[e.r].dst

-----------------------------------------------------------------------------
(* Arrival: parse() pushes one entry at the back of qMSGin under qlock, from *)
(* the thread that read the port.                                            *)

Receive(dev) ==
  /\ arrived < MaxMsg
  /\ arrived' = arrived + 1
  /\ qMSGin' = Append(qMSGin, [id |-> arrived + 1, src |-> dev, age |-> 0])

NoReceive == UNCHANGED <<arrived, qMSGin>>

(* A write to a port, by the thread that does it. *)
Write(port, e, thread) ==
  /\ sent' = [sent EXCEPT ![port] = Append(@, CopyOf(e))]
  /\ lateSends' = [lateSends EXCEPT
                     ![thread] = IF IsActive \/ @ = 2 THEN @ ELSE @ + 1]

Discard(C) == gone' = gone \cup C

\* The two queue operations every transfer is made of, and slips in them.
PushFront(q, e) == <<e>> \o q
PushBack(q, e)  == Append(q, e)
FrontOnly(q) == q
PopFront(q)  == Tail(q)

-----------------------------------------------------------------------------
(* The Comm thread: PurgeOldMessages, the qMSGin loop, HandleRS232Comms.     *)

CommAt(step) == ~popUB /\ comm.pc = step

\* The size of the socket queue is read before the lock is taken ...
PurgeLimit ==
  /\ CommAt("limit")
  /\ comm' = [comm EXCEPT !.pc =
                IF /\ Len(tcpQ[idx]) >= maxQcount - 1
                   /\ comm.wdc < MAX_WDC_PURGE
                   /\ Len(tcpQ[idx]) > 0
                THEN "pop" ELSE "age"]
  /\ UNCHANGED <<queues, IsActive, FailedTTYOut, FailedSockOut, idx, j, sockpc,
                 hand, arrived, popUB, history>>

\* ... and the oldest entry is removed under it, however many are left by then.
PurgePop ==
  /\ CommAt("pop")
  /\ comm' = [comm EXCEPT !.pc = "limit", !.wdc = @ + 1]
  /\ \/ /\ tcpQ[idx] # <<>>
        /\ tcpQ' = [tcpQ EXCEPT ![idx] = Tail(@)]
        /\ Discard({CopyOf(Head(tcpQ[idx]))})
        /\ UNCHANGED popUB
     \/ /\ tcpQ[idx] = <<>>
        /\ popUB' = TRUE
        /\ UNCHANGED <<tcpQ, gone>>
  /\ UNCHANGED <<qMSGin, qTTYout, qETHout, comQ, IsActive, FailedTTYOut,
                 FailedSockOut, idx, j, sockpc, hand, arrived, sent, routed,
                 lateSends>>

NeverOld(q)  == FALSE
HeadIsOld(q) == q # <<>> /\ Head(q).age > maxQage

PurgeAge ==
  /\ CommAt("age")
  /\ IF HeadIsOld(tcpQ[idx])
     THEN /\ tcpQ' = [tcpQ EXCEPT ![idx] = Tail(@)]
          /\ Discard({CopyOf(Head(tcpQ[idx]))})
     ELSE UNCHANGED <<tcpQ, gone>>
  /\ idx' = IF idx = NSock THEN 1 ELSE idx + 1
  /\ comm' = IF comm.n + 1 < PurgeBatch
             THEN [comm EXCEPT !.pc = "limit", !.n = @ + 1]
             ELSE [comm EXCEPT !.pc = "ttyPurge", !.n = 0]
  /\ UNCHANGED <<qMSGin, qTTYout, qETHout, comQ, IsActive, FailedTTYOut,
                 FailedSockOut, j, sockpc, hand, arrived, popUB, sent, routed,
                 lateSends>>

\* One COM port per pass.  Only this thread touches the COM port queues.
PurgeTty ==
  /\ CommAt("ttyPurge")
  /\ LET over == IF Len(comQ[j]) > maxQcount THEN Len(comQ[j]) - maxQcount ELSE 0
         room == MAX_WDC_PURGE - comm.wdc
         cut  == IF over < room THEN over ELSE room
         q    == SubSeq(comQ[j], cut + 1, Len(comQ[j]))
     IN /\ comQ' = [comQ EXCEPT ![j] = IF HeadIsOld(q) THEN Tail(q) ELSE q]
        /\ Discard({CopyOf(comQ[j][i]) :
                      i \in 1 .. (Len(comQ[j]) - Len(comQ'[j]))})
  /\ j' = IF j = NTty THEN 1 ELSE j + 1
  /\ comm' = [comm EXCEPT !.pc = "input"]
  /\ UNCHANGED <<qMSGin, qTTYout, qETHout, tcpQ, IsActive, FailedTTYOut,
                 FailedSockOut, idx, sockpc, hand, arrived, popUB, sent, routed,
                 lateSends>>

\* processMSGinput looks at the front entry but pops it only when it is done.
NextInput ==
  /\ CommAt("input")
  /\ comm' = IF qMSGin # <<>> /\ comm.n < InBatch
             THEN [comm EXCEPT !.pc = "scan"]
             ELSE [comm EXCEPT !.pc = "serialIn"]
  /\ UNCHANGED <<queues, IsActive, FailedTTYOut, FailedSockOut, idx, j, sockpc,
                 hand, arrived, popUB, history>>

\* One route table entry: RouteBinTo pushes a copy under qlock if it matches.
RouteEntry ==
  /\ CommAt("scan")
  /\ comm.r \in Routes
  /\ LET m == Head(qMSGin)
         e == [id |-> m.id, r |-> comm.r, age |-> m.age]
     IN IF RouteTable[comm.r].src = m.src
        THEN /\ routed' = routed \cup {CopyOf(e)}
             /\ IF Dest(e) \in TtyDevs
                THEN qTTYout' = Append(qTTYout, e) /\ UNCHANGED qETHout
                ELSE qETHout' = Append(qETHout, e) /\ UNCHANGED qTTYout
        ELSE UNCHANGED <<routed, qTTYout, qETHout>>
  /\ comm' = [comm EXCEPT !.r = @ + 1]
  /\ UNCHANGED <<qMSGin, comQ, tcpQ, IsActive, FailedTTYOut, FailedSockOut, idx,
                 j, sockpc, hand, arrived, popUB, sent, gone, lateSends>>

PopInput ==
  /\ CommAt("scan")
  /\ comm.r \notin Routes
  /\ qMSGin' = Tail(qMSGin)
  /\ comm' = [comm EXCEPT !.pc = "input", !.n = @ + 1, !.r = 1]
  /\ UNCHANGED <<qTTYout, qETHout, comQ, tcpQ, IsActive, FailedTTYOut,
                 FailedSockOut, idx, j, sockpc, hand, arrived, popUB, history>>

\* GetChars on every COM port; a complete message may have come in on one.
SerialIn ==
  /\ CommAt("serialIn")
  /\ (\E t \in Tty : Receive(TtyDev[t])) \/ NoReceive
  /\ comm' = [comm EXCEPT !.pc = "move", !.n = 0]
  /\ UNCHANGED <<qTTYout, qETHout, comQ, tcpQ, IsActive, FailedTTYOut,
                 FailedSockOut, idx, j, sockpc, hand, popUB, history>>

\* The COM port bound to device d: the first one in index order.
BoundTty(d) == {t \in Tty : TtyDev[t] = d /\ \A u \in Tty : TtyDev[u] = d => t <= u}

RoomForOneMore(t) == Len(comQ[t]) <= maxQcount
HasRoom(t)        == Len(comQ[t]) < maxQcount

\* Pop under qlock, then look for the port.  A full queue refuses the new entry.
MoveTty ==
  /\ CommAt("move")
  /\ qTTYout # <<>> /\ comm.n < MoveBatch
  /\ qTTYout' = Tail(qTTYout)
  /\ LET e == Head(qTTYout)
         ok == {t \in BoundTty(Dest(e)) : IsActive /\ HasRoom(t)}
     IN /\ comQ' = [t \in Tty |-> IF t \in ok THEN PushBack(comQ[t], e) ELSE comQ[t]]
        /\ IF ok = {}
           THEN FailedTTYOut' = FailedTTYOut + 1 /\ Discard({CopyOf(e)})
           ELSE UNCHANGED <<FailedTTYOut, gone>>
  /\ comm' = [comm EXCEPT !.n = @ + 1]
  /\ UNCHANGED <<qMSGin, qETHout, tcpQ, IsActive, FailedSockOut, idx, j, sockpc,
                 hand, arrived, popUB, sent, routed, lateSends>>

MoveTtyDone ==
  /\ CommAt("move")
  /\ qTTYout = <<>> \/ comm.n >= MoveBatch
  /\ comm' = [comm EXCEPT !.pc = "check", !.n = 0, !.port = 1]
  /\ UNCHANGED <<queues, IsActive, FailedTTYOut, FailedSockOut, idx, j, sockpc,
                 hand, arrived, popUB, history>>

\* After the last port the loop starts its next pass.
NextPort == IF comm.port < NTty
            THEN [comm EXCEPT !.pc = "check", !.port = @ + 1]
            ELSE [comm EXCEPT !.pc = "limit", !.wdc = 0, !.port = 1]

\* Nothing queued, or the line is not ready (busy channel, flow control, pause).
PortNotReady ==
  /\ CommAt("check")
  /\ comm' = NextPort
  /\ UNCHANGED <<queues, IsActive, FailedTTYOut, FailedSockOut, idx, j, sockpc,
                 hand, arrived, popUB, history>>

\* An inactive gateway removes the entry without sending it ...
DropInactive ==
  /\ CommAt("check")
  /\ comQ[comm.port] # <<>>
  /\ ~IsActive
  /\ comQ' = [comQ EXCEPT ![comm.port] = Tail(@)]
  /\ Discard({CopyOf(Head(comQ[comm.port]))})
  /\ comm' = NextPort
  /\ UNCHANGED <<qMSGin, qTTYout, qETHout, tcpQ, IsActive, FailedTTYOut,
                 FailedSockOut, idx, j, sockpc, hand, arrived, popUB, sent,
                 routed, lateSends>>

\* ... an active one goes on to SendBytes.
CheckActive ==
  /\ CommAt("check")
  /\ comQ[comm.port] # <<>>
  /\ IsActive
  /\ comm' = [comm EXCEPT !.pc = "send"]
  /\ UNCHANGED <<queues, IsActive, FailedTTYOut, FailedSockOut, idx, j, sockpc,
                 hand, arrived, popUB, history>>

SendTty ==
  /\ CommAt("send")
  /\ Write(<<"tty", comm.port>>, Head(comQ[comm.port]), "comm")
  /\ comQ' = [comQ EXCEPT ![comm.port] = PopFront(@)]
  /\ comm' = NextPort
  /\ UNCHANGED <<qMSGin, qTTYout, qETHout, tcpQ, IsActive, FailedTTYOut,
                 FailedSockOut, idx, j, sockpc, hand, arrived, popUB, gone,
                 routed>>

CommStep ==
  \/ PurgeLimit \/ PurgePop \/ PurgeAge \/ PurgeTty
  \/ NextInput \/ RouteEntry \/ PopInput
  \/ SerialIn \/ MoveTty \/ MoveTtyDone
  \/ PortNotReady \/ DropInactive \/ CheckActive \/ SendTty

-----------------------------------------------------------------------------
(* The Socket thread.                                                        *)

SockAt(step) == ~popUB /\ sockpc.pc = step

PastLastSocket == IF sockpc.s <= NSock
                  THEN [pc |-> "service", s |-> sockpc.s + 1]
                  ELSE [pc |-> "take", s |-> 1]
NextSocket == IF sockpc.s < NSock
              THEN [pc |-> "service", s |-> sockpc.s + 1]
              ELSE [pc |-> "take", s |-> 1]

Unconditionally == TRUE
MayService == IsActive

\* Me.IsActive is read once, before the socket is serviced or disconnected.
ServiceSocket ==
  /\ SockAt("service")
  /\ sockpc' = IF MayService THEN [sockpc EXCEPT !.pc = "recv"] ELSE NextSocket
  /\ UNCHANGED <<queues, IsActive, FailedTTYOut, FailedSockOut, comm, idx, j,
                 hand, arrived, popUB, history>>

\* tcp_socket(): not connected returns early, otherwise data may have come in.
SocketIn ==
  /\ SockAt("recv")
  /\ \/ sockpc' = NextSocket /\ NoReceive
     \/ /\ sockpc' = [sockpc EXCEPT !.pc = "send"]
        /\ Receive(SockDev[sockpc.s]) \/ NoReceive
  /\ UNCHANGED <<qTTYout, qETHout, comQ, tcpQ, IsActive, FailedTTYOut,
                 FailedSockOut, comm, idx, j, hand, popUB, history>>

\* One entry is popped under the socket's lock and then written: the write may
\* fail, and the entry is lost with the connection.  A paused output pops none.
SocketOut ==
  /\ SockAt("send")
  /\ LET q == tcpQ[sockpc.s]
     IN \/ UNCHANGED <<tcpQ, sent, gone, lateSends>>
        \/ /\ q # <<>>
           /\ tcpQ' = [tcpQ EXCEPT ![sockpc.s] = PopFront(@)]
           /\ \/ Write(<<"sock", sockpc.s>>, Head(q), "sock") /\ UNCHANGED gone
              \/ Discard({CopyOf(Head(q))}) /\ UNCHANGED <<sent, lateSends>>
  /\ sockpc' = NextSocket
  /\ UNCHANGED <<qMSGin, qTTYout, qETHout, comQ, IsActive, FailedTTYOut,
                 FailedSockOut, comm, idx, j, hand, arrived, popUB, routed>>

TakeEth ==
  /\ SockAt("take")
  /\ IF qETHout = <<>>
     THEN /\ sockpc' = [pc |-> "service", s |-> 1]
          /\ UNCHANGED <<qETHout, hand>>
     ELSE /\ hand' = {Head(qETHout)}
          /\ qETHout' = Tail(qETHout)
          /\ sockpc' = [sockpc EXCEPT !.pc = "put"]
  /\ UNCHANGED <<qMSGin, qTTYout, comQ, tcpQ, IsActive, FailedTTYOut,
                 FailedSockOut, comm, idx, j, arrived, popUB, history>>

\* The socket an entry goes to when no port translation applies: the first one
\* bound to its device.
OutSocket(d) == {s \in Sock : SockDev[s] = d /\ \A u \in Sock : SockDev[u] = d => s <= u}

\* The queue is a bounded one that gives up its oldest entry to the new one.
PutEth ==
  /\ SockAt("put")
  /\ \E e \in hand :
       LET out     == OutSocket(Dest(e))
           full(s) == Len(tcpQ[s]) >= maxQcount
       IN /\ tcpQ' = [s \in Sock |->
                        IF s \notin out THEN tcpQ[s]
                        ELSE PushBack(IF full(s) THEN Tail(tcpQ[s]) ELSE tcpQ[s], e)]
          /\ Discard((IF out = {} THEN {CopyOf(e)} ELSE {})
                       \cup {CopyOf(Head(tcpQ[s])) : s \in {x \in out : full(x)}})
          /\ FailedSockOut' = IF out = {} THEN FailedSockOut + 1 ELSE FailedSockOut
  /\ hand' = {}
  /\ sockpc' = [pc |-> "service", s |-> 1]
  /\ UNCHANGED <<qMSGin, qTTYout, qETHout, comQ, IsActive, FailedTTYOut, comm,
                 idx, j, arrived, popUB, sent, routed, lateSends>>

SocketStep == ServiceSocket \/ SocketIn \/ SocketOut \/ TakeEth \/ PutEth

-----------------------------------------------------------------------------
(* The rest of the program.                                                  *)

\* Takeover, hand-back, a cluster command or the CLI command ACTIVE.
SetActive(b) ==
  /\ ~popUB
  /\ IsActive # b
  /\ IsActive' = b
  /\ lateSends' = [th \in {"comm", "sock"} |-> 0]
  /\ UNCHANGED <<queues, FailedTTYOut, FailedSockOut, comm, idx, j, sockpc, hand,
                 arrived, popUB, sent, gone, routed>>

Aged(q) == [i \in DOMAIN q |-> [q[i] EXCEPT !.age = IF @ < Older THEN @ + 1 ELSE @]]

\* Time passes: every queued entry gets older.
Tick ==
  /\ ~popUB
  /\ qMSGin' = Aged(qMSGin) /\ qTTYout' = Aged(qTTYout) /\ qETHout' = Aged(qETHout)
  /\ comQ' = [t \in Tty |-> Aged(comQ[t])]
  /\ tcpQ' = [s \in Sock |-> Aged(tcpQ[s])]
  /\ hand' = {[e EXCEPT !.age = IF @ < Older THEN @ + 1 ELSE @] : e \in hand}
  /\ UNCHANGED <<IsActive, FailedTTYOut, FailedSockOut, comm, idx, j, sockpc,
                 arrived, popUB, history>>

\* After a pop of an empty queue the C++ program has no defined behaviour.
Undefined == popUB /\ UNCHANGED vars

Init ==
  /\ qMSGin = <<>> /\ qTTYout = <<>> /\ qETHout = <<>>
  /\ comQ = [t \in Tty |-> <<>>] /\ tcpQ = [s \in Sock |-> <<>>]
  /\ IsActive \in BOOLEAN
  /\ FailedTTYOut = 0 /\ FailedSockOut = 0
  /\ comm = [pc |-> "limit", n |-> 0, wdc |-> 0, r |-> 1, port |-> 1]
  /\ idx = 1 /\ j = 1
  /\ sockpc = [pc |-> "service", s |-> 1] /\ hand = {}
  /\ arrived = 0 /\ popUB = FALSE
  /\ sent = [p \in Ports |-> <<>>] /\ gone = {} /\ routed = {}
  /\ lateSends = [th \in {"comm", "sock"} |-> 0]

Next ==
  \/ CommStep
  \/ SocketStep
  \/ Tick
  \/ \E b \in BOOLEAN : SetActive(b)
  \/ Undefined

Spec == Init /\ [][Next]_vars

\* Both threads loop for as long as the program runs, and time passes.
FairSpec == /\ Spec
            /\ WF_vars(CommStep)
            /\ WF_vars(SocketStep)
            /\ WF_vars(Tick)

-----------------------------------------------------------------------------
(* Properties.                                                               *)

TypeOK ==
  /\ qMSGin \in Seq(Input) /\ qTTYout \in Seq(Entry) /\ qETHout \in Seq(Entry)
  /\ comQ \in [Tty -> Seq(Entry)] /\ tcpQ \in [Sock -> Seq(Entry)]
  /\ IsActive \in BOOLEAN /\ popUB \in BOOLEAN
  /\ FailedTTYOut \in Nat /\ FailedSockOut \in Nat
  /\ comm \in [pc : {"limit", "pop", "age", "ttyPurge", "input", "scan",
                     "serialIn", "move", "check", "send"},
               n : Nat, wdc : Nat, r : Nat \ {0}, port : Tty]
  /\ idx \in Sock /\ j \in Tty
  /\ sockpc \in [pc : {"service", "recv", "send", "take", "put"}, s : Sock]
  /\ hand \in SUBSET Entry
  /\ arrived \in 0 .. MaxMsg
  /\ sent \in [Ports -> Seq(Copy)]
  /\ gone \in SUBSET Copy /\ routed \in SUBSET Copy
  /\ lateSends \in [{"comm", "sock"} -> 0 .. 2]

\* No port queue ever holds more than maxQcount entries, although the Comm
\* thread, the Socket thread and the purge change their lengths under different
\* tests (>=, < and maxQcount - 1) of which one is made outside the lock.
QueuesBounded ==
  /\ \A t \in Tty : Len(comQ[t]) <= maxQcount
  /\ \A s \in Sock : Len(tcpQ[s]) <= maxQcount

\* Where a copy is.
Indexes(q, c) == {i \in DOMAIN q : CopyOf(q[i]) = c}
Places(c) ==
  ({"qTTYout"} \X Indexes(qTTYout, c))
    \cup ({"qETHout"} \X Indexes(qETHout, c))
    \cup {<<"hand", e>> : e \in {x \in hand : CopyOf(x) = c}}
    \cup (UNION {{<<"com", t>>} \X Indexes(comQ[t], c) : t \in Tty})
    \cup (UNION {{<<"tcp", s>>} \X Indexes(tcpQ[s], c) : s \in Sock})
    \cup (UNION {{<<"sent", p>>} \X {i \in DOMAIN sent[p] : sent[p][i] = c} : p \in Ports})
    \cup (IF c \in gone THEN {<<"gone", c>>} ELSE {})

\* A copy the router made is in exactly one place from then on: in one queue,
\* in the Socket thread's hands, written once to one port, or dropped for a
\* reason.  No interleaving of the two threads, the purge and a change of
\* IsActive loses a copy silently, sends it twice, or both sends and drops it.
ExactlyOnePlace == \A c \in Copy : Cardinality(Places(c)) = IF c \in routed THEN 1 ELSE 0

\* The pipeline implements Delivery: whatever the two threads, the purges and the
\* limits do, every copy is made once, leaves at most once on a port bound to its
\* destination or is dropped, never both, and what a port transmits it transmits
\* in the order the messages arrived, whatever was dropped in between.
PortsOf == [r \in Routes |->
              ({"tty"} \X {t \in Tty : TtyDev[t] = RouteTable[r].dst})
                \cup ({"sock"} \X {s \in Sock : SockDev[s] = RouteTable[r].dst})]
Promise == INSTANCE Delivery WITH MaxMsg <- MaxMsg, Ports <- Ports, PortsOf <- PortsOf,
                                 arrived <- arrived, routed <- routed,
                                 sent <- sent, gone <- gone
ImplementsDelivery == Promise!Spec

\* Once Me.IsActive has become FALSE each thread transmits at most the one
\* message it had already committed to: the flag is read without a lock and the
\* write follows the read, so one is possible and a second is not.
OneLateSendPerThread == \A th \in DOMAIN lateSends : lateSends[th] <= 1

\* The purge of a socket queue removes a message that is there: it is meant to
\* act on a queue that reached its limit.
PurgeFindsAMessage == ~popUB

\* Every message that arrives is routed, and every copy of it is eventually sent
\* or dropped, even if its port never becomes ready: nothing is stuck for good.
InPipeline(c) == c \in routed /\ c \notin gone /\ \A p \in Ports : \A i \in DOMAIN sent[p] : sent[p][i] # c
InFlight(m) == \/ \E i \in DOMAIN qMSGin : qMSGin[i].id = m
               \/ \E r \in Routes : InPipeline(<<m, r>>)
NothingStuck == \A m \in 1 .. MaxMsg : InFlight(m) ~> (~InFlight(m) \/ popUB)
=============================================================================

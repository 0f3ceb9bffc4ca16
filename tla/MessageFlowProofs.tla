------------------------- MODULE MessageFlowProofs -------------------------
(***************************************************************************)
(* Theorems of MessageFlow for any number of ports, sockets and messages,  *)
(* any route table and any limits: its variables keep their types, no port *)
(* queue exceeds maxQcount, a thread transmits at most one message after   *)
(* Me.IsActive has become FALSE; and it implements Delivery, a copy being  *)
(* always in exactly one place.                                            *)
(***************************************************************************)
EXTENDS MessageFlow, SequenceTheorems, FiniteSetTheorems, TLAPS

(* What a thread has seen before its program counter moved on still holds   *)
(* where it is used: the Comm thread is the only one to take from qMSGin    *)
(* and from the COM port queues, and it purges at most MAX_WDC_PURGE        *)
(* entries a pass.                                                          *)
StillThere ==
  /\ comm.wdc <= MAX_WDC_PURGE
  /\ comm.pc = "pop" => comm.wdc < MAX_WDC_PURGE
  /\ comm.pc = "scan" => qMSGin # <<>>
  /\ comm.pc = "send" => comQ[comm.port] # <<>>

(* A thread about to transmit was active when it looked, and has transmitted *)
(* nothing since Me.IsActive last changed.                                   *)
NoneLateYet ==
  /\ IsActive => \A th \in {"comm", "sock"} : lateSends[th] = 0
  /\ comm.pc = "send" => lateSends["comm"] = 0
  /\ sockpc.pc \in {"recv", "send"} => lateSends["sock"] = 0
  /\ OneLateSendPerThread

IInv == TypeOK /\ QueuesBounded /\ StillThere /\ NoneLateYet

-----------------------------------------------------------------------------
(* The operators the actions are built from.                                *)

(* Taking the front entry keeps the type and shortens a queue by one.       *)
LEMMA TailFacts ==
  ASSUME NEW S, NEW q \in Seq(S), q # <<>>
  PROVE  /\ Head(q) \in S
         /\ Tail(q) \in Seq(S)
         /\ Len(Tail(q)) = Len(q) - 1
         /\ Len(q) \in Nat \ {0}
BY HeadTailProperties, EmptySeq, LenProperties

(* Pushing an entry keeps the type and lengthens a queue by one.            *)
LEMMA AppendFacts ==
  ASSUME NEW S, NEW q \in Seq(S), NEW e \in S
  PROVE  /\ Append(q, e) \in Seq(S)
         /\ Append(q, e) # <<>>
         /\ Len(Append(q, e)) = Len(q) + 1
         /\ Len(q) \in Nat
BY LenProperties

(* An entry names a copy, and goes to a designator of the table.            *)
LEMMA EntryFacts ==
  ASSUME NEW e \in Entry
  PROVE  CopyOf(e) \in Copy /\ Dest(e) \in Devs
<1>1. e.id \in 1 .. MaxMsg /\ e.r \in 1 .. Len(RouteTable)
  BY DEF Entry, Routes
<1>2. RouteTable[e.r] \in [src : Devs, dst : Devs]
  BY <1>1, TablesAssumption, ElementOfSeq
<1> QED  BY <1>1, <1>2 DEF CopyOf, Copy, Dest, Routes

(* Getting older changes neither the type nor the length of a queue.        *)
LEMMA AgedEntries ==
  ASSUME NEW q \in Seq(Entry)
  PROVE  Aged(q) \in Seq(Entry) /\ Len(Aged(q)) = Len(q) /\ (q # <<>> => Aged(q) # <<>>)
<1>1. /\ Len(q) \in Nat /\ DOMAIN q = 1 .. Len(q)
      /\ \A i \in 1 .. Len(q) : q[i] \in Entry
  BY LenProperties, ElementOfSeq
<1>2. \A i \in 1 .. Len(q) :
        [q[i] EXCEPT !.age = IF @ < Older THEN @ + 1 ELSE @] \in Entry
  <2> TAKE i \in 1 .. Len(q)
  <2>1. q[i] \in Entry
    BY <1>1
  <2>2. (IF q[i].age < Older THEN q[i].age + 1 ELSE q[i].age) \in Ages
    BY <2>1, SizesAssumption DEF Entry, Ages, Older
  <2> QED  BY <2>1, <2>2 DEF Entry
<1>3. Aged(q) \in [1 .. Len(q) -> Entry]
  BY <1>1, <1>2 DEF Aged
<1>4. Aged(q) \in Seq(Entry) /\ Len(Aged(q)) = Len(q)
  BY <1>1, <1>3
<1> QED  BY <1>4, EmptySeq

LEMMA AgedInputs ==
  ASSUME NEW q \in Seq(Input)
  PROVE  Aged(q) \in Seq(Input) /\ Len(Aged(q)) = Len(q) /\ (q # <<>> => Aged(q) # <<>>)
<1>1. /\ Len(q) \in Nat /\ DOMAIN q = 1 .. Len(q)
      /\ \A i \in 1 .. Len(q) : q[i] \in Input
  BY LenProperties, ElementOfSeq
<1>2. \A i \in 1 .. Len(q) :
        [q[i] EXCEPT !.age = IF @ < Older THEN @ + 1 ELSE @] \in Input
  <2> TAKE i \in 1 .. Len(q)
  <2>1. q[i] \in Input
    BY <1>1
  <2>2. (IF q[i].age < Older THEN q[i].age + 1 ELSE q[i].age) \in Ages
    BY <2>1, SizesAssumption DEF Input, Ages, Older
  <2> QED  BY <2>1, <2>2 DEF Input
<1>3. Aged(q) \in [1 .. Len(q) -> Input]
  BY <1>1, <1>2 DEF Aged
<1>4. Aged(q) \in Seq(Input) /\ Len(Aged(q)) = Len(q)
  BY <1>1, <1>3
<1> QED  BY <1>4, EmptySeq

(* A message that arrives is appended to a well-typed qMSGin.               *)
LEMMA ReceiveFacts ==
  ASSUME TypeOK, NEW dev \in Devs, Receive(dev) \/ NoReceive
  PROVE  /\ arrived' \in 0 .. MaxMsg
         /\ qMSGin' \in Seq(Input)
         /\ (qMSGin # <<>> => qMSGin' # <<>>)
<1>1. CASE Receive(dev)
  <2>1. arrived + 1 \in 1 .. MaxMsg
    BY <1>1, SizesAssumption DEF Receive, TypeOK
  <2>2. [id |-> arrived + 1, src |-> dev, age |-> 0] \in Input
    BY <2>1, SizesAssumption DEF Input, Ages, Older
  <2>3. Append(qMSGin, [id |-> arrived + 1, src |-> dev, age |-> 0])
          \in Seq(Input) \ {<<>>}
    BY <2>2, AppendFacts DEF TypeOK
  <2> QED  BY <1>1, <2>1, <2>3 DEF Receive
<1>2. CASE NoReceive
  BY <1>2 DEF NoReceive, TypeOK
<1> QED  BY <1>1, <1>2

(* A write keeps the history typed, and counts as late only when inactive.  *)
LEMMA WriteFacts ==
  ASSUME TypeOK, NEW port \in Ports, NEW e \in Entry, NEW th \in {"comm", "sock"},
         Write(port, e, th)
  PROVE  /\ sent' \in [Ports -> Seq(Copy)]
         /\ lateSends' \in [{"comm", "sock"} -> 0 .. 2]
         /\ \A x \in {"comm", "sock"} :
              lateSends'[x] = IF x = th /\ ~IsActive /\ lateSends[x] < 2
                              THEN lateSends[x] + 1 ELSE lateSends[x]
<1>1. Append(sent[port], CopyOf(e)) \in Seq(Copy)
  BY EntryFacts, AppendFacts DEF TypeOK
<1>2. sent' \in [Ports -> Seq(Copy)]
  BY <1>1 DEF Write, TypeOK
<1>3. lateSends[th] \in 0 .. 2
  BY DEF TypeOK
<1> QED  BY <1>2, <1>3 DEF Write, TypeOK

LEMMA OneIsAPort == 1 \in Tty /\ 1 \in Sock /\ 0 \in Ages
BY SizesAssumption DEF Tty, Sock, Ages, Older

(* The fields of the Comm thread's program counter.                         *)
LEMMA CommFields ==
  ASSUME TypeOK
  PROVE  /\ comm = [pc |-> comm.pc, n |-> comm.n, wdc |-> comm.wdc, r |-> comm.r,
                    port |-> comm.port]
         /\ comm.n \in Nat /\ comm.wdc \in Nat /\ comm.r \in Nat \ {0}
         /\ comm.port \in Tty
BY DEF TypeOK

(* The port after this one is a port.                                       *)
LEMMA NextPortFacts ==
  ASSUME TypeOK
  PROVE  /\ NextPort.pc \in {"check", "limit"} /\ NextPort.port \in Tty
         /\ NextPort.wdc \in {0, comm.wdc}
         /\ NextPort \in [pc : {"check", "limit"}, n : Nat, wdc : Nat,
                          r : Nat \ {0}, port : Tty]
<1>1. comm \in [pc : {"limit", "pop", "age", "ttyPurge", "input", "scan",
                       "serialIn", "move", "check", "send"},
                 n : Nat, wdc : Nat, r : Nat \ {0}, port : 1 .. NTty]
  BY DEF TypeOK, Tty
<1>2. CASE comm.port < NTty
  <2>1. comm.port + 1 \in 1 .. NTty
    BY <1>1, <1>2, SizesAssumption
  <2>2. NextPort = [pc |-> "check", n |-> comm.n, wdc |-> comm.wdc, r |-> comm.r,
                    port |-> comm.port + 1]
    BY <1>1, <1>2 DEF NextPort
  <2> QED  BY <1>1, <2>1, <2>2 DEF Tty
<1>3. CASE ~(comm.port < NTty)
  <2>1. NextPort = [pc |-> "limit", n |-> comm.n, wdc |-> 0, r |-> comm.r,
                    port |-> 1]
    BY <1>1, <1>3 DEF NextPort
  <2> QED  BY <1>1, <2>1, SizesAssumption DEF Tty
<1> QED  BY <1>2, <1>3

LEMMA NextSocketFacts ==
  ASSUME TypeOK
  PROVE  NextSocket \in [pc : {"service", "take"}, s : Sock]
BY SizesAssumption DEF NextSocket, TypeOK, Sock

(* Taking the front entry of one queue of a family.                         *)
LEMMA TakeFacts ==
  ASSUME NEW P, NEW f \in [P -> Seq(Entry)], NEW p \in P, f[p] # <<>>,
         \A x \in P : Len(f[x]) <= maxQcount
  PROVE  /\ [f EXCEPT ![p] = Tail(@)] \in [P -> Seq(Entry)]
         /\ \A x \in P : Len([f EXCEPT ![p] = Tail(@)][x]) <= maxQcount
         /\ Head(f[p]) \in Entry /\ CopyOf(Head(f[p])) \in Copy
<1>1. /\ Head(f[p]) \in Entry /\ Tail(f[p]) \in Seq(Entry)
      /\ Len(Tail(f[p])) = Len(f[p]) - 1 /\ Len(f[p]) \in Nat
  BY TailFacts
<1>2. Len(Tail(f[p])) <= maxQcount
  BY <1>1, SizesAssumption
<1> QED  BY <1>1, <1>2, EntryFacts

-----------------------------------------------------------------------------
(* The invariant holds initially and every step preserves it.               *)

LEMMA InitIInv == Init => IInv
<1> SUFFICES ASSUME Init PROVE IInv
  OBVIOUS
<1>1. /\ <<>> \in Seq(Input) /\ <<>> \in Seq(Entry) /\ <<>> \in Seq(Copy)
      /\ Len(<<>>) = 0
  BY EmptySeq
<1>2. TypeOK
  <2>1. comm \in [pc : {"limit"}, n : Nat, wdc : Nat, r : Nat \ {0}, port : Tty]
    BY OneIsAPort DEF Init
  <2>2. sockpc \in [pc : {"service"}, s : Sock]
    BY OneIsAPort DEF Init
  <2>3. arrived \in 0 .. MaxMsg
    BY SizesAssumption DEF Init
  <2>4. /\ comQ \in [Tty -> Seq(Entry)] /\ tcpQ \in [Sock -> Seq(Entry)]
        /\ sent \in [Ports -> Seq(Copy)]
    BY <1>1 DEF Init
  <2>5. lateSends \in [{"comm", "sock"} -> 0 .. 2]
    BY DEF Init
  <2> QED  BY <1>1, <2>1, <2>2, <2>3, <2>4, <2>5, OneIsAPort DEF Init, TypeOK
<1>3. QueuesBounded
  BY <1>1, SizesAssumption DEF Init, QueuesBounded
<1>4. StillThere
  BY SizesAssumption DEF Init, StillThere
<1>5. NoneLateYet
  BY DEF Init, NoneLateYet, OneLateSendPerThread
<1> QED  BY <1>2, <1>3, <1>4, <1>5 DEF IInv

LEMMA PurgeLimitKeeps == IInv /\ PurgeLimit => IInv'
<1> SUFFICES ASSUME IInv, PurgeLimit PROVE IInv'
  OBVIOUS
<1> USE DEF IInv
<1>1. TypeOK'
  BY DEF PurgeLimit, CommAt, SockAt, queues, history, TypeOK
<1>2. QueuesBounded'
  BY DEF PurgeLimit, queues, QueuesBounded
<1>3. StillThere'
  BY DEF PurgeLimit, CommAt, SockAt, queues, TypeOK, StillThere
<1>4. NoneLateYet'
  BY DEF PurgeLimit, CommAt, SockAt, history, TypeOK, NoneLateYet, OneLateSendPerThread
<1> QED  BY <1>1, <1>2, <1>3, <1>4

LEMMA NextInputKeeps == IInv /\ NextInput => IInv'
<1> SUFFICES ASSUME IInv, NextInput PROVE IInv'
  OBVIOUS
<1> USE DEF IInv
<1>1. TypeOK'
  BY DEF NextInput, CommAt, SockAt, queues, history, TypeOK
<1>2. QueuesBounded'
  BY DEF NextInput, queues, QueuesBounded
<1>3. StillThere'
  BY DEF NextInput, CommAt, SockAt, queues, TypeOK, StillThere
<1>4. NoneLateYet'
  BY DEF NextInput, CommAt, SockAt, history, TypeOK, NoneLateYet, OneLateSendPerThread
<1> QED  BY <1>1, <1>2, <1>3, <1>4

LEMMA MoveTtyDoneKeeps == IInv /\ MoveTtyDone => IInv'
<1> SUFFICES ASSUME IInv, MoveTtyDone PROVE IInv'
  OBVIOUS
<1> USE DEF IInv
<1>1. TypeOK'
  BY OneIsAPort DEF MoveTtyDone, queues, history, TypeOK
<1>2. QueuesBounded'
  BY DEF MoveTtyDone, queues, QueuesBounded
<1>3. StillThere'
  BY DEF MoveTtyDone, CommAt, SockAt, queues, TypeOK, StillThere
<1>4. NoneLateYet'
  BY DEF MoveTtyDone, CommAt, SockAt, history, TypeOK, NoneLateYet, OneLateSendPerThread
<1> QED  BY <1>1, <1>2, <1>3, <1>4

LEMMA CheckActiveKeeps == IInv /\ CheckActive => IInv'
<1> SUFFICES ASSUME IInv, CheckActive PROVE IInv'
  OBVIOUS
<1> USE DEF IInv
<1>1. TypeOK'
  BY DEF CheckActive, CommAt, SockAt, queues, history, TypeOK
<1>2. QueuesBounded'
  BY DEF CheckActive, queues, QueuesBounded
<1>3. StillThere'
  BY DEF CheckActive, CommAt, SockAt, queues, TypeOK, StillThere
<1>4. NoneLateYet'
  BY DEF CheckActive, CommAt, SockAt, history, TypeOK, NoneLateYet, OneLateSendPerThread
<1> QED  BY <1>1, <1>2, <1>3, <1>4

LEMMA PortNotReadyKeeps == IInv /\ PortNotReady => IInv'
<1> SUFFICES ASSUME IInv, PortNotReady PROVE IInv'
  OBVIOUS
<1> USE DEF IInv
<1>1. TypeOK'
  BY NextPortFacts DEF PortNotReady, CommAt, SockAt, queues, history, TypeOK
<1>2. QueuesBounded'
  BY DEF PortNotReady, queues, QueuesBounded
<1>3. StillThere'
  <2>1. comm'.pc \in {"check", "limit"} /\ comm'.wdc \in {0, comm.wdc}
    BY NextPortFacts DEF PortNotReady
  <2> QED  BY <2>1, SizesAssumption DEF PortNotReady, queues, TypeOK, StillThere
<1>4. NoneLateYet'
  BY NextPortFacts DEF PortNotReady, CommAt, SockAt, history, TypeOK, NoneLateYet, OneLateSendPerThread
<1> QED  BY <1>1, <1>2, <1>3, <1>4

LEMMA ServiceSocketKeeps == IInv /\ ServiceSocket => IInv'
<1> SUFFICES ASSUME IInv, ServiceSocket PROVE IInv'
  OBVIOUS
<1> USE DEF IInv
<1>1. TypeOK'
  BY NextSocketFacts DEF ServiceSocket, CommAt, SockAt, queues, history, TypeOK, MayService
<1>2. QueuesBounded'
  BY DEF ServiceSocket, queues, QueuesBounded
<1>3. StillThere'
  BY NextSocketFacts DEF ServiceSocket, CommAt, SockAt, queues, TypeOK, StillThere, MayService
<1>4. NoneLateYet'
  BY NextSocketFacts DEF ServiceSocket, CommAt, SockAt, history, TypeOK, NoneLateYet, OneLateSendPerThread, MayService
<1> QED  BY <1>1, <1>2, <1>3, <1>4

LEMMA PurgePopKeeps == IInv /\ PurgePop => IInv'
<1> SUFFICES ASSUME IInv, PurgePop PROVE IInv'
  OBVIOUS
<1> USE DEF IInv
<1>a. /\ comm' = [pc |-> "limit", n |-> comm.n, wdc |-> comm.wdc + 1, r |-> comm.r,
                  port |-> comm.port]
      /\ comm.pc = "pop"
  BY DEF PurgePop, CommAt, TypeOK
<1>b. comm' \in [pc : {"limit"}, n : Nat, wdc : Nat, r : Nat \ {0}, port : Tty]
  BY <1>a DEF TypeOK
<1>c. /\ tcpQ \in [Sock -> Seq(Entry)] /\ idx \in Sock
      /\ \A s \in Sock : Len(tcpQ[s]) <= maxQcount
  BY DEF TypeOK, QueuesBounded
<1>d. /\ tcpQ' \in [Sock -> Seq(Entry)] /\ gone' \in SUBSET Copy
      /\ \A s \in Sock : Len(tcpQ'[s]) <= maxQcount
  <2>1. CASE tcpQ[idx] = <<>>
    BY <2>1, <1>c DEF PurgePop, TypeOK
  <2>2. CASE tcpQ[idx] # <<>>
    <3>1. /\ [tcpQ EXCEPT ![idx] = Tail(@)] \in [Sock -> Seq(Entry)]
          /\ \A s \in Sock : Len([tcpQ EXCEPT ![idx] = Tail(@)][s]) <= maxQcount
          /\ CopyOf(Head(tcpQ[idx])) \in Copy
      BY <1>c, <2>2, TakeFacts
    <3> QED  BY <2>2, <3>1 DEF PurgePop, Discard, TypeOK
  <2> QED  BY <2>1, <2>2
<1>1. TypeOK'
  BY <1>b, <1>d DEF PurgePop, TypeOK
<1>2. QueuesBounded'
  BY <1>d DEF PurgePop, QueuesBounded
<1>3. StillThere'
  BY <1>a, SizesAssumption DEF TypeOK, StillThere
<1>4. NoneLateYet'
  BY <1>a DEF PurgePop, TypeOK, NoneLateYet, OneLateSendPerThread
<1> QED  BY <1>1, <1>2, <1>3, <1>4

LEMMA PurgeAgeKeeps == IInv /\ PurgeAge => IInv'
<1> SUFFICES ASSUME IInv, PurgeAge PROVE IInv'
  OBVIOUS
<1> USE DEF IInv
<1>a. /\ comm' \in [pc : {"limit", "ttyPurge"}, n : Nat, wdc : Nat, r : Nat \ {0},
                    port : Tty]
      /\ comm'.wdc = comm.wdc /\ comm.pc = "age"
  <2>1. comm \in [pc : {"age"}, n : Nat, wdc : Nat, r : Nat \ {0}, port : Tty]
    BY DEF PurgeAge, CommAt, TypeOK
  <2>2. \/ comm' = [pc |-> "limit", n |-> comm.n + 1, wdc |-> comm.wdc, r |-> comm.r,
                    port |-> comm.port]
        \/ comm' = [pc |-> "ttyPurge", n |-> 0, wdc |-> comm.wdc, r |-> comm.r,
                    port |-> comm.port]
    BY <2>1 DEF PurgeAge
  <2> QED  BY <2>1, <2>2
<1>b. idx' \in Sock
  <2>1. idx \in 1 .. NSock /\ idx' = IF idx = NSock THEN 1 ELSE idx + 1
    BY DEF PurgeAge, TypeOK, Sock
  <2> QED  BY <2>1, SizesAssumption DEF Sock
<1>c. /\ tcpQ \in [Sock -> Seq(Entry)] /\ idx \in Sock
      /\ \A s \in Sock : Len(tcpQ[s]) <= maxQcount
  BY DEF TypeOK, QueuesBounded
<1>d. /\ tcpQ' \in [Sock -> Seq(Entry)] /\ gone' \in SUBSET Copy
      /\ \A s \in Sock : Len(tcpQ'[s]) <= maxQcount
  <2>1. CASE ~HeadIsOld(tcpQ[idx])
    BY <2>1, <1>c DEF PurgeAge, TypeOK
  <2>2. CASE HeadIsOld(tcpQ[idx])
    <3>1. /\ [tcpQ EXCEPT ![idx] = Tail(@)] \in [Sock -> Seq(Entry)]
          /\ \A s \in Sock : Len([tcpQ EXCEPT ![idx] = Tail(@)][s]) <= maxQcount
          /\ CopyOf(Head(tcpQ[idx])) \in Copy
      BY <1>c, <2>2, TakeFacts DEF HeadIsOld
    <3> QED  BY <2>2, <3>1 DEF PurgeAge, Discard, TypeOK
  <2> QED  BY <2>1, <2>2
<1>1. TypeOK'
  BY <1>a, <1>b, <1>d DEF PurgeAge, TypeOK
<1>2. QueuesBounded'
  BY <1>d DEF PurgeAge, QueuesBounded
<1>3. StillThere'
  BY <1>a DEF TypeOK, StillThere
<1>4. NoneLateYet'
  BY <1>a DEF PurgeAge, TypeOK, NoneLateYet, OneLateSendPerThread
<1> QED  BY <1>1, <1>2, <1>3, <1>4

LEMMA PurgeTtyKeeps == IInv /\ PurgeTty => IInv'
<1> SUFFICES ASSUME IInv, PurgeTty PROVE IInv'
  OBVIOUS
<1> USE DEF IInv
<1> DEFINE over == IF Len(comQ[j]) > maxQcount THEN Len(comQ[j]) - maxQcount ELSE 0
           room == MAX_WDC_PURGE - comm.wdc
           cut  == IF over < room THEN over ELSE room
           q    == SubSeq(comQ[j], cut + 1, Len(comQ[j]))
<1>a. over = 0 /\ cut = 0 /\ q = comQ[j]
  <2>1. comQ[j] \in Seq(Entry) /\ Len(comQ[j]) \in Nat /\ Len(comQ[j]) <= maxQcount
    BY LenProperties DEF TypeOK, QueuesBounded
  <2>2. over = 0 /\ cut = 0
    BY <2>1, SizesAssumption DEF TypeOK, StillThere
  <2> HIDE DEF cut
  <2> QED  BY <2>1, <2>2, SubSeqFull
<1>b. comQ' = [comQ EXCEPT ![j] = IF HeadIsOld(comQ[j]) THEN Tail(comQ[j]) ELSE comQ[j]]
  BY <1>a DEF PurgeTty
<1> HIDE DEF over, room, cut, q
<1>c. comQ' \in [Tty -> Seq(Entry)] /\ \A t \in Tty : Len(comQ'[t]) <= maxQcount
  <2>1. CASE HeadIsOld(comQ[j])
    BY <1>b, <2>1, TakeFacts DEF TypeOK, QueuesBounded, HeadIsOld
  <2>2. CASE ~HeadIsOld(comQ[j])
    BY <1>b, <2>2 DEF TypeOK, QueuesBounded
  <2> QED  BY <2>1, <2>2
<1>d. \A i \in 1 .. (Len(comQ[j]) - Len(comQ'[j])) : CopyOf(comQ[j][i]) \in Copy
  <2> TAKE i \in 1 .. (Len(comQ[j]) - Len(comQ'[j]))
  <2>1. comQ[j] \in Seq(Entry) /\ comQ'[j] \in Seq(Entry)
    BY <1>c DEF TypeOK
  <2>2. i \in 1 .. Len(comQ[j])
    BY <2>1, LenProperties
  <2> QED  BY <2>1, <2>2, ElementOfSeq, EntryFacts
<1>e. comm' = [comm EXCEPT !.pc = "input"]
      /\ UNCHANGED <<qMSGin, qTTYout, qETHout, tcpQ, IsActive, FailedTTYOut,
                     FailedSockOut, idx, sockpc, hand, arrived, popUB, sent, routed,
                     lateSends>>
      /\ comm.pc = "ttyPurge"
  BY DEF PurgeTty, CommAt
<1>1. TypeOK'
  <2>1. j' \in Tty
    <3>1. j \in 1 .. NTty /\ j' = IF j = NTty THEN 1 ELSE j + 1
      BY DEF PurgeTty, TypeOK, Tty
    <3> QED  BY <3>1, SizesAssumption DEF Tty
  <2>2. gone' \in SUBSET Copy
    <3>1. gone' = gone \cup {CopyOf(comQ[j][i]) :
                               i \in 1 .. (Len(comQ[j]) - Len(comQ'[j]))}
      BY DEF PurgeTty, Discard
    <3> QED  BY <3>1, <1>d DEF TypeOK
  <2> QED  BY <1>c, <1>e, <2>1, <2>2 DEF TypeOK
<1>2. QueuesBounded'
  BY <1>c, <1>e DEF QueuesBounded
<1>3. StillThere'
  BY <1>e DEF TypeOK, StillThere
<1>4. NoneLateYet'
  BY <1>e DEF TypeOK, NoneLateYet, OneLateSendPerThread
<1> QED  BY <1>1, <1>2, <1>3, <1>4

LEMMA RouteEntryKeeps == IInv /\ RouteEntry => IInv'
<1> SUFFICES ASSUME IInv, RouteEntry PROVE IInv'
  OBVIOUS
<1> USE DEF IInv
<1> DEFINE e == [id |-> Head(qMSGin).id, r |-> comm.r, age |-> Head(qMSGin).age]
<1>a. comm.pc = "scan" /\ comm.r \in Routes /\ qMSGin # <<>>
  BY DEF RouteEntry, CommAt, StillThere
<1>b. e \in Entry
  <2>1. Head(qMSGin) \in Input
    BY <1>a, TailFacts DEF TypeOK
  <2> QED  BY <1>a, <2>1 DEF Input, Entry
<1>c. CopyOf(e) \in Copy
  BY <1>b, EntryFacts
<1>d. /\ comm' = [pc |-> "scan", n |-> comm.n, wdc |-> comm.wdc, r |-> comm.r + 1,
                  port |-> comm.port]
      /\ comm' \in [pc : {"scan"}, n : Nat, wdc : Nat, r : Nat \ {0}, port : Tty]
  <2>1. comm' = [pc |-> "scan", n |-> comm.n, wdc |-> comm.wdc, r |-> comm.r + 1,
                    port |-> comm.port]
    BY <1>a, CommFields DEF RouteEntry, CommAt
  <2> QED  BY <2>1, CommFields
<1>e. /\ qTTYout' \in {qTTYout, Append(qTTYout, e)}
      /\ qETHout' \in {qETHout, Append(qETHout, e)}
      /\ routed' \in {routed, routed \cup {CopyOf(e)}}
  BY DEF RouteEntry
<1>f. qTTYout' \in Seq(Entry) /\ qETHout' \in Seq(Entry) /\ routed' \in SUBSET Copy
  <2>1. Append(qTTYout, e) \in Seq(Entry) /\ Append(qETHout, e) \in Seq(Entry)
    BY <1>b, AppendFacts DEF TypeOK
  <2> HIDE DEF e
  <2> QED  BY <1>c, <1>e, <2>1 DEF TypeOK
<1>1. TypeOK'
  BY <1>d, <1>f DEF RouteEntry, TypeOK
<1>2. QueuesBounded'
  BY DEF RouteEntry, QueuesBounded
<1>3. StillThere'
  BY <1>a, <1>d DEF RouteEntry, StillThere
<1>4. NoneLateYet'
  BY <1>d DEF RouteEntry, TypeOK, NoneLateYet, OneLateSendPerThread
<1> QED  BY <1>1, <1>2, <1>3, <1>4

LEMMA PopInputKeeps == IInv /\ PopInput => IInv'
<1> SUFFICES ASSUME IInv, PopInput PROVE IInv'
  OBVIOUS
<1> USE DEF IInv
<1>a. /\ comm' = [pc |-> "input", n |-> comm.n + 1, wdc |-> comm.wdc, r |-> 1,
                  port |-> comm.port]
      /\ comm' \in [pc : {"input"}, n : Nat, wdc : Nat, r : Nat \ {0}, port : Tty]
  <2>1. comm' = [pc |-> "input", n |-> comm.n + 1, wdc |-> comm.wdc, r |-> 1,
                    port |-> comm.port]
    BY CommFields DEF PopInput, CommAt
  <2> QED  BY <2>1, CommFields
<1>b. qMSGin' \in Seq(Input)
  BY TailFacts DEF PopInput, CommAt, StillThere, TypeOK
<1>1. TypeOK'
  BY <1>a, <1>b DEF PopInput, TypeOK, history
<1>2. QueuesBounded'
  BY DEF PopInput, QueuesBounded
<1>3. StillThere'
  BY <1>a DEF PopInput, StillThere
<1>4. NoneLateYet'
  BY <1>a DEF PopInput, TypeOK, NoneLateYet, OneLateSendPerThread, history
<1> QED  BY <1>1, <1>2, <1>3, <1>4

LEMMA SerialInKeeps == IInv /\ SerialIn => IInv'
<1> SUFFICES ASSUME IInv, SerialIn PROVE IInv'
  OBVIOUS
<1> USE DEF IInv
<1>a. /\ comm' = [pc |-> "move", n |-> 0, wdc |-> comm.wdc, r |-> comm.r,
                  port |-> comm.port]
      /\ comm' \in [pc : {"move"}, n : Nat, wdc : Nat, r : Nat \ {0}, port : Tty]
  BY DEF SerialIn, TypeOK
<1>b. arrived' \in 0 .. MaxMsg /\ qMSGin' \in Seq(Input)
  <2>1. PICK dev \in Devs : Receive(dev) \/ NoReceive
    BY OneIsAPort, TablesAssumption DEF SerialIn
  <2> QED  BY <2>1, ReceiveFacts
<1>1. TypeOK'
  BY <1>a, <1>b DEF SerialIn, TypeOK, history
<1>2. QueuesBounded'
  BY DEF SerialIn, QueuesBounded
<1>3. StillThere'
  BY <1>a DEF SerialIn, StillThere
<1>4. NoneLateYet'
  BY <1>a DEF SerialIn, TypeOK, NoneLateYet, OneLateSendPerThread, history
<1> QED  BY <1>1, <1>2, <1>3, <1>4

LEMMA MoveTtyKeeps == IInv /\ MoveTty => IInv'
<1> SUFFICES ASSUME IInv, MoveTty PROVE IInv'
  OBVIOUS
<1> USE DEF IInv
<1> DEFINE e  == Head(qTTYout)
           ok == {t \in BoundTty(Dest(e)) : IsActive /\ HasRoom(t)}
<1>a. e \in Entry /\ CopyOf(e) \in Copy /\ qTTYout' \in Seq(Entry)
  BY TailFacts, EntryFacts DEF MoveTty, TypeOK
<1>b. comQ' = [t \in Tty |-> IF t \in ok THEN Append(comQ[t], e) ELSE comQ[t]]
  BY DEF MoveTty, PushBack
<1>c. \A t \in ok : t \in Tty /\ Len(comQ[t]) < maxQcount
  BY DEF BoundTty, HasRoom
<1>d. /\ FailedTTYOut' \in {FailedTTYOut, FailedTTYOut + 1}
      /\ gone' \in {gone, gone \cup {CopyOf(e)}}
  BY DEF MoveTty, Discard
<1> HIDE DEF e, ok
<1>e. \A t \in Tty : comQ'[t] \in Seq(Entry) /\ Len(comQ'[t]) <= maxQcount
  <2> TAKE t \in Tty
  <2>1. comQ[t] \in Seq(Entry) /\ Len(comQ[t]) <= maxQcount
    BY DEF TypeOK, QueuesBounded
  <2>2. Append(comQ[t], e) \in Seq(Entry) /\ Len(Append(comQ[t], e)) = Len(comQ[t]) + 1
        /\ Len(comQ[t]) \in Nat
    BY <1>a, <2>1, AppendFacts
  <2>3. CASE t \in ok
    <3>1. comQ'[t] = Append(comQ[t], e)
      BY <1>b, <2>3
    <3>2. Len(comQ[t]) + 1 <= maxQcount
      BY <1>c, <2>2, <2>3, SizesAssumption
    <3> QED  BY <2>2, <3>1, <3>2
  <2>4. CASE t \notin ok
    BY <1>b, <2>1, <2>4
  <2> QED  BY <2>3, <2>4
<1>f. /\ comm' = [pc |-> "move", n |-> comm.n + 1, wdc |-> comm.wdc, r |-> comm.r,
                  port |-> comm.port]
      /\ comm' \in [pc : {"move"}, n : Nat, wdc : Nat, r : Nat \ {0}, port : Tty]
  <2>1. comm' = [pc |-> "move", n |-> comm.n + 1, wdc |-> comm.wdc, r |-> comm.r,
                    port |-> comm.port]
    BY CommFields DEF MoveTty, CommAt
  <2> QED  BY <2>1, CommFields
<1>g. UNCHANGED <<qMSGin, qETHout, tcpQ, IsActive, FailedSockOut, idx, j, sockpc,
                  hand, arrived, popUB, sent, routed, lateSends>>
  BY DEF MoveTty
<1>1. TypeOK'
  <2>1. comQ' \in [Tty -> Seq(Entry)]
    BY <1>b, <1>e
  <2>2. FailedTTYOut' \in Nat /\ gone' \in SUBSET Copy
    BY <1>a, <1>d DEF TypeOK
  <2> QED  BY <1>a, <1>f, <1>g, <2>1, <2>2 DEF TypeOK
<1>2. QueuesBounded'
  BY <1>e, <1>g DEF QueuesBounded
<1>3. StillThere'
  BY <1>f DEF StillThere
<1>4. NoneLateYet'
  BY <1>f, <1>g DEF TypeOK, NoneLateYet, OneLateSendPerThread
<1> QED  BY <1>1, <1>2, <1>3, <1>4

LEMMA DropInactiveKeeps == IInv /\ DropInactive => IInv'
<1> SUFFICES ASSUME IInv, DropInactive PROVE IInv'
  OBVIOUS
<1> USE DEF IInv
<1>a. /\ comQ \in [Tty -> Seq(Entry)] /\ comm.port \in Tty /\ comQ[comm.port] # <<>>
      /\ \A t \in Tty : Len(comQ[t]) <= maxQcount
  BY DEF DropInactive, TypeOK, QueuesBounded
<1>b. /\ comQ' = [comQ EXCEPT ![comm.port] = Tail(@)]
      /\ comQ' \in [Tty -> Seq(Entry)]
      /\ \A t \in Tty : Len(comQ'[t]) <= maxQcount
      /\ CopyOf(Head(comQ[comm.port])) \in Copy
  <2>1. comQ' = [comQ EXCEPT ![comm.port] = Tail(@)]
    BY DEF DropInactive
  <2> QED  BY <1>a, <2>1, TakeFacts
<1>c. /\ comm' \in [pc : {"check", "limit"}, n : Nat, wdc : Nat, r : Nat \ {0}, port : Tty]
      /\ comm'.pc \in {"check", "limit"} /\ comm'.wdc \in {0, comm.wdc}
  BY NextPortFacts DEF DropInactive
<1>1. TypeOK'
  BY <1>b, <1>c DEF DropInactive, Discard, TypeOK
<1>2. QueuesBounded'
  BY <1>b DEF DropInactive, QueuesBounded
<1>3. StillThere'
  BY <1>c, SizesAssumption DEF TypeOK, StillThere
<1>4. NoneLateYet'
  BY <1>c DEF DropInactive, TypeOK, NoneLateYet, OneLateSendPerThread
<1> QED  BY <1>1, <1>2, <1>3, <1>4

LEMMA SendTtyKeeps == IInv /\ SendTty => IInv'
<1> SUFFICES ASSUME IInv, SendTty PROVE IInv'
  OBVIOUS
<1> USE DEF IInv
<1>a. /\ comQ \in [Tty -> Seq(Entry)] /\ comm.port \in Tty /\ comQ[comm.port] # <<>>
      /\ \A t \in Tty : Len(comQ[t]) <= maxQcount
      /\ comm.pc = "send"
  BY DEF SendTty, CommAt, StillThere, TypeOK, QueuesBounded
<1>b. /\ comQ' = [comQ EXCEPT ![comm.port] = Tail(@)]
      /\ comQ' \in [Tty -> Seq(Entry)]
      /\ \A t \in Tty : Len(comQ'[t]) <= maxQcount
      /\ Head(comQ[comm.port]) \in Entry
  <2>1. comQ' = [comQ EXCEPT ![comm.port] = Tail(@)]
    BY DEF SendTty, PopFront
  <2> QED  BY <1>a, <2>1, TakeFacts
<1>c. /\ comm' \in [pc : {"check", "limit"}, n : Nat, wdc : Nat, r : Nat \ {0}, port : Tty]
      /\ comm'.pc \in {"check", "limit"} /\ comm'.wdc \in {0, comm.wdc}
  BY NextPortFacts DEF SendTty
<1>d. /\ sent' \in [Ports -> Seq(Copy)]
      /\ lateSends' \in [{"comm", "sock"} -> 0 .. 2]
      /\ \A x \in {"comm", "sock"} :
           lateSends'[x] = IF x = "comm" /\ ~IsActive /\ lateSends[x] < 2
                           THEN lateSends[x] + 1 ELSE lateSends[x]
  <2>1. <<"tty", comm.port>> \in Ports
    BY <1>a DEF Ports
  <2>2. Write(<<"tty", comm.port>>, Head(comQ[comm.port]), "comm")
    BY DEF SendTty
  <2> QED  BY <1>b, <2>1, <2>2, WriteFacts
<1>1. TypeOK'
  BY <1>b, <1>c, <1>d DEF SendTty, TypeOK
<1>2. QueuesBounded'
  BY <1>b DEF SendTty, QueuesBounded
<1>3. StillThere'
  BY <1>c, SizesAssumption DEF TypeOK, StillThere
<1>4. NoneLateYet'
  BY <1>a, <1>c, <1>d DEF SendTty, TypeOK, NoneLateYet, OneLateSendPerThread
<1> QED  BY <1>1, <1>2, <1>3, <1>4

LEMMA SocketInKeeps == IInv /\ SocketIn => IInv'
<1> SUFFICES ASSUME IInv, SocketIn PROVE IInv'
  OBVIOUS
<1> USE DEF IInv
<1>a. sockpc' \in [pc : {"service", "take", "send"}, s : Sock]
  BY NextSocketFacts DEF SocketIn, SockAt, TypeOK
<1>b. arrived' \in 0 .. MaxMsg /\ qMSGin' \in Seq(Input) /\ (qMSGin # <<>> => qMSGin' # <<>>)
  <2>1. PICK dev \in Devs : Receive(dev) \/ NoReceive
    BY TablesAssumption DEF SocketIn, TypeOK
  <2> QED  BY <2>1, ReceiveFacts
<1>c. sockpc.pc = "recv"
  BY DEF SocketIn, SockAt
<1>1. TypeOK'
  BY <1>a, <1>b DEF SocketIn, TypeOK, history
<1>2. QueuesBounded'
  BY DEF SocketIn, QueuesBounded
<1>3. StillThere'
  BY <1>b DEF SocketIn, StillThere
<1>4. NoneLateYet'
  BY <1>c DEF SocketIn, TypeOK, NoneLateYet, OneLateSendPerThread, history
<1> QED  BY <1>1, <1>2, <1>3, <1>4

LEMMA SocketOutKeeps == IInv /\ SocketOut => IInv'
<1> SUFFICES ASSUME IInv, SocketOut PROVE IInv'
  OBVIOUS
<1> USE DEF IInv
<1> DEFINE s == sockpc.s
<1>a. /\ tcpQ \in [Sock -> Seq(Entry)] /\ s \in Sock
      /\ \A x \in Sock : Len(tcpQ[x]) <= maxQcount
      /\ sockpc.pc = "send" /\ sockpc' \in [pc : {"service", "take"}, s : Sock]
  BY NextSocketFacts DEF SocketOut, SockAt, TypeOK, QueuesBounded
<1>b. UNCHANGED <<qMSGin, qTTYout, qETHout, comQ, IsActive, FailedTTYOut,
                  FailedSockOut, comm, idx, j, hand, arrived, popUB, routed>>
  BY DEF SocketOut
<1>c. /\ tcpQ' \in [Sock -> Seq(Entry)] /\ \A x \in Sock : Len(tcpQ'[x]) <= maxQcount
      /\ sent' \in [Ports -> Seq(Copy)] /\ gone' \in SUBSET Copy
      /\ lateSends' \in [{"comm", "sock"} -> 0 .. 2]
      /\ lateSends'["comm"] = lateSends["comm"]
      /\ lateSends'["sock"] = lateSends["sock"]
           \/ (~IsActive /\ lateSends'["sock"] = lateSends["sock"] + 1)
  <2>1. CASE UNCHANGED <<tcpQ, sent, gone, lateSends>>
    BY <1>a, <2>1 DEF TypeOK
  <2>2. CASE /\ tcpQ[s] # <<>>
             /\ tcpQ' = [tcpQ EXCEPT ![s] = PopFront(@)]
             /\ \/ Write(<<"sock", s>>, Head(tcpQ[s]), "sock") /\ UNCHANGED gone
                \/ Discard({CopyOf(Head(tcpQ[s]))}) /\ UNCHANGED <<sent, lateSends>>
    <3>1. /\ tcpQ' \in [Sock -> Seq(Entry)]
          /\ \A x \in Sock : Len(tcpQ'[x]) <= maxQcount
          /\ Head(tcpQ[s]) \in Entry /\ CopyOf(Head(tcpQ[s])) \in Copy
      BY <1>a, <2>2, TakeFacts DEF PopFront
    <3>2. CASE Write(<<"sock", s>>, Head(tcpQ[s]), "sock") /\ UNCHANGED gone
      <4>1. <<"sock", s>> \in Ports
        BY <1>a DEF Ports
      <4>2. /\ sent' \in [Ports -> Seq(Copy)]
            /\ lateSends' \in [{"comm", "sock"} -> 0 .. 2]
            /\ \A x \in {"comm", "sock"} :
                 lateSends'[x] = IF x = "sock" /\ ~IsActive /\ lateSends[x] < 2
                                 THEN lateSends[x] + 1 ELSE lateSends[x]
        BY <3>1, <3>2, <4>1, WriteFacts
      <4> QED  BY <3>1, <3>2, <4>2 DEF TypeOK
    <3>3. CASE Discard({CopyOf(Head(tcpQ[s]))}) /\ UNCHANGED <<sent, lateSends>>
      BY <3>1, <3>3 DEF Discard, TypeOK
    <3> QED  BY <2>2, <3>2, <3>3
  <2> QED  BY <2>1, <2>2 DEF SocketOut
<1>1. TypeOK'
  BY <1>a, <1>b, <1>c DEF TypeOK
<1>2. QueuesBounded'
  BY <1>b, <1>c DEF QueuesBounded
<1>3. StillThere'
  BY <1>b DEF StillThere
<1>4. NoneLateYet'
  BY <1>a, <1>b, <1>c DEF TypeOK, NoneLateYet, OneLateSendPerThread
<1> QED  BY <1>1, <1>2, <1>3, <1>4

LEMMA TakeEthKeeps == IInv /\ TakeEth => IInv'
<1> SUFFICES ASSUME IInv, TakeEth PROVE IInv'
  OBVIOUS
<1> USE DEF IInv
<1>a. hand' \in SUBSET Entry /\ qETHout' \in Seq(Entry)
  <2>1. CASE qETHout = <<>>
    BY <2>1 DEF TakeEth, TypeOK
  <2>2. CASE qETHout # <<>>
    <3>1. Head(qETHout) \in Entry /\ Tail(qETHout) \in Seq(Entry)
      BY <2>2, TailFacts DEF TypeOK
    <3> QED  BY <2>2, <3>1 DEF TakeEth
  <2> QED  BY <2>1, <2>2
<1>b. sockpc' \in [pc : {"service", "put"}, s : Sock]
  <2>1. sockpc = [pc |-> sockpc.pc, s |-> sockpc.s] /\ sockpc.s \in Sock
    BY DEF TypeOK
  <2>2. sockpc' \in {[pc |-> "service", s |-> 1], [pc |-> "put", s |-> sockpc.s]}
    BY <2>1 DEF TakeEth
  <2> QED  BY <2>1, <2>2, OneIsAPort
<1>1. TypeOK'
  BY <1>a, <1>b DEF TakeEth, TypeOK, history
<1>2. QueuesBounded'
  BY DEF TakeEth, QueuesBounded
<1>3. StillThere'
  BY DEF TakeEth, StillThere
<1>4. NoneLateYet'
  BY <1>b DEF TakeEth, TypeOK, NoneLateYet, OneLateSendPerThread, history
<1> QED  BY <1>1, <1>2, <1>3, <1>4

LEMMA PutEthKeeps == IInv /\ PutEth => IInv'
<1> SUFFICES ASSUME IInv, PutEth PROVE IInv'
  OBVIOUS
<1> USE DEF IInv
<1> DEFINE full(s) == Len(tcpQ[s]) >= maxQcount
<1>1. PICK e \in hand :
        /\ tcpQ' = [s \in Sock |->
                      IF s \notin OutSocket(Dest(e)) THEN tcpQ[s]
                      ELSE Append(IF full(s) THEN Tail(tcpQ[s]) ELSE tcpQ[s], e)]
        /\ gone' = gone \cup ((IF OutSocket(Dest(e)) = {} THEN {CopyOf(e)} ELSE {})
             \cup {CopyOf(Head(tcpQ[s])) : s \in {x \in OutSocket(Dest(e)) : full(x)}})
        /\ FailedSockOut' \in {FailedSockOut, FailedSockOut + 1}
  BY DEF PutEth, PushBack, Discard
<1>2. e \in Entry /\ CopyOf(e) \in Copy
  BY <1>1, EntryFacts DEF TypeOK
<1>3. \A s \in Sock :
        /\ tcpQ'[s] \in Seq(Entry) /\ Len(tcpQ'[s]) <= maxQcount
        /\ full(s) => CopyOf(Head(tcpQ[s])) \in Copy
  <2> TAKE s \in Sock
  <2>1. tcpQ[s] \in Seq(Entry) /\ Len(tcpQ[s]) <= maxQcount /\ Len(tcpQ[s]) \in Nat
    BY LenProperties DEF TypeOK, QueuesBounded
  <2>2. full(s) => /\ Tail(tcpQ[s]) \in Seq(Entry)
                   /\ Len(Tail(tcpQ[s])) = Len(tcpQ[s]) - 1
                   /\ CopyOf(Head(tcpQ[s])) \in Copy
    <3> SUFFICES ASSUME full(s)
                 PROVE  /\ Tail(tcpQ[s]) \in Seq(Entry)
                        /\ Len(Tail(tcpQ[s])) = Len(tcpQ[s]) - 1
                        /\ CopyOf(Head(tcpQ[s])) \in Copy
      OBVIOUS
    <3>1. tcpQ[s] # <<>>
      BY <2>1, EmptySeq, SizesAssumption
    <3> QED  BY <2>1, <3>1, TailFacts, EntryFacts
  <2> DEFINE q == IF full(s) THEN Tail(tcpQ[s]) ELSE tcpQ[s]
  <2>3. q \in Seq(Entry) /\ Len(q) + 1 <= maxQcount
    BY <2>1, <2>2, SizesAssumption
  <2>4. Append(q, e) \in Seq(Entry) /\ Len(Append(q, e)) <= maxQcount
    <3> HIDE DEF q
    <3> QED  BY <1>2, <2>3, AppendFacts
  <2>5. tcpQ'[s] = IF s \notin OutSocket(Dest(e)) THEN tcpQ[s] ELSE Append(q, e)
    BY <1>1
  <2> HIDE DEF q
  <2> QED  BY <2>1, <2>2, <2>4, <2>5
<1>4. gone' \in SUBSET Copy
  <2>1. OutSocket(Dest(e)) \subseteq Sock
    BY DEF OutSocket
  <2>2. {CopyOf(Head(tcpQ[s])) : s \in {x \in OutSocket(Dest(e)) : full(x)}}
          \subseteq Copy
    BY <1>3, <2>1
  <2> QED  BY <1>1, <1>2, <2>2 DEF TypeOK
<1>5. tcpQ' \in [Sock -> Seq(Entry)]
  BY <1>1, <1>3
<1>6. FailedSockOut' \in Nat
  BY <1>1 DEF TypeOK
<1>7. /\ sockpc' = [pc |-> "service", s |-> 1] /\ hand' = {}
      /\ UNCHANGED <<qMSGin, qTTYout, qETHout, comQ, IsActive, FailedTTYOut, comm,
                     idx, j, arrived, popUB, sent, routed, lateSends>>
  BY DEF PutEth
<1>8. TypeOK'
  BY <1>4, <1>5, <1>6, <1>7, OneIsAPort DEF TypeOK
<1>9. QueuesBounded'
  BY <1>3, <1>7 DEF QueuesBounded
<1>10. StillThere'
  BY <1>7 DEF StillThere
<1>11. NoneLateYet'
  BY <1>7 DEF NoneLateYet, OneLateSendPerThread
<1> QED  BY <1>8, <1>9, <1>10, <1>11

LEMMA SetActiveKeeps ==
  ASSUME NEW b \in BOOLEAN, IInv, SetActive(b)
  PROVE  IInv'
<1> USE DEF IInv
<1>1. TypeOK'
  BY DEF SetActive, TypeOK, queues
<1>2. QueuesBounded'
  BY DEF SetActive, QueuesBounded, queues
<1>3. StillThere'
  BY DEF SetActive, StillThere, queues
<1>4. NoneLateYet'
  BY DEF SetActive, NoneLateYet, OneLateSendPerThread
<1> QED  BY <1>1, <1>2, <1>3, <1>4

LEMMA TickKeeps == IInv /\ Tick => IInv'
<1> SUFFICES ASSUME IInv, Tick PROVE IInv'
  OBVIOUS
<1> USE DEF IInv
<1>a. /\ qMSGin' \in Seq(Input) /\ qTTYout' \in Seq(Entry) /\ qETHout' \in Seq(Entry)
      /\ (qMSGin # <<>> => qMSGin' # <<>>)
  BY AgedEntries, AgedInputs DEF Tick, TypeOK
<1>b. \A t \in Tty : /\ comQ'[t] \in Seq(Entry) /\ Len(comQ'[t]) = Len(comQ[t])
                     /\ (comQ[t] # <<>> => comQ'[t] # <<>>)
  BY AgedEntries DEF Tick, TypeOK
<1>c. \A s \in Sock : tcpQ'[s] \in Seq(Entry) /\ Len(tcpQ'[s]) = Len(tcpQ[s])
  BY AgedEntries DEF Tick, TypeOK
<1>d. hand' \in SUBSET Entry
  <2>1. \A e \in hand : [e EXCEPT !.age = IF @ < Older THEN @ + 1 ELSE @] \in Entry
    <3> TAKE e \in hand
    <3>1. e \in Entry
      BY DEF TypeOK
    <3>2. (IF e.age < Older THEN e.age + 1 ELSE e.age) \in Ages
      BY <3>1, SizesAssumption DEF Entry, Ages, Older
    <3> QED  BY <3>1, <3>2 DEF Entry
  <2> QED  BY <2>1 DEF Tick
<1>e. UNCHANGED <<IsActive, FailedTTYOut, FailedSockOut, comm, idx, j, sockpc,
                  arrived, popUB, sent, gone, routed, lateSends>>
  BY DEF Tick, history
<1>f. comQ' \in [Tty -> Seq(Entry)] /\ tcpQ' \in [Sock -> Seq(Entry)]
  BY <1>b, <1>c DEF Tick
<1>1. TypeOK'
  BY <1>a, <1>d, <1>e, <1>f DEF TypeOK
<1>2. QueuesBounded'
  BY <1>b, <1>c DEF QueuesBounded
<1>3. StillThere'
  BY <1>a, <1>b, <1>e DEF StillThere, TypeOK
<1>4. NoneLateYet'
  BY <1>e DEF NoneLateYet, OneLateSendPerThread
<1> QED  BY <1>1, <1>2, <1>3, <1>4

LEMMA StutterKeeps == IInv /\ UNCHANGED vars => IInv'
BY DEF IInv, vars, queues, history, TypeOK, QueuesBounded, StillThere, NoneLateYet,
       OneLateSendPerThread

LEMMA NextKeeps == IInv /\ [Next]_vars => IInv'
<1> SUFFICES ASSUME IInv, [Next]_vars PROVE IInv'
  OBVIOUS
<1>1. CASE CommStep
  BY <1>1, PurgeLimitKeeps, PurgePopKeeps, PurgeAgeKeeps, PurgeTtyKeeps,
     NextInputKeeps, RouteEntryKeeps, PopInputKeeps, SerialInKeeps, MoveTtyKeeps,
     MoveTtyDoneKeeps, PortNotReadyKeeps, DropInactiveKeeps, CheckActiveKeeps,
     SendTtyKeeps DEF CommStep
<1>2. CASE SocketStep
  BY <1>2, ServiceSocketKeeps, SocketInKeeps, SocketOutKeeps, TakeEthKeeps,
     PutEthKeeps DEF SocketStep
<1>3. CASE Tick
  BY <1>3, TickKeeps
<1>4. ASSUME NEW b \in BOOLEAN, SetActive(b) PROVE IInv'
  BY <1>4, SetActiveKeeps
<1>5. CASE Undefined \/ UNCHANGED vars
  BY <1>5, StutterKeeps DEF Undefined
<1> QED  BY <1>1, <1>2, <1>3, <1>4, <1>5 DEF Next

-----------------------------------------------------------------------------
(* The theorems.                                                            *)

(* The strengthened invariant holds in every reachable state of the two     *)
(* threads (threadComm and threadTCPserver) whatever the tables and limits. *)
THEOREM Invariance == Spec => []IInv
BY InitIInv, NextKeeps, PTL DEF Spec

(* Every variable keeps its type: in particular the entry a thread is about *)
(* to use (the front of qMSGin, the top entry of a COM port) is really one. *)
THEOREM TypeCorrectness == Spec => []TypeOK
<1>1. IInv => TypeOK
  BY DEF IInv
<1> QED  BY <1>1, Invariance, PTL

(* No COM port or socket queue exceeds maxQcount, although HandleRS232Comms, *)
(* threadTCPserver and PurgeOldMessages bound them with different tests.     *)
THEOREM QueuesAlwaysBounded == Spec => []QueuesBounded
<1>1. IInv => QueuesBounded
  BY DEF IInv
<1> QED  BY <1>1, Invariance, PTL

(* Deactivating the gateway stops each thread after at most one more write:  *)
(* the message it had committed to when it read Me.IsActive.                 *)
THEOREM DeactivationIsPrompt == Spec => []OneLateSendPerThread
<1>1. IInv => OneLateSendPerThread
  BY DEF IInv, NoneLateYet
<1> QED  BY <1>1, Invariance, PTL

-----------------------------------------------------------------------------
(* Delivery.  The argument has two levels.  The copies a queue holds are   *)
(* sets, and every step of the pipeline moves copies between these sets in *)
(* one of five ways (made, taken to a port, refused, sent, given up), each *)
(* of which keeps them apart and in turn.  That the actions do no more     *)
(* than that, since a queue is sorted and only its front leaves it, is the *)
(* second level.                                                           *)

(* The copies in a queue, in the hands of the Socket thread, on a port.       *)
In(q)    == {CopyOf(q[i]) : i \in DOMAIN q}
Held     == {CopyOf(e) : e \in hand}
PQ       == [p \in Ports |-> IF p[1] = "tty" THEN In(comQ[p[2]]) ELSE In(tcpQ[p[2]])]
SQ       == [p \in Ports |-> {sent[p][i] : i \in DOMAIN sent[p]}]
Kinds    == {"tty", "sock"}
FQ       == [k \in Kinds |-> IF k = "tty" THEN In(qTTYout) ELSE Held \cup In(qETHout)]

(* The order of the copies, and of the entries of a queue.                    *)
Earlier(c, d)    == c[1] < d[1] \/ (c[1] = d[1] /\ c[2] < d[2])
AllEarlier(A, B) == \A a \in A, b \in B : Earlier(a, b)
Sorted(q) == \A i, k \in DOMAIN q : i < k => Earlier(CopyOf(q[i]), CopyOf(q[k]))

(* The port a copy is for: the first one bound to its destination.           *)
KindOf(c)   == IF RouteTable[c[2]].dst \in TtyDevs THEN "tty" ELSE "sock"
IsFor(c, p) == /\ p[1] = KindOf(c)
               /\ p[2] \in IF KindOf(c) = "tty" THEN BoundTty(RouteTable[c[2]].dst)
                                                ELSE OutSocket(RouteTable[c[2]].dst)

(* R: copies made, G: given up, S: port -> sent, Q: port -> queued there,     *)
(* F: kind -> on the way to the ports of that kind.                           *)
Conserved(R, G, S, Q, F) ==
  \A c \in Copy : c \in R <=> \/ c \in G \/ \E k \in Kinds : c \in F[k]
                              \/ \E p \in Ports : c \in S[p] \/ c \in Q[p]
Apart(G, S, Q, F) ==
  /\ \A k \in Kinds : \A c \in F[k] : c \notin G /\ KindOf(c) = k
  /\ \A p \in Ports : \A c \in S[p] \cup Q[p] : c \notin G /\ IsFor(c, p)
InTurn(S, Q, F) ==
  \A p \in Ports : AllEarlier(S[p], Q[p]) /\ AllEarlier(S[p] \cup Q[p], F[p[1]])
Placed(R, G, S, Q, F) ==
  /\ R \in SUBSET Copy /\ G \in SUBSET Copy
  /\ S \in [Ports -> SUBSET Copy] /\ Q \in [Ports -> SUBSET Copy]
  /\ F \in [Kinds -> SUBSET Copy]
  /\ Conserved(R, G, S, Q, F) /\ Apart(G, S, Q, F) /\ InTurn(S, Q, F)

QueuesSorted ==
  /\ Sorted(qTTYout) /\ Sorted(qETHout) /\ AllEarlier(Held, In(qETHout))
  /\ \A t \in Tty : Sorted(comQ[t])
  /\ \A s \in Sock : Sorted(tcpQ[s])
  /\ \A p \in Ports : \A i, k \in DOMAIN sent[p] : i < k => Earlier(sent[p][i], sent[p][k])

HandOfThePut ==
  /\ sockpc.pc = "put" => \E e \in Entry : hand = {e}
  /\ sockpc.pc # "put" => hand = {}

RoutedInOrder ==
  /\ comm.pc # "scan" => comm.r = 1
  /\ \A i \in DOMAIN qMSGin : qMSGin[i].id <= arrived
  /\ \A i, k \in DOMAIN qMSGin : i < k => qMSGin[i].id < qMSGin[k].id
  /\ \A c \in routed : c[1] <= arrived
  /\ \A c \in routed : \A i \in DOMAIN qMSGin : Earlier(c, <<qMSGin[i].id, comm.r>>)

AllPlaced == Placed(routed, gone, SQ, PQ, FQ)

DInv ==
  /\ AllPlaced
  /\ QueuesSorted /\ HandOfThePut /\ RoutedInOrder

-----------------------------------------------------------------------------
(* Facts about the order and the ports.                                      *)

LEMMA CopyFields ==
  ASSUME NEW c \in Copy
  PROVE  c[1] \in 1 .. MaxMsg /\ c[2] \in Routes /\ c = <<c[1], c[2]>>
BY DEF Copy

(* Earlier is a strict order of the copies.                                  *)
LEMMA EarlierIsStrict ==
  ASSUME NEW c \in Copy, NEW d \in Copy
  PROVE  /\ ~Earlier(c, c)
         /\ Earlier(c, d) => ~Earlier(d, c)
         /\ \A e \in Copy : Earlier(c, d) /\ Earlier(d, e) => Earlier(c, e)
<1>1. /\ c[1] \in Int /\ c[2] \in Int /\ d[1] \in Int /\ d[2] \in Int
      /\ \A e \in Copy : e[1] \in Int /\ e[2] \in Int
  BY CopyFields, SizesAssumption DEF Routes
<1> QED  BY <1>1 DEF Earlier

(* A copy is for at most one port: the first bound to its destination.       *)
LEMMA OnePort ==
  ASSUME NEW c \in Copy, NEW p \in Ports, NEW q \in Ports, IsFor(c, p), IsFor(c, q)
  PROVE  p = q
<1>1. p[1] = q[1] /\ p = <<p[1], p[2]>> /\ q = <<q[1], q[2]>>
  BY DEF IsFor, Ports
<1>2. CASE KindOf(c) = "tty"
  <2>1. p[2] \in Int /\ q[2] \in Int /\ p[2] <= q[2] /\ q[2] <= p[2]
    BY <1>2 DEF IsFor, BoundTty, Tty
  <2> QED  BY <1>1, <2>1
<1>3. CASE KindOf(c) # "tty"
  <2>1. p[2] \in Int /\ q[2] \in Int /\ p[2] <= q[2] /\ q[2] <= p[2]
    BY <1>3 DEF IsFor, OutSocket, Sock
  <2> QED  BY <1>1, <2>1
<1> QED  BY <1>2, <1>3

LEMMA KindsOfPorts ==
  /\ \A p \in Ports : p[1] \in Kinds
  /\ \A c : KindOf(c) \in Kinds
BY DEF Ports, Kinds, KindOf

-----------------------------------------------------------------------------
(* The five ways copies move.                                                *)

(* The router makes a copy that is later than all others.                    *)
LEMMA Made ==
  ASSUME NEW R, NEW G, NEW S, NEW Q, NEW F, Placed(R, G, S, Q, F),
         NEW c \in Copy, AllEarlier(R, {c})
  PROVE  Placed(R \cup {c}, G, S, Q, [F EXCEPT ![KindOf(c)] = @ \cup {c}])
<1> DEFINE k == KindOf(c)
           F2 == [F EXCEPT ![k] = @ \cup {c}]
<1>1. k \in Kinds /\ F \in [Kinds -> SUBSET Copy]
  BY KindsOfPorts DEF Placed
<1>2. F2 \in [Kinds -> SUBSET Copy] /\ F2[k] = F[k] \cup {c}
      /\ \A x \in Kinds : x # k => F2[x] = F[x]
  BY <1>1
<1>3. c \notin R
  BY EarlierIsStrict DEF AllEarlier
<1>4. Conserved(R \cup {c}, G, S, Q, F2)
  BY <1>1, <1>2 DEF Placed, Conserved
<1>5. Apart(G, S, Q, F2)
  BY <1>1, <1>2, <1>3 DEF Placed, Conserved, Apart
<1>6. InTurn(S, Q, F2)
  <2> SUFFICES ASSUME NEW p \in Ports
               PROVE  AllEarlier(S[p], Q[p]) /\ AllEarlier(S[p] \cup Q[p], F2[p[1]])
    BY DEF InTurn
  <2>1. S[p] \cup Q[p] \subseteq R
    BY DEF Placed, Conserved
  <2>2. F2[p[1]] \subseteq F[p[1]] \cup {c}
    BY <1>2, KindsOfPorts
  <2> QED  BY <2>1, <2>2 DEF Placed, InTurn, AllEarlier
<1> QED  BY <1>2, <1>4, <1>5, <1>6 DEF Placed

(* The first copy on the way to a kind of ports is queued at its port, which *)
(* may give up others for it.                                                *)
LEMMA Taken ==
  ASSUME NEW R, NEW G, NEW S, NEW Q, NEW F, Placed(R, G, S, Q, F),
         NEW p \in Ports, NEW c \in F[p[1]], IsFor(c, p),
         AllEarlier({c}, F[p[1]] \ {c}), NEW D \in SUBSET Q[p]
  PROVE  Placed(R, G \cup D, S, [Q EXCEPT ![p] = (@ \ D) \cup {c}],
                [F EXCEPT ![p[1]] = @ \ {c}])
<1> DEFINE k == p[1]
           F2 == [F EXCEPT ![k] = @ \ {c}]
           Q2 == [Q EXCEPT ![p] = (@ \ D) \cup {c}]
<1>1. /\ k \in Kinds /\ F \in [Kinds -> SUBSET Copy] /\ Q \in [Ports -> SUBSET Copy]
      /\ S \in [Ports -> SUBSET Copy]
  BY KindsOfPorts DEF Placed
<1>2. /\ F2 \in [Kinds -> SUBSET Copy] /\ F2[k] = F[k] \ {c}
      /\ \A x \in Kinds : x # k => F2[x] = F[x]
      /\ Q2 \in [Ports -> SUBSET Copy] /\ Q2[p] = (Q[p] \ D) \cup {c}
      /\ \A x \in Ports : x # p => Q2[x] = Q[x]
      /\ c \in Copy /\ D \subseteq Copy /\ G \cup D \in SUBSET Copy
  BY <1>1 DEF Placed
<1>3. /\ c \notin G /\ \A x \in Ports : c \notin S[x] /\ c \notin Q[x]
  <2>1. c \notin G
    BY <1>1 DEF Placed, Apart
  <2>2. ASSUME NEW x \in Ports, c \in S[x] \cup Q[x] PROVE FALSE
    <3>1. x = p
      BY <1>2, <2>2, OnePort DEF Placed, Apart
    <3>2. Earlier(c, c)
      BY <2>2, <3>1 DEF Placed, InTurn, AllEarlier
    <3> QED  BY <1>2, <3>2, EarlierIsStrict
  <2> QED  BY <2>1, <2>2
<1>4. Conserved(R, G \cup D, S, Q2, F2)
  BY <1>1, <1>2 DEF Placed, Conserved
<1>5. Apart(G \cup D, S, Q2, F2)
  <2>1. ASSUME NEW x \in Kinds, NEW d \in F2[x]
        PROVE  d \notin G \cup D /\ KindOf(d) = x
    <3>1. d \in F[x] /\ d \in Copy
      BY <1>1, <1>2, <2>1
    <3>2. d \notin G /\ KindOf(d) = x
      BY <3>1 DEF Placed, Apart
    <3>3. d \notin D
      <4> SUFFICES ASSUME d \in D PROVE FALSE
        OBVIOUS
      <4>1. d \in Q[p] /\ IsFor(d, p)
        BY DEF Placed, Apart
      <4>2. x = p[1]
        BY <3>2, <4>1 DEF IsFor
      <4>3. Earlier(d, d)
        BY <3>1, <4>1, <4>2 DEF Placed, InTurn, AllEarlier
      <4> QED  BY <3>1, <4>3, EarlierIsStrict
    <3> QED  BY <3>2, <3>3
  <2>2. ASSUME NEW x \in Ports, NEW d \in S[x] \cup Q2[x]
        PROVE  d \notin G \cup D /\ IsFor(d, x)
    <3>1. CASE d = c /\ x = p
      BY <1>3, <3>1
    <3>2. CASE d # c \/ x # p
      <4>1. d \in S[x] \cup Q[x] /\ d \in Copy /\ (x = p => d \in S[x] \/ d \notin D)
        BY <1>1, <1>2, <2>2, <3>2
      <4>2. d \notin G /\ IsFor(d, x)
        BY <4>1 DEF Placed, Apart
      <4>3. d \notin D
        <5> SUFFICES ASSUME d \in D PROVE FALSE
          OBVIOUS
        <5>1. d \in Q[p] /\ IsFor(d, p)
          BY DEF Placed, Apart
        <5>2. x = p
          BY <4>1, <4>2, <5>1, OnePort
        <5>3. Earlier(d, d)
          BY <4>1, <5>1, <5>2 DEF Placed, InTurn, AllEarlier
        <5> QED  BY <4>1, <5>3, EarlierIsStrict
      <4> QED  BY <4>2, <4>3
    <3> QED  BY <3>1, <3>2
  <2> QED  BY <2>1, <2>2 DEF Apart
<1>6. InTurn(S, Q2, F2)
  <2> SUFFICES ASSUME NEW x \in Ports
               PROVE  AllEarlier(S[x], Q2[x]) /\ AllEarlier(S[x] \cup Q2[x], F2[x[1]])
    BY DEF InTurn
  <2>1. /\ AllEarlier(S[x], Q[x]) /\ AllEarlier(S[x] \cup Q[x], F[x[1]])
        /\ x[1] \in Kinds
    BY KindsOfPorts DEF Placed, InTurn
  <2>2. CASE x # p
    <3>1. Q2[x] = Q[x] /\ F2[x[1]] \subseteq F[x[1]]
      BY <1>1, <1>2, <2>1, <2>2
    <3> QED  BY <2>1, <3>1 DEF AllEarlier
  <2>3. CASE x = p
    <3>1. Q2[x] \subseteq Q[x] \cup {c} /\ F2[x[1]] = F[x[1]] \ {c}
      BY <1>1, <1>2, <2>3
    <3> QED  BY <2>1, <2>3, <3>1 DEF AllEarlier
  <2> QED  BY <2>2, <2>3
<1> QED  BY <1>1, <1>2, <1>4, <1>5, <1>6 DEF Placed

(* A copy on the way is given up: its port is gone, or its queue is full.    *)
LEMMA RefusedCopy ==
  ASSUME NEW R, NEW G, NEW S, NEW Q, NEW F, Placed(R, G, S, Q, F),
         NEW k \in Kinds, NEW c \in F[k]
  PROVE  Placed(R, G \cup {c}, S, Q, [F EXCEPT ![k] = @ \ {c}])
<1> DEFINE F2 == [F EXCEPT ![k] = @ \ {c}]
<1>1. F \in [Kinds -> SUBSET Copy] /\ S \in [Ports -> SUBSET Copy] /\ Q \in [Ports -> SUBSET Copy]
  BY DEF Placed
<1>2. /\ F2 \in [Kinds -> SUBSET Copy] /\ F2[k] = F[k] \ {c} /\ c \in Copy
      /\ \A x \in Kinds : x # k => F2[x] = F[x]
      /\ G \cup {c} \in SUBSET Copy
  BY <1>1 DEF Placed
<1>3. Conserved(R, G \cup {c}, S, Q, F2)
  BY <1>1, <1>2 DEF Placed, Conserved
<1>4. \A x \in Ports : c \notin S[x] \cup Q[x]
  <2> SUFFICES ASSUME NEW x \in Ports, c \in S[x] \cup Q[x] PROVE FALSE
    OBVIOUS
  <2>1. x[1] = k
    BY DEF Placed, Apart, IsFor
  <2>2. Earlier(c, c)
    BY <2>1 DEF Placed, InTurn, AllEarlier
  <2> QED  BY <1>2, <2>2, EarlierIsStrict
<1>5. Apart(G \cup {c}, S, Q, F2)
  BY <1>1, <1>2, <1>4 DEF Placed, Apart
<1>6. InTurn(S, Q, F2)
  <2>1. \A x \in Kinds : F2[x] \subseteq F[x]
    BY <1>2
  <2> QED  BY <2>1, KindsOfPorts DEF Placed, InTurn, AllEarlier
<1> QED  BY <1>1, <1>2, <1>3, <1>5, <1>6 DEF Placed

(* The first copy queued at a port is transmitted.                           *)
LEMMA SentCopy ==
  ASSUME NEW R, NEW G, NEW S, NEW Q, NEW F, Placed(R, G, S, Q, F),
         NEW p \in Ports, NEW c \in Q[p], AllEarlier({c}, Q[p] \ {c})
  PROVE  Placed(R, G, [S EXCEPT ![p] = @ \cup {c}], [Q EXCEPT ![p] = @ \ {c}], F)
<1> DEFINE S2 == [S EXCEPT ![p] = @ \cup {c}]
           Q2 == [Q EXCEPT ![p] = @ \ {c}]
<1>1. F \in [Kinds -> SUBSET Copy] /\ S \in [Ports -> SUBSET Copy] /\ Q \in [Ports -> SUBSET Copy]
  BY DEF Placed
<1>2. /\ S2 \in [Ports -> SUBSET Copy] /\ S2[p] = S[p] \cup {c}
      /\ Q2 \in [Ports -> SUBSET Copy] /\ Q2[p] = Q[p] \ {c} /\ c \in Copy
      /\ \A x \in Ports : x # p => S2[x] = S[x] /\ Q2[x] = Q[x]
      /\ \A x \in Ports : S2[x] \cup Q2[x] = S[x] \cup Q[x]
  BY <1>1
<1>3. Conserved(R, G, S2, Q2, F)
  <2>1. \A x \in Ports : \A d : (d \in S2[x] \/ d \in Q2[x]) <=> (d \in S[x] \/ d \in Q[x])
    BY <1>2
  <2> QED  BY <2>1 DEF Placed, Conserved
<1>4. Apart(G, S2, Q2, F)
  BY <1>2 DEF Placed, Apart
<1>5. InTurn(S2, Q2, F)
  <2> SUFFICES ASSUME NEW x \in Ports
               PROVE  AllEarlier(S2[x], Q2[x]) /\ AllEarlier(S2[x] \cup Q2[x], F[x[1]])
    BY DEF InTurn
  <2>1. AllEarlier(S2[x] \cup Q2[x], F[x[1]])
    BY <1>2 DEF Placed, InTurn
  <2>2. AllEarlier(S2[x], Q2[x])
    BY <1>2 DEF Placed, InTurn, AllEarlier
  <2> QED  BY <2>1, <2>2
<1> QED  BY <1>1, <1>2, <1>3, <1>4, <1>5 DEF Placed

(* Copies queued at a port are given up.                                     *)
LEMMA DroppedCopies ==
  ASSUME NEW R, NEW G, NEW S, NEW Q, NEW F, Placed(R, G, S, Q, F),
         NEW p \in Ports, NEW D \in SUBSET Q[p]
  PROVE  Placed(R, G \cup D, S, [Q EXCEPT ![p] = @ \ D], F)
<1> DEFINE Q2 == [Q EXCEPT ![p] = @ \ D]
<1>1. F \in [Kinds -> SUBSET Copy] /\ S \in [Ports -> SUBSET Copy] /\ Q \in [Ports -> SUBSET Copy]
  BY DEF Placed
<1>2. /\ Q2 \in [Ports -> SUBSET Copy] /\ Q2[p] = Q[p] \ D
      /\ \A x \in Ports : x # p => Q2[x] = Q[x]
      /\ \A x \in Ports : Q2[x] \subseteq Q[x]
      /\ G \cup D \in SUBSET Copy /\ D \subseteq Copy
  BY <1>1 DEF Placed
<1>3. Conserved(R, G \cup D, S, Q2, F)
  BY <1>1, <1>2 DEF Placed, Conserved
<1>4. \A d \in D : IsFor(d, p) /\ \A k \in Kinds : d \notin F[k]
  <2> SUFFICES ASSUME NEW d \in D PROVE IsFor(d, p) /\ \A k \in Kinds : d \notin F[k]
    OBVIOUS
  <2>1. IsFor(d, p)
    BY DEF Placed, Apart
  <2>2. ASSUME NEW k \in Kinds, d \in F[k] PROVE FALSE
    <3>1. k = p[1]
      BY <2>1, <2>2 DEF Placed, Apart, IsFor
    <3>2. Earlier(d, d)
      BY <2>2, <3>1 DEF Placed, InTurn, AllEarlier
    <3> QED  BY <1>2, <3>2, EarlierIsStrict
  <2> QED  BY <2>1, <2>2
<1>5. \A d \in D, x \in Ports : d \notin S[x] /\ d \notin Q2[x]
  <2> SUFFICES ASSUME NEW d \in D, NEW x \in Ports, d \in S[x] \cup Q2[x] PROVE FALSE
    OBVIOUS
  <2>1. x = p
    BY <1>2, <1>4, OnePort DEF Placed, Apart
  <2>2. Earlier(d, d)
    BY <1>2, <2>1 DEF Placed, InTurn, AllEarlier
  <2> QED  BY <1>2, <2>2, EarlierIsStrict
<1>6. Apart(G \cup D, S, Q2, F)
  BY <1>2, <1>4, <1>5 DEF Placed, Apart
<1>7. InTurn(S, Q2, F)
  BY <1>2 DEF Placed, InTurn, AllEarlier
<1> QED  BY <1>1, <1>2, <1>3, <1>6, <1>7 DEF Placed

-----------------------------------------------------------------------------
(* What the operations on a queue do to the copies in it.                    *)

LEMMA CopiesIn ==
  ASSUME NEW q \in Seq(Entry)
  PROVE  /\ In(q) \in SUBSET Copy
         /\ \A i \in 1 .. Len(q) : CopyOf(q[i]) \in Copy
         /\ DOMAIN q = 1 .. Len(q) /\ Len(q) \in Nat
         /\ In(q) = {CopyOf(q[i]) : i \in 1 .. Len(q)}
<1>1. DOMAIN q = 1 .. Len(q) /\ Len(q) \in Nat
  BY LenProperties
<1>2. \A i \in 1 .. Len(q) : CopyOf(q[i]) \in Copy
  BY <1>1, ElementOfSeq, EntryFacts
<1> QED  BY <1>1, <1>2 DEF In

LEMMA EmptyQueue == In(<<>>) = {} /\ Sorted(<<>>)
<1>1. DOMAIN <<>> = {}
  BY EmptySeq, LenProperties
<1> QED  BY <1>1 DEF In, Sorted

(* The front of a sorted queue is its earliest copy, and leaves alone.       *)
LEMMA FrontLeaves ==
  ASSUME NEW q \in Seq(Entry), q # <<>>, Sorted(q)
  PROVE  /\ Head(q) \in Entry /\ CopyOf(Head(q)) \in In(q)
         /\ In(Tail(q)) = In(q) \ {CopyOf(Head(q))}
         /\ AllEarlier({CopyOf(Head(q))}, In(q) \ {CopyOf(Head(q))})
         /\ Sorted(Tail(q))
<1> DEFINE c == CopyOf(Head(q))
<1>1. /\ Len(q) \in Nat \ {0} /\ DOMAIN q = 1 .. Len(q) /\ Head(q) = q[1]
      /\ Tail(q) \in Seq(Entry) /\ Len(Tail(q)) = Len(q) - 1 /\ Head(q) \in Entry
      /\ \A i \in 1 .. Len(q) - 1 : Tail(q)[i] = q[i + 1]
      /\ DOMAIN Tail(q) = 1 .. Len(q) - 1
  <2>1. Len(q) \in Nat \ {0} /\ DOMAIN q = 1 .. Len(q)
    BY EmptySeq, LenProperties
  <2>2. /\ Tail(q) \in Seq(Entry) /\ Len(Tail(q)) = Len(q) - 1 /\ Head(q) \in Entry
        /\ \A i \in 1 .. Len(Tail(q)) : Tail(q)[i] = q[i + 1]
    BY HeadTailProperties
  <2>3. DOMAIN Tail(q) = 1 .. Len(q) - 1
    BY <2>2, LenProperties
  <2> QED  BY <2>1, <2>2, <2>3
<1>2. \A i, k \in 1 .. Len(q) : i < k => Earlier(CopyOf(q[i]), CopyOf(q[k]))
  BY <1>1 DEF Sorted
<1>3. \A i \in 2 .. Len(q) : Earlier(c, CopyOf(q[i])) /\ CopyOf(q[i]) # c
  <2> TAKE i \in 2 .. Len(q)
  <2>1. Earlier(CopyOf(q[1]), CopyOf(q[i]))
    BY <1>1, <1>2
  <2>2. c \in Copy /\ c = CopyOf(q[1])
    BY <1>1, CopiesIn
  <2> HIDE DEF c
  <2> QED  BY <2>1, <2>2, EarlierIsStrict
<1>4. In(q) = {c} \cup {CopyOf(q[i]) : i \in 2 .. Len(q)}
  <2>1. In(q) = {CopyOf(q[i]) : i \in 1 .. Len(q)}
    BY <1>1 DEF In
  <2>2. 1 .. Len(q) = {1} \cup 2 .. Len(q)
    BY <1>1
  <2>3. {CopyOf(q[i]) : i \in {1} \cup 2 .. Len(q)} = {CopyOf(q[1])} \cup {CopyOf(q[i]) : i \in 2 .. Len(q)}
    OBVIOUS
  <2> QED  BY <1>1, <2>1, <2>2, <2>3
<1>5. In(Tail(q)) = {CopyOf(q[i]) : i \in 2 .. Len(q)}
  <2>1. In(Tail(q)) = {CopyOf(q[i + 1]) : i \in 1 .. Len(q) - 1}
    BY <1>1 DEF In
  <2>2. \A x : (\E i \in 1 .. Len(q) - 1 : x = CopyOf(q[i + 1])) <=> (\E i \in 2 .. Len(q) : x = CopyOf(q[i]))
    <3> TAKE x
    <3>1. ASSUME NEW i \in 1 .. Len(q) - 1 PROVE i + 1 \in 2 .. Len(q)
      BY <1>1
    <3>2. ASSUME NEW i \in 2 .. Len(q) PROVE i - 1 \in 1 .. Len(q) - 1 /\ (i - 1) + 1 = i
      BY <1>1
    <3> QED  BY <3>1, <3>2
  <2> QED  BY <2>1, <2>2
<1>6. Sorted(Tail(q))
  <2> SUFFICES ASSUME NEW i \in 1 .. Len(q) - 1, NEW k \in 1 .. Len(q) - 1, i < k
               PROVE  Earlier(CopyOf(Tail(q)[i]), CopyOf(Tail(q)[k]))
    BY <1>1 DEF Sorted
  <2>1. i + 1 \in 1 .. Len(q) /\ k + 1 \in 1 .. Len(q) /\ i + 1 < k + 1
    BY <1>1
  <2> QED  BY <1>1, <1>2, <2>1
<1> HIDE DEF c
<1>7. c \in In(q) /\ In(Tail(q)) = In(q) \ {c} /\ AllEarlier({c}, In(q) \ {c})
  BY <1>3, <1>4, <1>5 DEF AllEarlier
<1> QED  BY <1>1, <1>6, <1>7 DEF c

(* A later entry at the back keeps the queue sorted.                         *)
LEMMA BackJoins ==
  ASSUME NEW q \in Seq(Entry), NEW e \in Entry, Sorted(q), AllEarlier(In(q), {CopyOf(e)})
  PROVE  In(Append(q, e)) = In(q) \cup {CopyOf(e)} /\ Sorted(Append(q, e))
<1>1. /\ Len(q) \in Nat /\ DOMAIN q = 1 .. Len(q)
      /\ DOMAIN Append(q, e) = 1 .. Len(q) + 1
      /\ \A i \in 1 .. Len(q) : Append(q, e)[i] = q[i]
      /\ Append(q, e)[Len(q) + 1] = e
  BY LenProperties, AppendProperties
<1>2. 1 .. Len(q) + 1 = 1 .. Len(q) \cup {Len(q) + 1}
  BY <1>1
<1>3. In(Append(q, e)) = In(q) \cup {CopyOf(e)}
  <2>1. In(Append(q, e)) = {CopyOf(Append(q, e)[i]) : i \in 1 .. Len(q) \cup {Len(q) + 1}}
    BY <1>1, <1>2 DEF In
  <2>2. \A x : x \in In(Append(q, e)) <=> \/ \E i \in 1 .. Len(q) : x = CopyOf(Append(q, e)[i])
                                        \/ x = CopyOf(Append(q, e)[Len(q) + 1])
    BY <2>1
  <2>3. In(q) = {CopyOf(q[i]) : i \in 1 .. Len(q)}
    BY <1>1 DEF In
  <2> QED  BY <1>1, <2>2, <2>3
<1>4. Sorted(Append(q, e))
  <2> SUFFICES ASSUME NEW i \in 1 .. Len(q) + 1, NEW k \in 1 .. Len(q) + 1, i < k
               PROVE  Earlier(CopyOf(Append(q, e)[i]), CopyOf(Append(q, e)[k]))
    BY <1>1 DEF Sorted
  <2>1. i \in 1 .. Len(q) /\ (k \in 1 .. Len(q) \/ k = Len(q) + 1)
    BY <1>1
  <2>2. CopyOf(q[i]) \in In(q)
    BY <1>1, <2>1 DEF In
  <2> QED  BY <1>1, <2>1, <2>2 DEF Sorted, AllEarlier
<1> QED  BY <1>3, <1>4

(* Getting older moves nothing.                                              *)
LEMMA AgedKeeps ==
  ASSUME NEW q \in Seq(Entry)
  PROVE  In(Aged(q)) = In(q) /\ (Sorted(q) => Sorted(Aged(q)))
<1>1. DOMAIN Aged(q) = DOMAIN q
  BY DEF Aged
<1>2. \A i \in DOMAIN q : CopyOf(Aged(q)[i]) = CopyOf(q[i])
  <2> TAKE i \in DOMAIN q
  <2>1. q[i] \in Entry
    BY LenProperties, ElementOfSeq
  <2>2. Aged(q)[i] = [q[i] EXCEPT !.age = IF @ < Older THEN @ + 1 ELSE @]
    BY DEF Aged
  <2> QED  BY <2>1, <2>2 DEF CopyOf, Entry
<1> QED  BY <1>1, <1>2 DEF In, Sorted

-----------------------------------------------------------------------------
(* The sets of the state, and the steps of the promise.                      *)

LEMMA PortFacts ==
  /\ \A t \in Tty : <<"tty", t>> \in Ports
  /\ \A s \in Sock : <<"sock", s>> \in Ports
  /\ \A p \in Ports : \/ \E t \in Tty : p = <<"tty", t>>
                      \/ \E s \in Sock : p = <<"sock", s>>
BY DEF Ports

LEMMA QueueSets ==
  /\ PQ \in [Ports -> {PQ[p] : p \in Ports}] /\ FQ \in [Kinds -> {FQ["tty"], FQ["sock"]}]
  /\ \A t \in Tty : PQ[<<"tty", t>>] = In(comQ[t])
  /\ \A s \in Sock : PQ[<<"sock", s>>] = In(tcpQ[s])
  /\ FQ["tty"] = In(qTTYout) /\ FQ["sock"] = Held \cup In(qETHout)
  /\ \A p \in Ports : SQ[p] = {sent[p][i] : i \in DOMAIN sent[p]}
<1>1. /\ \A t \in Tty : PQ[<<"tty", t>>] = In(comQ[t])
      /\ \A s \in Sock : PQ[<<"sock", s>>] = In(tcpQ[s])
  BY PortFacts DEF PQ
<1> QED  BY <1>1 DEF PQ, FQ, SQ, Kinds

(* One queue of a COM port, or of a socket, changes.                         *)
LEMMA ComQueueChanges ==
  ASSUME NEW t \in Tty, NEW q, comQ' = [x \in Tty |-> IF x = t THEN q ELSE comQ[x]],
         tcpQ' = tcpQ
  PROVE  PQ' = [PQ EXCEPT ![<<"tty", t>>] = In(q)]
<1>1. \A p \in Ports : PQ'[p] = IF p = <<"tty", t>> THEN In(q) ELSE PQ[p]
  <2> TAKE p \in Ports
  <2>1. CASE \E x \in Tty : p = <<"tty", x>>
    BY <2>1 DEF PQ
  <2>2. CASE \E s \in Sock : p = <<"sock", s>>
    BY <2>2 DEF PQ
  <2> QED  BY <2>1, <2>2, PortFacts
<1>2. PQ' = [p \in Ports |-> PQ'[p]]
  BY DEF PQ
<1>3. [PQ EXCEPT ![<<"tty", t>>] = In(q)] = [p \in Ports |-> IF p = <<"tty", t>> THEN In(q) ELSE PQ[p]]
  BY DEF PQ
<1> HIDE DEF PQ
<1> QED  BY <1>1, <1>2, <1>3

LEMMA SockQueueChanges ==
  ASSUME NEW s \in Sock, NEW q, tcpQ' = [x \in Sock |-> IF x = s THEN q ELSE tcpQ[x]],
         comQ' = comQ
  PROVE  PQ' = [PQ EXCEPT ![<<"sock", s>>] = In(q)]
<1>1. \A p \in Ports : PQ'[p] = IF p = <<"sock", s>> THEN In(q) ELSE PQ[p]
  <2> TAKE p \in Ports
  <2>1. CASE \E x \in Tty : p = <<"tty", x>>
    BY <2>1 DEF PQ
  <2>2. CASE \E x \in Sock : p = <<"sock", x>>
    BY <2>2 DEF PQ
  <2> QED  BY <2>1, <2>2, PortFacts
<1>2. PQ' = [p \in Ports |-> PQ'[p]]
  BY DEF PQ
<1>3. [PQ EXCEPT ![<<"sock", s>>] = In(q)] = [p \in Ports |-> IF p = <<"sock", s>> THEN In(q) ELSE PQ[p]]
  BY DEF PQ
<1> HIDE DEF PQ
<1> QED  BY <1>1, <1>2, <1>3

(* What is queued or on the way to a queue may still be sent or given up.    *)
LEMMA StillPending ==
  ASSUME TypeOK, DInv
  PROVE  /\ \A p \in Ports : PQ[p] \subseteq Promise!Pending
         /\ \A k \in Kinds : FQ[k] \subseteq Promise!Pending
<1>1. Placed(routed, gone, SQ, PQ, FQ)
  BY DEF DInv, AllPlaced
<1>2. Promise!Pending = {c \in routed : c \notin gone /\ \A p \in Ports : c \notin SQ[p]}
  <2>1. \A p \in Ports : SQ[p] = Promise!ToSet(sent[p])
    BY DEF SQ, Promise!ToSet
  <2> QED  BY <2>1 DEF Promise!Pending, Promise!Written
<1>3. ASSUME NEW p \in Ports, NEW c \in PQ[p] PROVE c \in Promise!Pending
  <2>1. c \in Copy /\ c \in routed /\ c \notin gone /\ IsFor(c, p)
    BY <1>1 DEF Placed, Conserved, Apart
  <2>2. ASSUME NEW x \in Ports, c \in SQ[x] PROVE FALSE
    <3>1. x = p
      BY <1>1, <2>1, <2>2, OnePort DEF Placed, Apart
    <3>2. Earlier(c, c)
      BY <1>1, <2>2, <3>1 DEF Placed, InTurn, AllEarlier
    <3> QED  BY <2>1, <3>2, EarlierIsStrict
  <2> QED  BY <1>2, <2>1, <2>2
<1>4. ASSUME NEW k \in Kinds, NEW c \in FQ[k] PROVE c \in Promise!Pending
  <2>1. c \in Copy /\ c \in routed /\ c \notin gone /\ KindOf(c) = k
    BY <1>1 DEF Placed, Conserved, Apart
  <2>2. ASSUME NEW x \in Ports, c \in SQ[x] PROVE FALSE
    <3>1. x[1] = k
      BY <1>1, <2>1, <2>2 DEF Placed, Apart, IsFor
    <3>2. Earlier(c, c)
      BY <1>1, <2>2, <3>1 DEF Placed, InTurn, AllEarlier
    <3> QED  BY <2>1, <3>2, EarlierIsStrict
  <2> QED  BY <1>2, <2>1, <2>2
<1> QED  BY <1>3, <1>4

Promised == [Promise!Next]_<<arrived, routed, sent, gone>>

LEMMA GivesUp ==
  ASSUME NEW D \in SUBSET Promise!Pending, gone' = gone \cup D,
         UNCHANGED <<arrived, routed, sent>>
  PROVE  Promised
BY DEF Promised, Promise!Next, Promise!GiveUp

LEMMA Sends ==
  ASSUME TypeOK, DInv, NEW p \in Ports, NEW c \in PQ[p],
         sent' = [sent EXCEPT ![p] = Append(@, c)], UNCHANGED <<arrived, routed, gone>>
  PROVE  Promised
<1>1. c \in Promise!Pending
  BY StillPending
<1>2. c \in Copy /\ IsFor(c, p)
  BY DEF DInv, AllPlaced, Placed, Apart
<1>3. c[2] \in Routes /\ p \in PortsOf[c[2]]
  <2>1. c[2] \in Routes
    BY <1>2, CopyFields
  <2>2. CASE p[1] = "tty"
    BY <1>2, <2>1, <2>2 DEF PortsOf, IsFor, BoundTty, Ports
  <2>3. CASE p[1] # "tty"
    BY <1>2, <2>1, <2>3 DEF PortsOf, IsFor, OutSocket, Ports, KindOf
  <2> QED  BY <2>1, <2>2, <2>3
<1>4. \A d \in Promise!ToSet(sent[p]) : Promise!Before(d, c)
  <2>1. Promise!ToSet(sent[p]) = SQ[p]
    BY DEF SQ, Promise!ToSet
  <2>2. \A d \in SQ[p] : Earlier(d, c)
    BY DEF DInv, AllPlaced, Placed, InTurn, AllEarlier
  <2> QED  BY <2>1, <2>2 DEF Earlier, Promise!Before
<1> QED  BY <1>1, <1>3, <1>4 DEF Promised, Promise!Next, Promise!Send

-----------------------------------------------------------------------------
(* The front of a port queue leaves it, given up or sent.                    *)

LEMMA ComFront ==
  ASSUME TypeOK, DInv, NEW t \in Tty, comQ[t] # <<>>,
         comQ' = [comQ EXCEPT ![t] = Tail(@)], tcpQ' = tcpQ
  PROVE  LET c == CopyOf(Head(comQ[t]))
             p == <<"tty", t>>
         IN /\ p \in Ports /\ c \in PQ[p] /\ AllEarlier({c}, PQ[p] \ {c})
            /\ PQ' = [PQ EXCEPT ![p] = @ \ {c}]
            /\ \A x \in Tty : Sorted(comQ'[x])
<1>1. comQ[t] \in Seq(Entry) /\ \A x \in Tty : Sorted(comQ[x])
  BY DEF TypeOK, DInv, QueuesSorted
<1>2. comQ' = [x \in Tty |-> IF x = t THEN Tail(comQ[t]) ELSE comQ[x]]
  BY DEF TypeOK
<1>3. PQ' = [PQ EXCEPT ![<<"tty", t>>] = In(Tail(comQ[t]))]
  BY <1>2, ComQueueChanges
<1>4. PQ[<<"tty", t>>] = In(comQ[t]) /\ <<"tty", t>> \in Ports
  BY QueueSets, PortFacts
<1> QED  BY <1>1, <1>2, <1>3, <1>4, FrontLeaves

LEMMA SockFront ==
  ASSUME TypeOK, DInv, NEW s \in Sock, tcpQ[s] # <<>>,
         tcpQ' = [tcpQ EXCEPT ![s] = Tail(@)], comQ' = comQ
  PROVE  LET c == CopyOf(Head(tcpQ[s]))
             p == <<"sock", s>>
         IN /\ p \in Ports /\ c \in PQ[p] /\ AllEarlier({c}, PQ[p] \ {c})
            /\ PQ' = [PQ EXCEPT ![p] = @ \ {c}]
            /\ \A x \in Sock : Sorted(tcpQ'[x])
<1>1. tcpQ[s] \in Seq(Entry) /\ \A x \in Sock : Sorted(tcpQ[x])
  BY DEF TypeOK, DInv, QueuesSorted
<1>2. tcpQ' = [x \in Sock |-> IF x = s THEN Tail(tcpQ[s]) ELSE tcpQ[x]]
  BY DEF TypeOK
<1>3. PQ' = [PQ EXCEPT ![<<"sock", s>>] = In(Tail(tcpQ[s]))]
  BY <1>2, SockQueueChanges
<1>4. PQ[<<"sock", s>>] = In(tcpQ[s]) /\ <<"sock", s>> \in Ports
  BY QueueSets, PortFacts
<1> QED  BY <1>1, <1>2, <1>3, <1>4, FrontLeaves

LEMMA FrontGivenUp ==
  ASSUME TypeOK, DInv, NEW p \in Ports, NEW c \in PQ[p], PQ' = [PQ EXCEPT ![p] = @ \ {c}],
         gone' = gone \cup {c},
         UNCHANGED <<qTTYout, qETHout, hand, sent, routed, arrived>>
  PROVE  AllPlaced' /\ Promised
<1>1. SQ' = SQ /\ FQ' = FQ
  BY DEF SQ, FQ, In, Held
<1>2. Placed(routed, gone \cup {c}, SQ, [PQ EXCEPT ![p] = @ \ {c}], FQ)
  BY DroppedCopies DEF DInv, AllPlaced
<1>3. {c} \in SUBSET Promise!Pending
  BY StillPending
<1> QED  BY <1>1, <1>2, <1>3, GivesUp DEF AllPlaced

LEMMA FrontSent ==
  ASSUME TypeOK, DInv, NEW p \in Ports, NEW c \in PQ[p], PQ' = [PQ EXCEPT ![p] = @ \ {c}],
         AllEarlier({c}, PQ[p] \ {c}), sent' = [sent EXCEPT ![p] = Append(@, c)],
         UNCHANGED <<qTTYout, qETHout, hand, gone, routed, arrived>>
  PROVE  /\ AllPlaced' /\ Promised
         /\ \A x \in Ports : \A i, k \in DOMAIN sent'[x] : i < k => Earlier(sent'[x][i], sent'[x][k])
<1>1. FQ' = FQ /\ c \in Copy /\ sent \in [Ports -> Seq(Copy)]
  BY DEF DInv, AllPlaced, Placed, FQ, In, Held, TypeOK
<1>2. /\ Len(sent[p]) \in Nat /\ DOMAIN sent[p] = 1 .. Len(sent[p])
      /\ sent'[p] = Append(sent[p], c) /\ DOMAIN sent'[p] = 1 .. Len(sent[p]) + 1
      /\ \A i \in 1 .. Len(sent[p]) : sent'[p][i] = sent[p][i]
      /\ sent'[p][Len(sent[p]) + 1] = c
      /\ \A x \in Ports : x # p => sent'[x] = sent[x]
  <2>1. sent[p] \in Seq(Copy) /\ sent'[p] = Append(sent[p], c)
    BY <1>1
  <2> QED  BY <1>1, <2>1, LenProperties, AppendProperties
<1>3. SQ' = [SQ EXCEPT ![p] = @ \cup {c}]
  <2>1. {sent'[p][i] : i \in DOMAIN sent'[p]} = {sent[p][i] : i \in DOMAIN sent[p]} \cup {c}
    <3>1. 1 .. Len(sent[p]) + 1 = 1 .. Len(sent[p]) \cup {Len(sent[p]) + 1}
      BY <1>2
    <3>2. \A x : x \in {sent'[p][i] : i \in DOMAIN sent'[p]} <=>
                   \/ \E i \in 1 .. Len(sent[p]) : x = sent'[p][i]
                   \/ x = sent'[p][Len(sent[p]) + 1]
      BY <1>2, <3>1
    <3> QED  BY <1>2, <3>2
  <2>2. \A x \in Ports : SQ'[x] = IF x = p THEN SQ[p] \cup {c} ELSE SQ[x]
    BY <1>2, <2>1 DEF SQ
  <2>3. SQ' = [x \in Ports |-> SQ'[x]] /\ SQ = [x \in Ports |-> SQ[x]]
    BY DEF SQ
  <2> HIDE DEF SQ
  <2> QED  BY <2>2, <2>3
<1>4. Placed(routed, gone, [SQ EXCEPT ![p] = @ \cup {c}], [PQ EXCEPT ![p] = @ \ {c}], FQ)
  BY SentCopy DEF DInv, AllPlaced
<1>5. \A x \in Ports : \A i, k \in DOMAIN sent'[x] : i < k => Earlier(sent'[x][i], sent'[x][k])
  <2> SUFFICES ASSUME NEW x \in Ports, NEW i \in DOMAIN sent'[x], NEW k \in DOMAIN sent'[x], i < k
               PROVE  Earlier(sent'[x][i], sent'[x][k])
    OBVIOUS
  <2>1. \A m, n \in DOMAIN sent[x] : m < n => Earlier(sent[x][m], sent[x][n])
    BY DEF DInv, QueuesSorted
  <2>2. CASE x # p
    BY <1>2, <2>1, <2>2
  <2>3. CASE x = p
    <3>1. \A d \in SQ[p] : Earlier(d, c)
      BY DEF DInv, AllPlaced, Placed, InTurn, AllEarlier
    <3>2. \A m \in DOMAIN sent[p] : sent[p][m] \in SQ[p]
      BY DEF SQ
    <3>3. i \in 1 .. Len(sent[p]) /\ (k \in 1 .. Len(sent[p]) \/ k = Len(sent[p]) + 1)
      BY <1>2, <2>3
    <3> QED  BY <1>2, <2>1, <2>3, <3>1, <3>2, <3>3
  <2> QED  BY <2>2, <2>3
<1> QED  BY <1>1, <1>3, <1>4, <1>5, Sends DEF AllPlaced

(* Steps that move no copy.                                                  *)
LEMMA NothingMoves ==
  ASSUME DInv, UNCHANGED <<qTTYout, qETHout, hand, comQ, tcpQ, sent, gone, routed>>
  PROVE  AllPlaced' /\ QueuesSorted'
<1>1. SQ' = SQ /\ PQ' = PQ /\ FQ' = FQ
  BY DEF SQ, PQ, FQ, In, Held
<1> QED  BY <1>1 DEF DInv, AllPlaced, QueuesSorted, Sorted, Held, In

LEMMA InputUntouched ==
  ASSUME DInv, UNCHANGED <<qMSGin, arrived, routed>>,
         comm' = comm \/ (comm.pc # "scan" /\ comm'.r = comm.r)
  PROVE  RoutedInOrder'
BY DEF DInv, RoutedInOrder

LEMMA HandUntouched ==
  ASSUME DInv, UNCHANGED <<sockpc, hand>>
  PROVE  HandOfThePut'
BY DEF DInv, HandOfThePut

LEMMA Stutters == UNCHANGED <<arrived, routed, sent, gone>> => Promised
BY DEF Promised

-----------------------------------------------------------------------------
(* Every action keeps the invariant and is a step of Delivery or a stutter.  *)

LEMMA PurgeLimitDelivers == IInv /\ DInv /\ PurgeLimit => DInv' /\ Promised
<1> SUFFICES ASSUME IInv, DInv, PurgeLimit PROVE DInv' /\ Promised
  OBVIOUS
<1>1. comm.pc # "scan" /\ comm'.r = comm.r
  BY DEF PurgeLimit, CommAt, IInv, TypeOK
<1>2. UNCHANGED <<queues, sockpc, hand, arrived, history>>
  BY DEF PurgeLimit
<1> QED  BY <1>1, <1>2, NothingMoves, InputUntouched, HandUntouched, Stutters
         DEF queues, history, DInv

LEMMA NextInputDelivers == IInv /\ DInv /\ NextInput => DInv' /\ Promised
<1> SUFFICES ASSUME IInv, DInv, NextInput PROVE DInv' /\ Promised
  OBVIOUS
<1>1. comm.pc # "scan" /\ comm'.r = comm.r
  BY DEF NextInput, CommAt, IInv, TypeOK
<1>2. UNCHANGED <<queues, sockpc, hand, arrived, history>>
  BY DEF NextInput
<1> QED  BY <1>1, <1>2, NothingMoves, InputUntouched, HandUntouched, Stutters
         DEF queues, history, DInv

LEMMA MoveTtyDoneDelivers == IInv /\ DInv /\ MoveTtyDone => DInv' /\ Promised
<1> SUFFICES ASSUME IInv, DInv, MoveTtyDone PROVE DInv' /\ Promised
  OBVIOUS
<1>1. comm.pc # "scan" /\ comm'.r = comm.r
  BY DEF MoveTtyDone, CommAt, IInv, TypeOK
<1>2. UNCHANGED <<queues, sockpc, hand, arrived, history>>
  BY DEF MoveTtyDone
<1> QED  BY <1>1, <1>2, NothingMoves, InputUntouched, HandUntouched, Stutters
         DEF queues, history, DInv

LEMMA NextPortKeepsR == TypeOK => NextPort.r = comm.r
BY DEF NextPort, TypeOK

LEMMA PortNotReadyDelivers == IInv /\ DInv /\ PortNotReady => DInv' /\ Promised
<1> SUFFICES ASSUME IInv, DInv, PortNotReady PROVE DInv' /\ Promised
  OBVIOUS
<1>1. comm.pc # "scan" /\ comm'.r = comm.r
  BY NextPortKeepsR DEF PortNotReady, CommAt, IInv
<1>2. UNCHANGED <<queues, sockpc, hand, arrived, history>>
  BY DEF PortNotReady
<1> QED  BY <1>1, <1>2, NothingMoves, InputUntouched, HandUntouched, Stutters
         DEF queues, history, DInv

LEMMA CheckActiveDelivers == IInv /\ DInv /\ CheckActive => DInv' /\ Promised
<1> SUFFICES ASSUME IInv, DInv, CheckActive PROVE DInv' /\ Promised
  OBVIOUS
<1>1. comm.pc # "scan" /\ comm'.r = comm.r
  BY DEF CheckActive, CommAt, IInv, TypeOK
<1>2. UNCHANGED <<queues, sockpc, hand, arrived, history>>
  BY DEF CheckActive
<1> QED  BY <1>1, <1>2, NothingMoves, InputUntouched, HandUntouched, Stutters
         DEF queues, history, DInv

LEMMA PurgePopDelivers == IInv /\ DInv /\ PurgePop => DInv' /\ Promised
<1> SUFFICES ASSUME IInv, DInv, PurgePop PROVE DInv' /\ Promised
  OBVIOUS
<1>1. comm.pc # "scan" /\ comm'.r = comm.r /\ idx \in Sock
  BY DEF PurgePop, CommAt, IInv, TypeOK
<1>2. UNCHANGED <<qMSGin, qTTYout, qETHout, comQ, sockpc, hand, arrived, sent, routed>>
  BY DEF PurgePop
<1>3. AllPlaced' /\ QueuesSorted' /\ Promised
  <2>1. CASE tcpQ[idx] = <<>>
    BY <1>2, <2>1, NothingMoves, Stutters DEF PurgePop
  <2>2. CASE tcpQ[idx] # <<>>
    <3>1. tcpQ' = [tcpQ EXCEPT ![idx] = Tail(@)] /\ gone' = gone \cup {CopyOf(Head(tcpQ[idx]))}
      BY <2>2 DEF PurgePop, Discard
    <3> QED  BY <1>1, <1>2, <2>2, <3>1, SockFront, FrontGivenUp
             DEF IInv, DInv, QueuesSorted, Held
  <2> QED  BY <2>1, <2>2
<1> QED  BY <1>1, <1>2, <1>3, InputUntouched, HandUntouched DEF DInv

LEMMA PurgeAgeDelivers == IInv /\ DInv /\ PurgeAge => DInv' /\ Promised
<1> SUFFICES ASSUME IInv, DInv, PurgeAge PROVE DInv' /\ Promised
  OBVIOUS
<1>1. comm.pc # "scan" /\ comm'.r = comm.r /\ idx \in Sock
  BY DEF PurgeAge, CommAt, IInv, TypeOK
<1>2. UNCHANGED <<qMSGin, qTTYout, qETHout, comQ, sockpc, hand, arrived, sent, routed>>
  BY DEF PurgeAge
<1>3. AllPlaced' /\ QueuesSorted' /\ Promised
  <2>1. CASE ~HeadIsOld(tcpQ[idx])
    BY <1>2, <2>1, NothingMoves, Stutters DEF PurgeAge
  <2>2. CASE HeadIsOld(tcpQ[idx])
    <3>1. /\ tcpQ' = [tcpQ EXCEPT ![idx] = Tail(@)] /\ gone' = gone \cup {CopyOf(Head(tcpQ[idx]))}
          /\ tcpQ[idx] # <<>>
      BY <2>2 DEF PurgeAge, Discard, HeadIsOld
    <3> QED  BY <1>1, <1>2, <3>1, SockFront, FrontGivenUp
             DEF IInv, DInv, QueuesSorted, Held
  <2> QED  BY <2>1, <2>2
<1> QED  BY <1>1, <1>2, <1>3, InputUntouched, HandUntouched DEF DInv

(* Within its bound a COM port queue loses an old front entry and no more.   *)
LEMMA PurgeTtyDelivers == IInv /\ DInv /\ PurgeTty => DInv' /\ Promised
<1> SUFFICES ASSUME IInv, DInv, PurgeTty PROVE DInv' /\ Promised
  OBVIOUS
<1>1. comm.pc # "scan" /\ comm'.r = comm.r /\ j \in Tty /\ TypeOK
  BY DEF PurgeTty, CommAt, IInv, TypeOK
<1>2. UNCHANGED <<qMSGin, qTTYout, qETHout, tcpQ, sockpc, hand, arrived, sent, routed>>
  BY DEF PurgeTty
<1>3. comQ[j] \in Seq(Entry) /\ Len(comQ[j]) \in Nat /\ DOMAIN comQ[j] = 1 .. Len(comQ[j])
  BY <1>1, LenProperties DEF TypeOK
<1>4. comQ' = [comQ EXCEPT ![j] = IF HeadIsOld(comQ[j]) THEN Tail(comQ[j]) ELSE comQ[j]]
  <2> DEFINE over == IF Len(comQ[j]) > maxQcount THEN Len(comQ[j]) - maxQcount ELSE 0
             room == MAX_WDC_PURGE - comm.wdc
             cut  == IF over < room THEN over ELSE room
             q    == SubSeq(comQ[j], cut + 1, Len(comQ[j]))
  <2>1. Len(comQ[j]) <= maxQcount
    BY <1>1 DEF IInv, QueuesBounded
  <2>2. cut = 0
    <3>1. over = 0
      BY <1>3, <2>1, SizesAssumption
    <3>2. comm.wdc \in Nat /\ comm.wdc <= MAX_WDC_PURGE
      BY <1>1, CommFields DEF IInv, StillThere
    <3>3. room \in Nat
      BY <3>2, SizesAssumption
    <3> QED  BY <3>1, <3>3
  <2>3. q = comQ[j]
    <3> HIDE DEF cut
    <3> QED  BY <1>3, <2>2, SubSeqFull
  <2>4. comQ' = [comQ EXCEPT ![j] = IF HeadIsOld(q) THEN Tail(q) ELSE q]
    BY DEF PurgeTty
  <2> HIDE DEF q
  <2> QED  BY <2>3, <2>4
<1>5. gone' = gone \cup {CopyOf(comQ[j][i]) : i \in 1 .. (Len(comQ[j]) - Len(comQ'[j]))}
  BY DEF PurgeTty, Discard
<1>6. AllPlaced' /\ QueuesSorted' /\ Promised
  <2>1. CASE ~HeadIsOld(comQ[j])
    <3>1. comQ' = comQ
      BY <1>1, <1>4, <2>1 DEF TypeOK
    <3>2. 1 .. (Len(comQ[j]) - Len(comQ'[j])) = {}
      BY <1>3, <3>1
    <3>3. gone' = gone
      BY <1>5, <3>2
    <3> QED  BY <1>2, <3>1, <3>3, NothingMoves, Stutters
  <2>2. CASE HeadIsOld(comQ[j])
    <3>1. comQ' = [comQ EXCEPT ![j] = Tail(@)] /\ comQ[j] # <<>>
      BY <1>1, <1>4, <2>2 DEF TypeOK, HeadIsOld
    <3>2. 1 .. (Len(comQ[j]) - Len(comQ'[j])) = {1} /\ Head(comQ[j]) = comQ[j][1]
      <4>1. comQ'[j] = Tail(comQ[j])
        BY <1>1, <3>1 DEF TypeOK
      <4>2. Len(comQ'[j]) = Len(comQ[j]) - 1
        BY <1>3, <3>1, <4>1, TailFacts
      <4>3. Head(comQ[j]) = comQ[j][1]
        BY <1>3
      <4> QED  BY <1>3, <4>2, <4>3
    <3>3. gone' = gone \cup {CopyOf(Head(comQ[j]))}
      BY <1>5, <3>2
    <3> QED  BY <1>1, <1>2, <3>1, <3>3, ComFront, FrontGivenUp
             DEF DInv, QueuesSorted, Held
  <2> QED  BY <2>1, <2>2
<1> QED  BY <1>1, <1>2, <1>6, InputUntouched, HandUntouched DEF DInv

LEMMA DropInactiveDelivers == IInv /\ DInv /\ DropInactive => DInv' /\ Promised
<1> SUFFICES ASSUME IInv, DInv, DropInactive PROVE DInv' /\ Promised
  OBVIOUS
<1>1. /\ comm.pc # "scan" /\ comm'.r = comm.r /\ comm.port \in Tty /\ TypeOK
      /\ comQ[comm.port] # <<>>
  BY NextPortKeepsR DEF DropInactive, CommAt, IInv, TypeOK
<1>2. /\ UNCHANGED <<qMSGin, qTTYout, qETHout, tcpQ, sockpc, hand, arrived, sent, routed>>
      /\ comQ' = [comQ EXCEPT ![comm.port] = Tail(@)]
      /\ gone' = gone \cup {CopyOf(Head(comQ[comm.port]))}
  BY DEF DropInactive, Discard
<1>3. AllPlaced' /\ QueuesSorted' /\ Promised
  BY <1>1, <1>2, ComFront, FrontGivenUp DEF DInv, QueuesSorted, Held
<1> QED  BY <1>1, <1>2, <1>3, InputUntouched, HandUntouched DEF DInv

LEMMA SendTtyDelivers == IInv /\ DInv /\ SendTty => DInv' /\ Promised
<1> SUFFICES ASSUME IInv, DInv, SendTty PROVE DInv' /\ Promised
  OBVIOUS
<1>1. /\ comm.pc # "scan" /\ comm'.r = comm.r /\ comm.port \in Tty /\ TypeOK
      /\ comQ[comm.port] # <<>>
  BY NextPortKeepsR DEF SendTty, CommAt, IInv, TypeOK, StillThere
<1>2. /\ UNCHANGED <<qMSGin, qTTYout, qETHout, tcpQ, sockpc, hand, arrived, gone, routed>>
      /\ comQ' = [comQ EXCEPT ![comm.port] = Tail(@)]
      /\ sent' = [sent EXCEPT ![<<"tty", comm.port>>] = Append(@, CopyOf(Head(comQ[comm.port])))]
  BY DEF SendTty, Write, PopFront
<1>3. AllPlaced' /\ QueuesSorted' /\ Promised
  BY <1>1, <1>2, ComFront, FrontSent DEF DInv, QueuesSorted, Held
<1> QED  BY <1>1, <1>2, <1>3, InputUntouched, HandUntouched DEF DInv

(* What is on the way to one kind of ports changes.                          *)
LEMMA FlowToTty ==
  ASSUME NEW q, qTTYout' = q, UNCHANGED <<qETHout, hand>>
  PROVE  FQ' = [FQ EXCEPT !["tty"] = In(q)]
<1>1. \A k \in Kinds : FQ'[k] = IF k = "tty" THEN In(q) ELSE FQ[k]
  BY DEF FQ, Held, In
<1>2. FQ' = [k \in Kinds |-> FQ'[k]]
  BY DEF FQ
<1>3. [FQ EXCEPT !["tty"] = In(q)] = [k \in Kinds |-> IF k = "tty" THEN In(q) ELSE FQ[k]]
  BY DEF FQ
<1> HIDE DEF FQ
<1> QED  BY <1>1, <1>2, <1>3

LEMMA FlowToSock ==
  ASSUME NEW A, Held' \cup In(qETHout') = A, UNCHANGED qTTYout
  PROVE  FQ' = [FQ EXCEPT !["sock"] = A]
<1>1. \A k \in Kinds : FQ'[k] = IF k = "sock" THEN A ELSE FQ[k]
  BY DEF FQ, Kinds
<1>2. FQ' = [k \in Kinds |-> FQ'[k]]
  BY DEF FQ
<1>3. [FQ EXCEPT !["sock"] = A] = [k \in Kinds |-> IF k = "sock" THEN A ELSE FQ[k]]
  BY DEF FQ
<1> HIDE DEF FQ
<1> QED  BY <1>1, <1>2, <1>3

LEMMA InputFront ==
  ASSUME NEW q \in Seq(Input), q # <<>>
  PROVE  /\ Len(q) \in Nat \ {0} /\ DOMAIN q = 1 .. Len(q) /\ 1 \in DOMAIN q
         /\ Head(q) = q[1] /\ Head(q) \in Input
         /\ DOMAIN Tail(q) = 1 .. Len(q) - 1
         /\ \A i \in 1 .. Len(q) - 1 : Tail(q)[i] = q[i + 1]
<1>1. Len(q) \in Nat \ {0} /\ DOMAIN q = 1 .. Len(q)
  BY EmptySeq, LenProperties
<1>2. /\ Tail(q) \in Seq(Input) /\ Len(Tail(q)) = Len(q) - 1 /\ Head(q) \in Input
      /\ \A i \in 1 .. Len(Tail(q)) : Tail(q)[i] = q[i + 1]
  BY HeadTailProperties
<1>3. DOMAIN Tail(q) = 1 .. Len(q) - 1
  BY <1>2, LenProperties
<1> QED  BY <1>1, <1>2, <1>3

LEMMA InputIds ==
  ASSUME NEW q \in Seq(Input), NEW i \in DOMAIN q
  PROVE  q[i] \in Input /\ q[i].id \in Int
<1>1. q[i] \in Input
  BY LenProperties, ElementOfSeq
<1> QED  BY <1>1, SizesAssumption DEF Input

(* A message comes in, or none does.                                         *)
LEMMA Receives ==
  ASSUME TypeOK, DInv, NEW dev \in Devs, Receive(dev) \/ NoReceive,
         UNCHANGED <<routed, sent, gone>>,
         comm' = comm \/ (comm.pc # "scan" /\ comm'.r = comm.r)
  PROVE  RoutedInOrder' /\ Promised
<1>1. CASE NoReceive
  BY <1>1, InputUntouched, Stutters DEF NoReceive
<1>2. CASE Receive(dev)
  <2>1. /\ arrived \in Nat /\ arrived' = arrived + 1 /\ arrived < MaxMsg
        /\ qMSGin' = Append(qMSGin, [id |-> arrived + 1, src |-> dev, age |-> 0])
    BY <1>2, SizesAssumption DEF Receive, TypeOK
  <2>2. /\ Len(qMSGin) \in Nat /\ DOMAIN qMSGin = 1 .. Len(qMSGin)
        /\ DOMAIN qMSGin' = 1 .. Len(qMSGin) + 1
        /\ \A i \in 1 .. Len(qMSGin) : qMSGin'[i] = qMSGin[i]
        /\ qMSGin'[Len(qMSGin) + 1].id = arrived + 1
    BY <2>1, LenProperties, AppendProperties DEF TypeOK
  <2>3. /\ \A i \in 1 .. Len(qMSGin) : qMSGin[i] \in Input /\ qMSGin[i].id \in Int
        /\ \A c \in routed : c[1] \in Int
    <3>1. \A i \in 1 .. Len(qMSGin) : qMSGin[i] \in Input
      BY <2>2, ElementOfSeq DEF TypeOK
    <3>2. \A x \in Input : x.id \in Int
      BY SizesAssumption DEF Input
    <3>3. \A c \in Copy : c[1] \in Int
      BY CopyFields, SizesAssumption
    <3> QED  BY <3>1, <3>2, <3>3 DEF TypeOK
  <2>4. \A i \in 1 .. Len(qMSGin) : qMSGin[i].id <= arrived
    BY <2>2 DEF DInv, RoutedInOrder
  <2>5. \A i \in DOMAIN qMSGin' : i \in 1 .. Len(qMSGin) \/ i = Len(qMSGin) + 1
    BY <2>2
  <2>6. comm'.pc # "scan" => comm'.r = 1
    BY DEF DInv, RoutedInOrder
  <2>7. \A i \in DOMAIN qMSGin' : qMSGin'[i].id <= arrived'
    BY <2>1, <2>2, <2>3, <2>4, <2>5
  <2>8. \A i, k \in DOMAIN qMSGin' : i < k => qMSGin'[i].id < qMSGin'[k].id
    <3> SUFFICES ASSUME NEW i \in DOMAIN qMSGin', NEW k \in DOMAIN qMSGin', i < k
                 PROVE  qMSGin'[i].id < qMSGin'[k].id
      OBVIOUS
    <3>1. i \in 1 .. Len(qMSGin)
      BY <2>2
    <3>2. CASE k \in 1 .. Len(qMSGin)
      BY <2>2, <3>1, <3>2 DEF DInv, RoutedInOrder
    <3>3. CASE k = Len(qMSGin) + 1
      BY <2>1, <2>2, <2>3, <2>4, <3>1, <3>3
    <3> QED  BY <2>5, <3>2, <3>3
  <2>9. \A c \in routed : c[1] <= arrived /\ c[1] <= arrived'
    BY <2>1, <2>3 DEF DInv, RoutedInOrder
  <2>10. \A c \in routed : \A i \in DOMAIN qMSGin' : Earlier(c, <<qMSGin'[i].id, comm'.r>>)
    <3> TAKE c \in routed
    <3> TAKE i \in DOMAIN qMSGin'
    <3>1. CASE i \in 1 .. Len(qMSGin)
      BY <2>2, <3>1 DEF DInv, RoutedInOrder
    <3>2. CASE i = Len(qMSGin) + 1
      <4>1. c[1] < arrived + 1
        BY <2>1, <2>3, <2>9
      <4> QED  BY <2>2, <3>2, <4>1 DEF Earlier
    <3> QED  BY <2>5, <3>1, <3>2
  <2>11. Promise!Arrive
    BY <2>1 DEF Promise!Arrive
  <2>12. routed' = routed
    OBVIOUS
  <2> QED  BY <2>6, <2>7, <2>8, <2>9, <2>10, <2>11, <2>12
           DEF RoutedInOrder, Promised, Promise!Next
<1> QED  BY <1>1, <1>2

LEMMA SerialInDelivers == IInv /\ DInv /\ SerialIn => DInv' /\ Promised
<1> SUFFICES ASSUME IInv, DInv, SerialIn PROVE DInv' /\ Promised
  OBVIOUS
<1>1. comm.pc # "scan" /\ comm'.r = comm.r /\ TypeOK
  BY DEF SerialIn, CommAt, IInv, TypeOK
<1>2. UNCHANGED <<qTTYout, qETHout, comQ, tcpQ, sockpc, hand, sent, gone, routed>>
  BY DEF SerialIn, history
<1>3. \E dev \in Devs : Receive(dev) \/ NoReceive
  <2>1. \A t \in Tty : TtyDev[t] \in Devs
    BY TablesAssumption
  <2>2. 1 \in Tty
    BY OneIsAPort
  <2> QED  BY <2>1, <2>2 DEF SerialIn
<1> QED  BY <1>1, <1>2, <1>3, Receives, NothingMoves, HandUntouched DEF DInv

LEMMA SocketInDelivers == IInv /\ DInv /\ SocketIn => DInv' /\ Promised
<1> SUFFICES ASSUME IInv, DInv, SocketIn PROVE DInv' /\ Promised
  OBVIOUS
<1>1. TypeOK /\ sockpc.pc = "recv" /\ sockpc.s \in Sock /\ sockpc'.pc # "put"
  BY DEF SocketIn, SockAt, NextSocket, IInv, TypeOK
<1>2. UNCHANGED <<qTTYout, qETHout, comQ, tcpQ, comm, hand, sent, gone, routed>>
  BY DEF SocketIn, history
<1>3. \E dev \in Devs : Receive(dev) \/ NoReceive
  BY <1>1, TablesAssumption DEF SocketIn
<1>4. HandOfThePut'
  BY <1>1, <1>2 DEF DInv, HandOfThePut
<1> QED  BY <1>1, <1>2, <1>3, <1>4, Receives, NothingMoves DEF DInv

LEMMA ServiceSocketDelivers == IInv /\ DInv /\ ServiceSocket => DInv' /\ Promised
<1> SUFFICES ASSUME IInv, DInv, ServiceSocket PROVE DInv' /\ Promised
  OBVIOUS
<1>1. sockpc.pc # "put" /\ sockpc'.pc # "put"
  BY DEF ServiceSocket, SockAt, NextSocket, IInv, TypeOK
<1>2. UNCHANGED <<queues, comm, hand, arrived, history>>
  BY DEF ServiceSocket
<1>3. HandOfThePut'
  BY <1>1, <1>2 DEF DInv, HandOfThePut
<1> QED  BY <1>2, <1>3, NothingMoves, InputUntouched, Stutters DEF DInv, queues, history

LEMMA SocketOutDelivers == IInv /\ DInv /\ SocketOut => DInv' /\ Promised
<1> SUFFICES ASSUME IInv, DInv, SocketOut PROVE DInv' /\ Promised
  OBVIOUS
<1> DEFINE s == sockpc.s
<1>1. TypeOK /\ sockpc.pc # "put" /\ s \in Sock /\ sockpc'.pc # "put"
  BY DEF SocketOut, SockAt, NextSocket, IInv, TypeOK
<1>2. UNCHANGED <<qMSGin, qTTYout, qETHout, comQ, comm, hand, arrived, routed>>
  BY DEF SocketOut
<1>3. HandOfThePut'
  BY <1>1, <1>2 DEF DInv, HandOfThePut
<1>4. AllPlaced' /\ QueuesSorted' /\ Promised
  <2>1. CASE UNCHANGED <<tcpQ, sent, gone>>
    BY <1>2, <2>1, NothingMoves, Stutters
  <2>2. CASE /\ tcpQ[s] # <<>> /\ tcpQ' = [tcpQ EXCEPT ![s] = Tail(@)]
             /\ sent' = [sent EXCEPT ![<<"sock", s>>] = Append(@, CopyOf(Head(tcpQ[s])))]
             /\ gone' = gone
    BY <1>1, <1>2, <2>2, SockFront, FrontSent DEF DInv, QueuesSorted, Held
  <2>3. CASE /\ tcpQ[s] # <<>> /\ tcpQ' = [tcpQ EXCEPT ![s] = Tail(@)]
             /\ gone' = gone \cup {CopyOf(Head(tcpQ[s]))} /\ sent' = sent
    BY <1>1, <1>2, <2>3, SockFront, FrontGivenUp DEF DInv, QueuesSorted, Held
  <2> QED  BY <2>1, <2>2, <2>3 DEF SocketOut, Write, Discard, PopFront
<1> QED  BY <1>2, <1>3, <1>4, InputUntouched DEF DInv

(* The entry taken from qETHout is still on its way, in the thread's hands.  *)
LEMMA TakeEthDelivers == IInv /\ DInv /\ TakeEth => DInv' /\ Promised
<1> SUFFICES ASSUME IInv, DInv, TakeEth PROVE DInv' /\ Promised
  OBVIOUS
<1>1. TypeOK /\ sockpc.pc = "take" /\ hand = {}
  BY DEF TakeEth, SockAt, IInv, DInv, HandOfThePut
<1>2. UNCHANGED <<qMSGin, qTTYout, comQ, tcpQ, comm, arrived, sent, gone, routed>>
  BY DEF TakeEth, history
<1>3. CASE qETHout = <<>>
  <2>1. UNCHANGED <<qETHout, hand>> /\ sockpc'.pc = "service"
    BY <1>3 DEF TakeEth
  <2>2. HandOfThePut'
    BY <1>1, <2>1 DEF HandOfThePut
  <2> QED  BY <1>2, <2>1, <2>2, NothingMoves, InputUntouched, Stutters DEF DInv
<1>4. CASE qETHout # <<>>
  <2> DEFINE e == Head(qETHout)
  <2>1. hand' = {e} /\ qETHout' = Tail(qETHout) /\ sockpc'.pc = "put"
    BY <1>1, <1>4 DEF TakeEth, TypeOK
  <2>2. /\ e \in Entry /\ CopyOf(e) \in In(qETHout)
        /\ In(Tail(qETHout)) = In(qETHout) \ {CopyOf(e)}
        /\ AllEarlier({CopyOf(e)}, In(qETHout) \ {CopyOf(e)})
        /\ Sorted(Tail(qETHout))
    BY <1>1, <1>4, FrontLeaves DEF TypeOK, DInv, QueuesSorted
  <2>3. HandOfThePut'
    BY <2>1, <2>2 DEF HandOfThePut
  <2>4. Held' = {CopyOf(e)} /\ Held = {}
    BY <1>1, <2>1 DEF Held
  <2>5. FQ' = FQ /\ PQ' = PQ /\ SQ' = SQ
    <3>1. In(qETHout)' = In(qETHout) \ {CopyOf(e)}
      BY <2>1, <2>2 DEF In
    <3>2. Held' \cup In(qETHout)' = Held \cup In(qETHout)
      BY <2>2, <2>4, <3>1
    <3> QED  BY <1>2, <3>2 DEF FQ, PQ, SQ, In
  <2>6. AllPlaced'
    BY <1>2, <2>5 DEF DInv, AllPlaced
  <2>7. QueuesSorted'
    BY <1>2, <2>1, <2>2, <2>4 DEF DInv, QueuesSorted, Sorted, In
  <2> QED  BY <1>2, <2>3, <2>6, <2>7, InputUntouched, Stutters DEF DInv
<1> QED  BY <1>3, <1>4

LEMMA SetActiveDelivers == ASSUME NEW b \in BOOLEAN, IInv, DInv, SetActive(b)
                           PROVE  DInv' /\ Promised
<1>1. UNCHANGED <<queues, comm, sockpc, hand, arrived, sent, gone, routed>>
  BY DEF SetActive
<1> QED  BY <1>1, NothingMoves, InputUntouched, HandUntouched, Stutters DEF queues, DInv

LEMMA StutterDelivers == IInv /\ DInv /\ UNCHANGED vars => DInv' /\ Promised
<1> SUFFICES ASSUME DInv, UNCHANGED vars PROVE DInv' /\ Promised
  OBVIOUS
<1>1. UNCHANGED <<queues, comm, sockpc, hand, arrived, history>>
  BY DEF vars
<1> QED  BY <1>1, NothingMoves, InputUntouched, HandUntouched, Stutters
         DEF queues, history, DInv

(* The front input is popped once the whole route table has been scanned.    *)
LEMMA PopInputDelivers == IInv /\ DInv /\ PopInput => DInv' /\ Promised
<1> SUFFICES ASSUME IInv, DInv, PopInput PROVE DInv' /\ Promised
  OBVIOUS
<1>1. TypeOK /\ qMSGin # <<>> /\ qMSGin \in Seq(Input)
  BY DEF PopInput, CommAt, IInv, StillThere, TypeOK
<1>2. /\ UNCHANGED <<qTTYout, qETHout, comQ, tcpQ, sockpc, hand, arrived, sent, gone, routed>>
      /\ qMSGin' = Tail(qMSGin) /\ comm'.r = 1
  BY <1>1, CommFields DEF PopInput, history
<1>3. /\ Len(qMSGin) \in Nat \ {0} /\ DOMAIN qMSGin = 1 .. Len(qMSGin)
      /\ DOMAIN qMSGin' = 1 .. Len(qMSGin) - 1
      /\ \A i \in 1 .. Len(qMSGin) - 1 : qMSGin'[i] = qMSGin[i + 1]
  BY <1>1, <1>2, InputFront
<1>4. \A i \in DOMAIN qMSGin' : i \in DOMAIN qMSGin /\ i + 1 \in DOMAIN qMSGin /\ 1 < i + 1
  BY <1>3
<1>5. RoutedInOrder'
  <2>1. \A i \in DOMAIN qMSGin' : qMSGin'[i].id <= arrived'
    BY <1>2, <1>3, <1>4 DEF DInv, RoutedInOrder
  <2>2. \A i, k \in DOMAIN qMSGin' : i < k => qMSGin'[i].id < qMSGin'[k].id
    <3> SUFFICES ASSUME NEW i \in DOMAIN qMSGin', NEW k \in DOMAIN qMSGin', i < k
                 PROVE  qMSGin'[i].id < qMSGin'[k].id
      OBVIOUS
    <3>1. i + 1 < k + 1
      BY <1>3
    <3> QED  BY <1>3, <1>4, <3>1 DEF DInv, RoutedInOrder
  <2>3. \A c \in routed' : \A i \in DOMAIN qMSGin' : Earlier(c, <<qMSGin'[i].id, comm'.r>>)
    <3> SUFFICES ASSUME NEW c \in routed, NEW i \in DOMAIN qMSGin'
                 PROVE  Earlier(c, <<qMSGin'[i].id, comm'.r>>)
      BY <1>2
    <3>1. Earlier(c, <<qMSGin[1].id, comm.r>>) /\ qMSGin[1].id < qMSGin[i + 1].id
      BY <1>3, <1>4 DEF DInv, RoutedInOrder
    <3>2. c[1] \in Int /\ qMSGin[1].id \in Int /\ qMSGin[i + 1].id \in Int
      <4>1. c \in Copy
        BY <1>1 DEF TypeOK
      <4>2. c[1] \in Int
        BY <4>1, CopyFields, SizesAssumption
      <4>3. 1 \in DOMAIN qMSGin /\ i + 1 \in DOMAIN qMSGin
        BY <1>3, <1>4
      <4> QED  BY <1>1, <4>2, <4>3, InputIds
    <3>3. c[1] < qMSGin[i + 1].id
      BY <3>1, <3>2 DEF Earlier
    <3> QED  BY <1>3, <3>3 DEF Earlier
  <2> QED  BY <1>2, <2>1, <2>2, <2>3 DEF DInv, RoutedInOrder
<1> QED  BY <1>2, <1>5, NothingMoves, HandUntouched, Stutters DEF DInv

(* A matching table entry makes one copy, later than every copy before it.   *)
LEMMA RouteEntryDelivers == IInv /\ DInv /\ RouteEntry => DInv' /\ Promised
<1> SUFFICES ASSUME IInv, DInv, RouteEntry PROVE DInv' /\ Promised
  OBVIOUS
<1> DEFINE m == Head(qMSGin)
           e == [id |-> m.id, r |-> comm.r, age |-> m.age]
           c == CopyOf(e)
<1>1. TypeOK /\ qMSGin # <<>> /\ qMSGin \in Seq(Input) /\ comm.r \in Routes /\ comm.pc = "scan"
  BY DEF RouteEntry, CommAt, IInv, StillThere, TypeOK
<1>2. /\ UNCHANGED <<qMSGin, comQ, tcpQ, sockpc, hand, arrived, sent, gone>>
      /\ comm'.r = comm.r + 1 /\ comm'.pc = "scan"
  BY <1>1, CommFields DEF RouteEntry
<1>3. /\ Len(qMSGin) \in Nat \ {0} /\ DOMAIN qMSGin = 1 .. Len(qMSGin) /\ m = qMSGin[1]
      /\ m \in Input /\ 1 \in DOMAIN qMSGin
  BY <1>1, InputFront
<1>4. e \in Entry /\ c \in Copy /\ c = <<m.id, comm.r>>
  <2>1. e \in Entry
    BY <1>1, <1>3 DEF Entry, Input
  <2> QED  BY <2>1, EntryFacts DEF CopyOf
<1>5. AllEarlier(routed, {c})
  BY <1>3, <1>4 DEF DInv, RoutedInOrder, AllEarlier
<1>6. /\ comm.r \in Int /\ comm.r < comm.r + 1
      /\ \A d \in routed \cup {c} : d[1] \in Int /\ d[2] \in Int
      /\ \A i \in DOMAIN qMSGin : qMSGin[i].id \in Int
  <2>1. \A d \in Copy : d[1] \in Int /\ d[2] \in Int
    BY CopyFields, SizesAssumption DEF Routes
  <2> QED  BY <1>1, <1>3, <1>4, <2>1, InputIds DEF TypeOK, Routes
<1>7. routed' \subseteq routed \cup {c}
  BY DEF RouteEntry
<1>8. RoutedInOrder'
  <2>1. \A d \in routed \cup {c} : d[1] <= arrived
    BY <1>3, <1>4 DEF DInv, RoutedInOrder
  <2>2. ASSUME NEW d \in routed \cup {c}, NEW i \in DOMAIN qMSGin
        PROVE  Earlier(d, <<qMSGin[i].id, comm.r + 1>>)
    <3>1. CASE d \in routed
      <4>1. Earlier(d, <<qMSGin[i].id, comm.r>>)
        BY <3>1 DEF DInv, RoutedInOrder
      <4> QED  BY <1>6, <4>1 DEF Earlier
    <3>2. CASE d = c
      <4>1. d[1] = qMSGin[1].id /\ d[2] = comm.r
        BY <1>3, <1>4, <3>2
      <4>2. i = 1 \/ 1 < i
        BY <1>3
      <4>3. i = 1 \/ qMSGin[1].id < qMSGin[i].id
        BY <1>3, <4>2 DEF DInv, RoutedInOrder
      <4> QED  BY <1>6, <4>1, <4>3 DEF Earlier
    <3> QED  BY <2>2, <3>1, <3>2
  <2>3. \A d \in routed' : \A i \in DOMAIN qMSGin' : Earlier(d, <<qMSGin'[i].id, comm'.r>>)
    BY <1>2, <1>7, <2>2
  <2> HIDE DEF c
  <2> QED  BY <1>2, <1>7, <2>1, <2>3 DEF DInv, RoutedInOrder
<1>9. CASE RouteTable[comm.r].src # m.src
  <2>1. UNCHANGED <<routed, qTTYout, qETHout>>
    BY <1>9 DEF RouteEntry
  <2> QED  BY <1>2, <1>8, <2>1, NothingMoves, HandUntouched, Stutters DEF DInv
<1>10. CASE RouteTable[comm.r].src = m.src
  <2>1. /\ routed' = routed \cup {c}
        /\ IF Dest(e) \in TtyDevs
           THEN qTTYout' = Append(qTTYout, e) /\ UNCHANGED qETHout
           ELSE qETHout' = Append(qETHout, e) /\ UNCHANGED qTTYout
    BY <1>10 DEF RouteEntry
  <2>2. KindOf(c) = IF Dest(e) \in TtyDevs THEN "tty" ELSE "sock"
    BY <1>4 DEF KindOf, Dest
  <2> HIDE DEF c, e
  <2>3. Promised
    <3>1. m.id \in 1 .. arrived
      <4>1. m.id <= arrived /\ m.id \in 1 .. MaxMsg
        BY <1>3 DEF DInv, RoutedInOrder, Input
      <4> QED  BY <1>1, <4>1, SizesAssumption DEF TypeOK
    <3>2. comm.r \in DOMAIN PortsOf
      BY <1>1 DEF PortsOf
    <3>3. \A d \in routed : Promise!Before(d, <<m.id, comm.r>>)
      BY <1>4, <1>5 DEF AllEarlier, Earlier, Promise!Before
    <3>4. Promise!Route
      BY <1>2, <1>4, <2>1, <3>1, <3>2, <3>3 DEF Promise!Route
    <3> QED  BY <3>4 DEF Promised, Promise!Next
  <2>4. /\ qTTYout \in Seq(Entry) /\ qETHout \in Seq(Entry)
        /\ Sorted(qTTYout) /\ Sorted(qETHout) /\ AllEarlier(Held, In(qETHout))
    BY <1>1 DEF TypeOK, DInv, QueuesSorted
  <2>5. /\ AllEarlier(In(qTTYout), {c}) /\ AllEarlier(In(qETHout), {c})
        /\ AllEarlier(Held, {c})
    <3>1. \A k \in Kinds : FQ[k] \subseteq routed
      BY DEF DInv, AllPlaced, Placed, Conserved
    <3>2. In(qTTYout) \subseteq routed /\ Held \cup In(qETHout) \subseteq routed
      BY <3>1, QueueSets DEF Kinds
    <3> QED  BY <1>5, <3>2 DEF AllEarlier
  <2>6. PQ' = PQ /\ SQ' = SQ /\ Held' = Held
    BY <1>2 DEF PQ, SQ, In, Held
  <2>7. FQ' = [FQ EXCEPT ![KindOf(c)] = @ \cup {c}] /\ QueuesSorted'
    <3>1. CASE Dest(e) \in TtyDevs
      <4>1. In(qTTYout)' = In(qTTYout) \cup {c} /\ Sorted(qTTYout)' /\ qETHout' = qETHout
        <5>1. In(Append(qTTYout, e)) = In(qTTYout) \cup {c} /\ Sorted(Append(qTTYout, e))
          BY <1>4, <2>4, <2>5, BackJoins DEF c
        <5> QED  BY <2>1, <3>1, <5>1 DEF In, Sorted
      <4>2. FQ' = [FQ EXCEPT !["tty"] = @ \cup {c}]
        <5>1. qTTYout' = Append(qTTYout, e) /\ UNCHANGED <<qETHout, hand>>
          BY <1>2, <2>1, <3>1
        <5>2. FQ' = [FQ EXCEPT !["tty"] = In(Append(qTTYout, e))]
          BY <5>1, FlowToTty
        <5>3. In(Append(qTTYout, e)) = In(qTTYout) \cup {c}
          BY <1>4, <2>4, <2>5, BackJoins DEF c
        <5> QED  BY <5>2, <5>3, QueueSets
      <4> QED  BY <1>2, <2>2, <2>6, <3>1, <4>1, <4>2 DEF DInv, QueuesSorted, Sorted, In
    <3>2. CASE Dest(e) \notin TtyDevs
      <4>1. In(qETHout)' = In(qETHout) \cup {c} /\ Sorted(qETHout)' /\ qTTYout' = qTTYout
        <5>1. In(Append(qETHout, e)) = In(qETHout) \cup {c} /\ Sorted(Append(qETHout, e))
          BY <1>4, <2>4, <2>5, BackJoins DEF c
        <5> QED  BY <2>1, <3>2, <5>1 DEF In, Sorted
      <4>2. FQ' = [FQ EXCEPT !["sock"] = @ \cup {c}]
        <5>1. Held' \cup In(qETHout') = FQ["sock"] \cup {c}
          BY <2>6, <4>1, QueueSets DEF In
        <5>2. FQ' = [FQ EXCEPT !["sock"] = FQ["sock"] \cup {c}]
          BY <4>1, <5>1, FlowToSock
        <5> QED  BY <5>2
      <4>3. AllEarlier(Held, In(qETHout))'
        BY <2>4, <2>5, <2>6, <4>1 DEF AllEarlier
      <4> QED  BY <1>2, <2>2, <2>6, <3>2, <4>1, <4>2, <4>3 DEF DInv, QueuesSorted, Sorted, In
    <3> QED  BY <3>1, <3>2
  <2>8. AllPlaced'
    <3>1. Placed(routed \cup {c}, gone, SQ, PQ, [FQ EXCEPT ![KindOf(c)] = @ \cup {c}])
      BY <1>4, <1>5, Made DEF DInv, AllPlaced
    <3> QED  BY <1>2, <2>1, <2>6, <2>7, <3>1 DEF AllPlaced
  <2> QED  BY <1>2, <1>8, <2>3, <2>7, <2>8, HandUntouched DEF DInv
<1> QED  BY <1>9, <1>10

(* Every queue gets older, in place.                                         *)
LEMMA TickDelivers == IInv /\ DInv /\ Tick => DInv' /\ Promised
<1> SUFFICES ASSUME IInv, DInv, Tick PROVE DInv' /\ Promised
  OBVIOUS
<1> DEFINE G(e) == [e EXCEPT !.age = IF @ < Older THEN @ + 1 ELSE @]
<1>1. TypeOK
  BY DEF IInv
<1>2. /\ qMSGin' = Aged(qMSGin) /\ qTTYout' = Aged(qTTYout) /\ qETHout' = Aged(qETHout)
      /\ comQ' = [t \in Tty |-> Aged(comQ[t])] /\ tcpQ' = [s \in Sock |-> Aged(tcpQ[s])]
      /\ hand' = {G(e) : e \in hand}
      /\ UNCHANGED <<comm, sockpc, arrived, sent, gone, routed>>
  BY DEF Tick, history
<1>3. \A e \in Entry : CopyOf(G(e)) = CopyOf(e) /\ G(e) \in Entry
  <2> TAKE e \in Entry
  <2>1. e.age \in Ages /\ (IF e.age < Older THEN e.age + 1 ELSE e.age) \in Ages
    BY SizesAssumption DEF Entry, Ages, Older
  <2> QED  BY <2>1 DEF Entry, CopyOf
<1>4. Held' = Held
  <2>1. hand \in SUBSET Entry /\ hand' = {G(e) : e \in hand}
    BY <1>1, <1>2 DEF TypeOK
  <2>2. Held' = {CopyOf(d) : d \in hand'}
    BY DEF Held
  <2>3. \A x : x \in Held' <=> \E e \in hand : x = CopyOf(G(e))
    <3> HIDE DEF G
    <3> QED  BY <2>1, <2>2
  <2> HIDE DEF G
  <2> QED  BY <1>3, <2>1, <2>3 DEF Held
<1>5. /\ In(qTTYout)' = In(qTTYout) /\ Sorted(qTTYout)'
      /\ In(qETHout)' = In(qETHout) /\ Sorted(qETHout)'
  BY <1>1, <1>2, AgedKeeps DEF TypeOK, DInv, QueuesSorted, In, Sorted
<1>6. \A t \in Tty : In(comQ'[t]) = In(comQ[t]) /\ Sorted(comQ'[t])
  <2> TAKE t \in Tty
  <2>1. comQ[t] \in Seq(Entry) /\ comQ'[t] = Aged(comQ[t]) /\ Sorted(comQ[t])
    BY <1>1, <1>2 DEF TypeOK, DInv, QueuesSorted
  <2> QED  BY <2>1, AgedKeeps
<1>7. \A s \in Sock : In(tcpQ'[s]) = In(tcpQ[s]) /\ Sorted(tcpQ'[s])
  <2> TAKE s \in Sock
  <2>1. tcpQ[s] \in Seq(Entry) /\ tcpQ'[s] = Aged(tcpQ[s]) /\ Sorted(tcpQ[s])
    BY <1>1, <1>2 DEF TypeOK, DInv, QueuesSorted
  <2> QED  BY <2>1, AgedKeeps
<1>8. PQ' = PQ
  <2>1. PQ' = [p \in Ports |-> PQ'[p]] /\ PQ = [p \in Ports |-> PQ[p]]
    BY DEF PQ
  <2>2. \A p \in Ports : PQ'[p] = PQ[p]
    <3> TAKE p \in Ports
    <3>1. CASE \E t \in Tty : p = <<"tty", t>>
      BY <1>6, <3>1 DEF PQ
    <3>2. CASE \E s \in Sock : p = <<"sock", s>>
      BY <1>7, <3>2 DEF PQ
    <3> QED  BY <3>1, <3>2, PortFacts
  <2> HIDE DEF PQ
  <2> QED  BY <2>1, <2>2
<1>9. FQ' = FQ /\ SQ' = SQ
  <2>1. SQ' = SQ
    BY <1>2 DEF SQ
  <2>2. FQ' = [k \in Kinds |-> IF k = "tty" THEN In(qTTYout)' ELSE Held' \cup In(qETHout)']
    BY DEF FQ, In
  <2>3. FQ = [k \in Kinds |-> IF k = "tty" THEN In(qTTYout) ELSE Held \cup In(qETHout)]
    BY DEF FQ
  <2> HIDE DEF FQ, In, Held
  <2> QED  BY <1>4, <1>5, <2>1, <2>2, <2>3
<1>10. QueuesSorted'
  <2>1. AllEarlier(Held, In(qETHout))'
    BY <1>4, <1>5 DEF DInv, QueuesSorted, AllEarlier
  <2> QED  BY <1>2, <1>5, <1>6, <1>7, <2>1 DEF DInv, QueuesSorted, Sorted
<1>11. AllPlaced'
  BY <1>2, <1>8, <1>9 DEF DInv, AllPlaced
<1>12. HandOfThePut'
  <2>1. sockpc.pc # "put" => hand' = {}
    BY <1>2 DEF DInv, HandOfThePut
  <2>2. ASSUME NEW e \in Entry, hand = {e} PROVE \E d \in Entry : hand' = {d}
    <3> HIDE DEF G
    <3>1. hand' = {G(e)}
      BY <1>2, <2>2
    <3> QED  BY <1>3, <3>1
  <2> QED  BY <1>2, <2>1, <2>2 DEF DInv, HandOfThePut
<1>13. RoutedInOrder'
  <2>1. /\ DOMAIN qMSGin' = DOMAIN qMSGin
        /\ \A i \in DOMAIN qMSGin : qMSGin'[i].id = qMSGin[i].id
    <3>1. DOMAIN qMSGin' = DOMAIN qMSGin
      BY <1>2 DEF Aged
    <3>2. \A i \in DOMAIN qMSGin : qMSGin'[i].id = qMSGin[i].id
      <4> TAKE i \in DOMAIN qMSGin
      <4>1. qMSGin[i] \in Input
        BY <1>1, InputIds DEF TypeOK
      <4>2. qMSGin'[i] = [qMSGin[i] EXCEPT !.age = IF @ < Older THEN @ + 1 ELSE @]
        BY <1>2 DEF Aged
      <4> QED  BY <4>1, <4>2 DEF Input
    <3> QED  BY <3>1, <3>2
  <2> QED  BY <1>2, <2>1 DEF DInv, RoutedInOrder
<1> QED  BY <1>2, <1>10, <1>11, <1>12, <1>13, Stutters DEF DInv

(* A copy leaves qTTYout for its COM port, or is refused by it.              *)
LEMMA MoveTtyDelivers == IInv /\ DInv /\ MoveTty => DInv' /\ Promised
<1> SUFFICES ASSUME IInv, DInv, MoveTty PROVE DInv' /\ Promised
  OBVIOUS
<1> DEFINE e  == Head(qTTYout)
           c  == CopyOf(e)
           ok == {t \in BoundTty(Dest(e)) : IsActive /\ HasRoom(t)}
<1>1. TypeOK /\ qTTYout \in Seq(Entry) /\ qTTYout # <<>> /\ Sorted(qTTYout)
  BY DEF MoveTty, IInv, TypeOK, DInv, QueuesSorted
<1>2. /\ e \in Entry /\ c \in In(qTTYout) /\ In(Tail(qTTYout)) = In(qTTYout) \ {c}
      /\ AllEarlier({c}, In(qTTYout) \ {c}) /\ Sorted(Tail(qTTYout))
  BY <1>1, FrontLeaves
<1>3. /\ UNCHANGED <<qMSGin, qETHout, tcpQ, sockpc, hand, arrived, sent, routed>>
      /\ qTTYout' = Tail(qTTYout) /\ comm.pc # "scan" /\ comm'.r = comm.r
      /\ comQ' = [t \in Tty |-> IF t \in ok THEN Append(comQ[t], e) ELSE comQ[t]]
      /\ gone' = IF ok = {} THEN gone \cup {c} ELSE gone
  BY <1>1, CommFields DEF MoveTty, CommAt, PushBack, Discard
<1>4. /\ FQ["tty"] = In(qTTYout) /\ c \in FQ["tty"] /\ AllEarlier({c}, FQ["tty"] \ {c})
      /\ "tty" \in Kinds /\ SQ' = SQ /\ Held' = Held
  BY <1>2, <1>3, QueueSets DEF Kinds, SQ, Held
<1>5. FQ' = [FQ EXCEPT !["tty"] = @ \ {c}]
  <2>1. FQ' = [FQ EXCEPT !["tty"] = In(Tail(qTTYout))]
    BY <1>3, FlowToTty
  <2> QED  BY <1>2, <1>4, <2>1
<1>6. c \in Copy /\ KindOf(c) = "tty" /\ RouteTable[c[2]].dst = Dest(e)
  <2>1. c \in Copy /\ KindOf(c) = "tty"
    BY <1>4 DEF DInv, AllPlaced, Placed, Apart
  <2> QED  BY <2>1 DEF CopyOf, Dest
<1> HIDE DEF c, e
<1>7. CASE ok = {}
  <2>1. comQ' = comQ /\ gone' = gone \cup {c}
    BY <1>1, <1>3, <1>7 DEF TypeOK
  <2>2. PQ' = PQ
    <3>1. UNCHANGED <<comQ, tcpQ>>
      BY <1>3, <2>1
    <3> QED  BY <3>1 DEF PQ, In
  <2>3. Placed(routed, gone \cup {c}, SQ, PQ, [FQ EXCEPT !["tty"] = @ \ {c}])
    BY <1>4, RefusedCopy DEF DInv, AllPlaced
  <2>4. AllPlaced'
    BY <1>3, <1>4, <1>5, <2>1, <2>2, <2>3 DEF AllPlaced
  <2>5. QueuesSorted'
    BY <1>2, <1>3, <1>4, <2>1 DEF DInv, QueuesSorted, Sorted, In
  <2>6. {c} \in SUBSET Promise!Pending
    BY <1>1, <1>4, StillPending
  <2> QED  BY <1>3, <2>1, <2>4, <2>5, <2>6, GivesUp, InputUntouched, HandUntouched DEF DInv
<1>8. CASE ok # {}
  <2>1. PICK t \in ok : TRUE
    BY <1>8
  <2>2. t \in Tty /\ t \in BoundTty(Dest(e)) /\ \A u \in ok : u = t
    <3>1. /\ t \in Tty /\ t \in BoundTty(Dest(e))
          /\ \A u \in ok : u \in Tty /\ u <= t /\ t <= u
      BY DEF BoundTty
    <3>2. \A u \in Tty : u \in Int
      BY DEF Tty
    <3> QED  BY <3>1, <3>2
  <2>3. comQ' = [x \in Tty |-> IF x = t THEN Append(comQ[t], e) ELSE comQ[x]] /\ gone' = gone
    BY <1>3, <1>8, <2>2
  <2> DEFINE p == <<"tty", t>>
  <2>4. p \in Ports /\ p[1] = "tty" /\ IsFor(c, p) /\ PQ[p] = In(comQ[t])
    BY <1>6, <2>2, PortFacts, QueueSets DEF IsFor
  <2>5. comQ[t] \in Seq(Entry) /\ Sorted(comQ[t])
    BY <1>1, <2>2 DEF TypeOK, DInv, QueuesSorted
  <2>6. AllEarlier(In(comQ[t]), {c})
    <3>1. AllEarlier(SQ[p] \cup PQ[p], FQ["tty"])
      BY <2>4 DEF DInv, AllPlaced, Placed, InTurn
    <3> QED  BY <1>4, <2>4, <3>1 DEF AllEarlier
  <2>7. In(Append(comQ[t], e)) = In(comQ[t]) \cup {c} /\ Sorted(Append(comQ[t], e))
    BY <1>2, <2>5, <2>6, BackJoins DEF c
  <2>8. PQ' = [PQ EXCEPT ![p] = (@ \ {}) \cup {c}]
    <3>1. PQ' = [PQ EXCEPT ![p] = In(Append(comQ[t], e))]
      BY <1>3, <2>2, <2>3, ComQueueChanges
    <3> QED  BY <2>4, <2>7, <3>1
  <2>9. AllPlaced'
    <3>1. Placed(routed, gone \cup {}, SQ, [PQ EXCEPT ![p] = (@ \ {}) \cup {c}],
                 [FQ EXCEPT ![p[1]] = @ \ {c}])
      <4>1. {} \in SUBSET PQ[p]
        OBVIOUS
      <4> HIDE DEF p
      <4> QED  BY <1>4, <2>4, <4>1, Taken DEF DInv, AllPlaced
    <3> QED  BY <1>3, <1>4, <1>5, <2>3, <2>4, <2>8, <3>1 DEF AllPlaced
  <2>10. QueuesSorted'
    BY <1>2, <1>3, <1>4, <2>3, <2>7 DEF DInv, QueuesSorted, Sorted, In
  <2> QED  BY <1>3, <2>3, <2>9, <2>10, Stutters, InputUntouched, HandUntouched DEF DInv
<1> QED  BY <1>7, <1>8

(* A copy leaves the Socket thread's hands for its socket, which gives up    *)
(* its oldest one when it is full, or for no socket.                         *)
LEMMA PutEthDelivers == IInv /\ DInv /\ PutEth => DInv' /\ Promised
<1> SUFFICES ASSUME IInv, DInv, PutEth PROVE DInv' /\ Promised
  OBVIOUS
<1> DEFINE full(s) == Len(tcpQ[s]) >= maxQcount
           kept(s) == IF full(s) THEN Tail(tcpQ[s]) ELSE tcpQ[s]
<1>1. TypeOK /\ sockpc.pc = "put" /\ sockpc'.pc = "service" /\ hand' = {}
  BY DEF PutEth, SockAt, IInv
<1>2. UNCHANGED <<qMSGin, qTTYout, qETHout, comQ, comm, arrived, sent, routed>>
  BY DEF PutEth
<1>3. PICK e \in Entry : hand = {e}
  BY <1>1 DEF DInv, HandOfThePut
<1> DEFINE c   == CopyOf(e)
           out == OutSocket(Dest(e))
<1>4. /\ tcpQ' = [s \in Sock |-> IF s \notin out THEN tcpQ[s] ELSE Append(kept(s), e)]
      /\ gone' = gone \cup ((IF out = {} THEN {c} ELSE {})
                              \cup {CopyOf(Head(tcpQ[s])) : s \in {x \in out : full(x)}})
  BY <1>3 DEF PutEth, PushBack, Discard
<1>5. HandOfThePut' /\ RoutedInOrder'
  BY <1>1, <1>2, InputUntouched DEF HandOfThePut
<1>6. /\ Held = {c} /\ Held' = {} /\ "sock" \in Kinds /\ c \in FQ["sock"]
      /\ FQ["sock"] = {c} \cup In(qETHout) /\ SQ' = SQ
  BY <1>1, <1>2, <1>3, QueueSets DEF Held, Kinds, SQ
<1>7. c \in Copy /\ KindOf(c) = "sock" /\ RouteTable[c[2]].dst = Dest(e)
  <2>1. c \in Copy /\ KindOf(c) = "sock"
    BY <1>6 DEF DInv, AllPlaced, Placed, Apart
  <2> QED  BY <2>1 DEF CopyOf, Dest
<1> HIDE DEF c
<1>8. FQ["sock"] \ {c} = In(qETHout) /\ AllEarlier({c}, FQ["sock"] \ {c})
  <2>1. AllEarlier({c}, In(qETHout))
    BY <1>6 DEF DInv, QueuesSorted
  <2>2. c \notin In(qETHout)
    BY <1>7, <2>1, EarlierIsStrict DEF AllEarlier
  <2> QED  BY <1>6, <2>1, <2>2
<1>9. FQ' = [FQ EXCEPT !["sock"] = @ \ {c}]
  <2>1. Held' \cup In(qETHout') = FQ["sock"] \ {c}
    BY <1>2, <1>6, <1>8 DEF In
  <2> QED  BY <1>2, <2>1, FlowToSock
<1>10. AllEarlier(Held', In(qETHout'))
  BY <1>6 DEF AllEarlier
<1>11. CASE out = {}
  <2>1. tcpQ' = tcpQ /\ gone' = gone \cup {c}
    BY <1>1, <1>4, <1>11 DEF TypeOK
  <2>2. PQ' = PQ
    <3>1. UNCHANGED <<comQ, tcpQ>>
      BY <1>2, <2>1
    <3> QED  BY <3>1 DEF PQ, In
  <2>3. Placed(routed, gone \cup {c}, SQ, PQ, [FQ EXCEPT !["sock"] = @ \ {c}])
    BY <1>6, RefusedCopy DEF DInv, AllPlaced
  <2>4. AllPlaced'
    BY <1>2, <1>6, <1>9, <2>1, <2>2, <2>3 DEF AllPlaced
  <2>5. QueuesSorted'
    BY <1>2, <1>10, <2>1 DEF DInv, QueuesSorted, Sorted
  <2>6. {c} \in SUBSET Promise!Pending
    BY <1>1, <1>6, StillPending
  <2> QED  BY <1>2, <1>5, <2>1, <2>4, <2>5, <2>6, GivesUp DEF DInv
<1>12. CASE out # {}
  <2>1. PICK s \in out : TRUE
    BY <1>12
  <2>2. s \in Sock /\ \A u \in out : u = s
    <3>1. s \in Sock /\ \A u \in out : u \in Sock /\ u <= s /\ s <= u
      BY DEF OutSocket
    <3>2. \A u \in Sock : u \in Int
      BY DEF Sock
    <3> QED  BY <3>1, <3>2
  <2> DEFINE p == <<"sock", s>>
             D == IF full(s) THEN {CopyOf(Head(tcpQ[s]))} ELSE {}
  <2>3. tcpQ' = [x \in Sock |-> IF x = s THEN Append(kept(s), e) ELSE tcpQ[x]]
    BY <1>4, <2>2
  <2>4. gone' = gone \cup D
    BY <1>4, <1>12, <2>2
  <2>5. p \in Ports /\ p[1] = "sock" /\ IsFor(c, p) /\ PQ[p] = In(tcpQ[s])
    BY <1>7, <2>1, <2>2, PortFacts, QueueSets DEF IsFor
  <2>6. tcpQ[s] \in Seq(Entry) /\ Sorted(tcpQ[s])
    BY <1>1, <2>2 DEF TypeOK, DInv, QueuesSorted
  <2>7. /\ kept(s) \in Seq(Entry) /\ Sorted(kept(s)) /\ D \in SUBSET In(tcpQ[s])
        /\ In(kept(s)) = In(tcpQ[s]) \ D
    <3>1. CASE full(s)
      <4>1. tcpQ[s] # <<>>
        BY <3>1, EmptySeq, SizesAssumption
      <4> QED  BY <2>6, <3>1, <4>1, FrontLeaves, TailFacts
    <3>2. CASE ~full(s)
      BY <2>6, <3>2
    <3> QED  BY <3>1, <3>2
  <2> HIDE DEF kept, D
  <2>8. AllEarlier(In(kept(s)), {c})
    <3>1. AllEarlier(SQ[p] \cup PQ[p], FQ["sock"])
      BY <2>5 DEF DInv, AllPlaced, Placed, InTurn
    <3> QED  BY <1>6, <2>5, <2>7, <3>1 DEF AllEarlier
  <2>9. In(Append(kept(s), e)) = (In(tcpQ[s]) \ D) \cup {c} /\ Sorted(Append(kept(s), e))
    BY <2>7, <2>8, BackJoins DEF c
  <2>10. PQ' = [PQ EXCEPT ![p] = (@ \ D) \cup {c}]
    <3>1. PQ' = [PQ EXCEPT ![p] = In(Append(kept(s), e))]
      BY <1>2, <2>2, <2>3, SockQueueChanges
    <3> QED  BY <2>5, <2>9, <3>1
  <2>11. AllPlaced'
    <3>1. Placed(routed, gone \cup D, SQ, [PQ EXCEPT ![p] = (@ \ D) \cup {c}],
                 [FQ EXCEPT ![p[1]] = @ \ {c}])
      <4>1. D \in SUBSET PQ[p] /\ c \in FQ[p[1]] /\ AllEarlier({c}, FQ[p[1]] \ {c})
        BY <1>6, <1>8, <2>5, <2>7
      <4> HIDE DEF p
      <4> QED  BY <2>5, <4>1, Taken DEF DInv, AllPlaced
    <3> QED  BY <1>2, <1>6, <1>9, <2>4, <2>5, <2>10, <3>1 DEF AllPlaced
  <2>12. QueuesSorted'
    BY <1>2, <1>10, <2>3, <2>9 DEF DInv, QueuesSorted, Sorted
  <2>13. D \in SUBSET Promise!Pending
    BY <1>1, <2>5, <2>7, StillPending
  <2> QED  BY <1>2, <1>5, <2>4, <2>11, <2>12, <2>13, GivesUp DEF DInv
<1> QED  BY <1>11, <1>12

LEMMA NextDelivers == IInv /\ DInv /\ [Next]_vars => DInv' /\ Promised
<1> SUFFICES ASSUME IInv, DInv, [Next]_vars PROVE DInv' /\ Promised
  OBVIOUS
<1>1. CASE CommStep
  BY <1>1, PurgeLimitDelivers, PurgePopDelivers, PurgeAgeDelivers, PurgeTtyDelivers,
     NextInputDelivers, RouteEntryDelivers, PopInputDelivers, SerialInDelivers,
     MoveTtyDelivers, MoveTtyDoneDelivers, PortNotReadyDelivers, DropInactiveDelivers,
     CheckActiveDelivers, SendTtyDelivers DEF CommStep
<1>2. CASE SocketStep
  BY <1>2, ServiceSocketDelivers, SocketInDelivers, SocketOutDelivers,
     TakeEthDelivers, PutEthDelivers DEF SocketStep
<1>3. CASE Tick
  BY <1>3, TickDelivers
<1>4. ASSUME NEW b \in BOOLEAN, SetActive(b) PROVE DInv' /\ Promised
  BY <1>4, SetActiveDelivers
<1>5. CASE Undefined \/ UNCHANGED vars
  BY <1>5, StutterDelivers DEF Undefined
<1> QED  BY <1>1, <1>2, <1>3, <1>4, <1>5 DEF Next

(* The empty pipeline.                                                       *)
LEMMA InitDInv == Init => DInv /\ Promise!Init
<1> SUFFICES ASSUME Init PROVE DInv /\ Promise!Init
  OBVIOUS
<1>1. /\ qMSGin = <<>> /\ qTTYout = <<>> /\ qETHout = <<>>
      /\ comQ = [t \in Tty |-> <<>>] /\ tcpQ = [s \in Sock |-> <<>>]
      /\ comm.pc = "limit" /\ comm.r = 1 /\ sockpc.pc = "service" /\ hand = {}
      /\ arrived = 0 /\ sent = [p \in Ports |-> <<>>] /\ gone = {} /\ routed = {}
  BY DEF Init
<1>2. DOMAIN <<>> = {}
  BY EmptySeq, LenProperties
<1>3. \A p \in Ports : PQ[p] = {} /\ SQ[p] = {}
  <2> TAKE p \in Ports
  <2>1. SQ[p] = {}
    BY <1>1, <1>2 DEF SQ
  <2>2. CASE \E t \in Tty : p = <<"tty", t>>
    BY <1>1, <2>1, <2>2, QueueSets, EmptyQueue
  <2>3. CASE \E s \in Sock : p = <<"sock", s>>
    BY <1>1, <2>1, <2>3, QueueSets, EmptyQueue
  <2> QED  BY <2>2, <2>3, PortFacts
<1>4. \A k \in Kinds : FQ[k] = {}
  BY <1>1, QueueSets, EmptyQueue DEF Held, Kinds
<1>5. AllPlaced
  <2>1. /\ SQ \in [Ports -> SUBSET Copy] /\ PQ \in [Ports -> SUBSET Copy]
        /\ FQ \in [Kinds -> SUBSET Copy]
    <3>1. SQ = [p \in Ports |-> SQ[p]] /\ PQ = [p \in Ports |-> PQ[p]] /\ FQ = [k \in Kinds |-> FQ[k]]
      BY DEF SQ, PQ, FQ
    <3> HIDE DEF SQ, PQ, FQ
    <3> QED  BY <1>3, <1>4, <3>1
  <2> HIDE DEF SQ, PQ, FQ
  <2>2. Conserved(routed, gone, SQ, PQ, FQ) /\ Apart(gone, SQ, PQ, FQ)
    BY <1>1, <1>3, <1>4 DEF Conserved, Apart
  <2>3. InTurn(SQ, PQ, FQ)
    BY <1>3 DEF InTurn, AllEarlier
  <2> QED  BY <1>1, <2>1, <2>2, <2>3 DEF AllPlaced, Placed
<1>6. QueuesSorted
  BY <1>1, <1>2, EmptyQueue DEF QueuesSorted, Held, AllEarlier
<1>7. HandOfThePut /\ RoutedInOrder
  BY <1>1, <1>2 DEF HandOfThePut, RoutedInOrder
<1> QED  BY <1>1, <1>5, <1>6, <1>7 DEF DInv, Promise!Init

-----------------------------------------------------------------------------
(* The theorems.                                                             *)

(* Every copy the router made is in one of the sets of the two threads, of   *)
(* the ports or of the lost, in the order it was made, in every reachable    *)
(* state, whatever the tables, the limits and the interleaving.              *)
THEOREM Placement == Spec => []DInv
<1>1. Init => DInv
  BY InitDInv
<1>2. IInv /\ DInv /\ [Next]_vars => DInv'
  BY NextDelivers
<1> QED  BY <1>1, <1>2, Invariance, PTL DEF Spec

(* The pipeline of the two threads implements what Delivery promises: a copy *)
(* is made once, in order, leaves at most once on a port of its destination  *)
(* or is given up, and no port transmits a copy behind a later one.          *)
THEOREM Implements == Spec => ImplementsDelivery
<1>1. Init => Promise!Init
  BY InitDInv
<1>2. IInv /\ DInv /\ [Next]_vars => [Promise!Next]_(Promise!vars)
  BY NextDelivers DEF Promised, Promise!vars
<1> QED  BY <1>1, <1>2, Invariance, Placement, PTL DEF Spec, ImplementsDelivery, Promise!Spec

-----------------------------------------------------------------------------
(* A copy is in one place.                                                   *)

(* What keeps the sets in turn keeps them disjoint.                          *)
LEMMA NowhereElse ==
  ASSUME NEW R, NEW G, NEW S, NEW Q, NEW F, Placed(R, G, S, Q, F), NEW c \in Copy
  PROVE  /\ c \in G => /\ \A k \in Kinds : c \notin F[k]
                       /\ \A p \in Ports : c \notin S[p] /\ c \notin Q[p]
         /\ \A k \in Kinds : c \in F[k] => /\ \A x \in Kinds : x # k => c \notin F[x]
                                           /\ \A p \in Ports : c \notin S[p] /\ c \notin Q[p]
         /\ \A p \in Ports : c \in S[p] \cup Q[p] =>
                               \A x \in Ports : x # p => c \notin S[x] /\ c \notin Q[x]
         /\ \A p \in Ports : ~(c \in S[p] /\ c \in Q[p])
<1>1. c \in G => /\ \A k \in Kinds : c \notin F[k]
                 /\ \A p \in Ports : c \notin S[p] /\ c \notin Q[p]
  BY DEF Placed, Apart
<1>2. ASSUME NEW k \in Kinds, c \in F[k]
      PROVE  /\ \A x \in Kinds : x # k => c \notin F[x]
             /\ \A p \in Ports : c \notin S[p] /\ c \notin Q[p]
  <2>1. KindOf(c) = k
    BY <1>2 DEF Placed, Apart
  <2>2. \A x \in Kinds : x # k => c \notin F[x]
    BY <2>1 DEF Placed, Apart
  <2>3. ASSUME NEW p \in Ports, c \in S[p] \cup Q[p] PROVE FALSE
    <3>1. p[1] = k
      BY <2>1, <2>3 DEF Placed, Apart, IsFor
    <3>2. Earlier(c, c)
      BY <1>2, <2>3, <3>1 DEF Placed, InTurn, AllEarlier
    <3> QED  BY <3>2, EarlierIsStrict
  <2> QED  BY <2>2, <2>3
<1>3. ASSUME NEW p \in Ports, c \in S[p] \cup Q[p]
      PROVE  \A x \in Ports : x # p => c \notin S[x] /\ c \notin Q[x]
  BY <1>3, OnePort DEF Placed, Apart
<1>4. ASSUME NEW p \in Ports, c \in S[p], c \in Q[p] PROVE FALSE
  <2>1. Earlier(c, c)
    BY <1>4 DEF Placed, InTurn, AllEarlier
  <2> QED  BY <2>1, EarlierIsStrict
<1> QED  BY <1>1, <1>2, <1>3, <1>4

(* A sorted queue holds a copy once.                                         *)
LEMMA OneIndex ==
  ASSUME NEW q \in Seq(Entry), Sorted(q), NEW c \in Copy
  PROVE  /\ c \notin In(q) => Indexes(q, c) = {}
         /\ c \in In(q) => \E i : Indexes(q, c) = {i}
<1>1. c \notin In(q) => Indexes(q, c) = {}
  BY DEF Indexes, In
<1>2. ASSUME c \in In(q) PROVE \E i : Indexes(q, c) = {i}
  <2>1. PICK i \in DOMAIN q : CopyOf(q[i]) = c
    BY <1>2 DEF In
  <2>2. ASSUME NEW k \in DOMAIN q, CopyOf(q[k]) = c, k # i PROVE FALSE
    <3>1. DOMAIN q = 1 .. Len(q) /\ Len(q) \in Nat
      BY LenProperties
    <3>2. k < i \/ i < k
      BY <2>2, <3>1
    <3>3. Earlier(c, c)
      BY <2>1, <2>2, <3>2 DEF Sorted
    <3> QED  BY <3>3, EarlierIsStrict
  <2>3. Indexes(q, c) = {i}
    BY <2>1, <2>2 DEF Indexes
  <2> QED  BY <2>3
<1> QED  BY <1>1, <1>2

(* The places of a copy, one kind of place at a time.                        *)
AmongCom(c)  == UNION {{<<"com", t>>} \X Indexes(comQ[t], c) : t \in Tty}
AmongTcp(c)  == UNION {{<<"tcp", s>>} \X Indexes(tcpQ[s], c) : s \in Sock}
AmongSent(c) == UNION {{<<"sent", p>>} \X {i \in DOMAIN sent[p] : sent[p][i] = c} : p \in Ports}
InHand(c)    == {<<"hand", e>> : e \in {x \in hand : CopyOf(x) = c}}

LEMMA PlacesOnPorts ==
  ASSUME TypeOK, DInv, NEW c \in Copy
  PROVE  /\ (\A t \in Tty : c \notin PQ[<<"tty", t>>]) => AmongCom(c) = {}
         /\ \A t \in Tty : c \in PQ[<<"tty", t>>] => \E x : AmongCom(c) = {x}
         /\ (\A s \in Sock : c \notin PQ[<<"sock", s>>]) => AmongTcp(c) = {}
         /\ \A s \in Sock : c \in PQ[<<"sock", s>>] => \E x : AmongTcp(c) = {x}
<1>1. \A t \in Tty : /\ c \notin PQ[<<"tty", t>>] => Indexes(comQ[t], c) = {}
                     /\ c \in PQ[<<"tty", t>>] => \E i : Indexes(comQ[t], c) = {i}
  <2> TAKE t \in Tty
  <2>1. comQ[t] \in Seq(Entry) /\ Sorted(comQ[t]) /\ PQ[<<"tty", t>>] = In(comQ[t])
    BY QueueSets DEF TypeOK, DInv, QueuesSorted
  <2> QED  BY <2>1, OneIndex
<1>2. \A s \in Sock : /\ c \notin PQ[<<"sock", s>>] => Indexes(tcpQ[s], c) = {}
                      /\ c \in PQ[<<"sock", s>>] => \E i : Indexes(tcpQ[s], c) = {i}
  <2> TAKE s \in Sock
  <2>1. tcpQ[s] \in Seq(Entry) /\ Sorted(tcpQ[s]) /\ PQ[<<"sock", s>>] = In(tcpQ[s])
    BY QueueSets DEF TypeOK, DInv, QueuesSorted
  <2> QED  BY <2>1, OneIndex
<1>3. \A p \in Ports : c \in PQ[p] => \A x \in Ports : x # p => c \notin PQ[x]
  BY NowhereElse DEF DInv, AllPlaced
<1>4. (\A t \in Tty : c \notin PQ[<<"tty", t>>]) => AmongCom(c) = {}
  BY <1>1 DEF AmongCom
<1>5. (\A s \in Sock : c \notin PQ[<<"sock", s>>]) => AmongTcp(c) = {}
  BY <1>2 DEF AmongTcp
<1>6. ASSUME NEW t \in Tty, c \in PQ[<<"tty", t>>] PROVE \E x : AmongCom(c) = {x}
  <2>1. \A u \in Tty : u # t => c \notin PQ[<<"tty", u>>]
    BY <1>3, <1>6, PortFacts
  <2>2. PICK i : Indexes(comQ[t], c) = {i}
    BY <1>1, <1>6
  <2>3. \A u \in Tty : u # t => Indexes(comQ[u], c) = {}
    BY <1>1, <2>1
  <2>4. AmongCom(c) = {<<<<"com", t>>, i>>}
    BY <2>2, <2>3 DEF AmongCom
  <2> QED  BY <2>4
<1>7. ASSUME NEW s \in Sock, c \in PQ[<<"sock", s>>] PROVE \E x : AmongTcp(c) = {x}
  <2>1. \A u \in Sock : u # s => c \notin PQ[<<"sock", u>>]
    BY <1>3, <1>7, PortFacts
  <2>2. PICK i : Indexes(tcpQ[s], c) = {i}
    BY <1>2, <1>7
  <2>3. \A u \in Sock : u # s => Indexes(tcpQ[u], c) = {}
    BY <1>2, <2>1
  <2>4. AmongTcp(c) = {<<<<"tcp", s>>, i>>}
    BY <2>2, <2>3 DEF AmongTcp
  <2> QED  BY <2>4
<1> QED  BY <1>4, <1>5, <1>6, <1>7

LEMMA PlacesSent ==
  ASSUME TypeOK, DInv, NEW c \in Copy
  PROVE  /\ (\A p \in Ports : c \notin SQ[p]) => AmongSent(c) = {}
         /\ \A p \in Ports : c \in SQ[p] => \E x : AmongSent(c) = {x}
<1> DEFINE At(p) == {i \in DOMAIN sent[p] : sent[p][i] = c}
<1>1. \A p \in Ports : c \notin SQ[p] => At(p) = {}
  BY DEF SQ
<1>2. ASSUME NEW p \in Ports, c \in SQ[p] PROVE \E i : At(p) = {i}
  <2>1. PICK i \in DOMAIN sent[p] : sent[p][i] = c
    BY <1>2 DEF SQ
  <2>2. ASSUME NEW k \in DOMAIN sent[p], sent[p][k] = c, k # i PROVE FALSE
    <3>1. sent[p] \in Seq(Copy)
      BY DEF TypeOK
    <3>2. DOMAIN sent[p] = 1 .. Len(sent[p]) /\ Len(sent[p]) \in Nat
      BY <3>1, LenProperties
    <3>3. k < i \/ i < k
      BY <2>2, <3>2
    <3>4. Earlier(c, c)
      BY <2>1, <2>2, <3>3 DEF DInv, QueuesSorted
    <3> QED  BY <3>4, EarlierIsStrict
  <2>3. At(p) = {i}
    BY <2>1, <2>2
  <2> QED  BY <2>3
<1>3. AmongSent(c) = UNION {{<<"sent", p>>} \X At(p) : p \in Ports}
  BY DEF AmongSent
<1>4. (\A p \in Ports : c \notin SQ[p]) => AmongSent(c) = {}
  <2> HIDE DEF At
  <2> QED  BY <1>1, <1>3
<1>5. ASSUME NEW p \in Ports, c \in SQ[p] PROVE \E x : AmongSent(c) = {x}
  <2>1. \A x \in Ports : x # p => c \notin SQ[x]
    BY <1>5, NowhereElse DEF DInv, AllPlaced
  <2>2. PICK i : At(p) = {i}
    BY <1>2, <1>5
  <2> HIDE DEF At
  <2>3. \A x \in Ports : x # p => At(x) = {}
    BY <1>1, <2>1
  <2>4. AmongSent(c) = {<<<<"sent", p>>, i>>}
    BY <1>3, <2>2, <2>3
  <2> QED  BY <2>4
<1> QED  BY <1>4, <1>5

(* On the way: in the queue of its kind, or in the Socket thread's hands.    *)
LEMMA PlacesOnTheWay ==
  ASSUME TypeOK, DInv, NEW c \in Copy
  PROVE  /\ c \notin FQ["tty"] => Indexes(qTTYout, c) = {}
         /\ c \in FQ["tty"] => \E i : Indexes(qTTYout, c) = {i}
         /\ c \notin FQ["sock"] => InHand(c) = {} /\ Indexes(qETHout, c) = {}
         /\ c \in FQ["sock"] => \/ InHand(c) = {} /\ \E i : Indexes(qETHout, c) = {i}
                                \/ Indexes(qETHout, c) = {} /\ \E x : InHand(c) = {x}
<1>1. /\ qTTYout \in Seq(Entry) /\ qETHout \in Seq(Entry)
      /\ Sorted(qTTYout) /\ Sorted(qETHout) /\ AllEarlier(Held, In(qETHout))
  BY DEF TypeOK, DInv, QueuesSorted
<1>2. FQ["tty"] = In(qTTYout) /\ FQ["sock"] = Held \cup In(qETHout)
  BY QueueSets
<1>3. /\ c \notin In(qETHout) => Indexes(qETHout, c) = {}
      /\ c \in In(qETHout) => \E i : Indexes(qETHout, c) = {i}
      /\ c \notin In(qTTYout) => Indexes(qTTYout, c) = {}
      /\ c \in In(qTTYout) => \E i : Indexes(qTTYout, c) = {i}
  BY <1>1, OneIndex
<1>4. c \notin Held => InHand(c) = {}
  BY DEF Held, InHand
<1>5. c \in Held => \E x : InHand(c) = {x}
  <2> SUFFICES ASSUME c \in Held PROVE \E x : InHand(c) = {x}
    OBVIOUS
  <2>1. PICK e : hand = {e} /\ CopyOf(e) = c
    BY DEF Held, DInv, HandOfThePut
  <2>2. InHand(c) = {<<"hand", e>>}
    BY <2>1 DEF InHand
  <2> QED  BY <2>2
<1>6. ~(c \in Held /\ c \in In(qETHout))
  BY <1>1, EarlierIsStrict DEF AllEarlier
<1> QED  BY <1>2, <1>3, <1>4, <1>5, <1>6

(* No interleaving of the two threads, the purges and a change of Me.IsActive *)
(* loses a copy silently, sends it twice, or both sends and drops it.         *)
LEMMA PlacedOnce == TypeOK /\ DInv => ExactlyOnePlace
<1> SUFFICES ASSUME TypeOK, DInv, NEW c \in Copy
             PROVE  Cardinality(Places(c)) = IF c \in routed THEN 1 ELSE 0
  BY DEF ExactlyOnePlace
<1> DEFINE A == {"qTTYout"} \X Indexes(qTTYout, c)
           B == {"qETHout"} \X Indexes(qETHout, c)
           L == IF c \in gone THEN {<<"gone", c>>} ELSE {}
<1>1. Places(c) = A \cup B \cup InHand(c) \cup AmongCom(c) \cup AmongTcp(c) \cup AmongSent(c) \cup L
  BY DEF Places, InHand, AmongCom, AmongTcp, AmongSent
<1>2. c \in routed <=> \/ c \in gone \/ c \in FQ["tty"] \/ c \in FQ["sock"]
                       \/ \E t \in Tty : c \in PQ[<<"tty", t>>]
                       \/ \E s \in Sock : c \in PQ[<<"sock", s>>]
                       \/ \E p \in Ports : c \in SQ[p]
  <2>1. c \in routed <=> \/ c \in gone \/ \E k \in Kinds : c \in FQ[k]
                         \/ \E p \in Ports : c \in SQ[p] \/ c \in PQ[p]
    BY DEF DInv, AllPlaced, Placed, Conserved
  <2> QED  BY <2>1, PortFacts DEF Kinds
<1>3. /\ c \in gone => /\ c \notin FQ["tty"] /\ c \notin FQ["sock"]
                       /\ \A p \in Ports : c \notin SQ[p] /\ c \notin PQ[p]
      /\ c \in FQ["tty"] \/ c \in FQ["sock"] => \A p \in Ports : c \notin SQ[p] /\ c \notin PQ[p]
      /\ ~(c \in FQ["tty"] /\ c \in FQ["sock"])
      /\ \A p \in Ports : c \in SQ[p] \cup PQ[p] =>
                            \A x \in Ports : x # p => c \notin SQ[x] /\ c \notin PQ[x]
      /\ \A p \in Ports : ~(c \in SQ[p] /\ c \in PQ[p])
  <2>1. "tty" \in Kinds /\ "sock" \in Kinds /\ "tty" # "sock"
    BY DEF Kinds
  <2> QED  BY <2>1, NowhereElse DEF DInv, AllPlaced
<1>4. /\ \A t \in Tty, s \in Sock : <<"tty", t>> # <<"sock", s>>
      /\ \A t \in Tty : <<"tty", t>> \in Ports
      /\ \A s \in Sock : <<"sock", s>> \in Ports
  BY PortFacts
<1>5. /\ c \notin FQ["tty"] => A = {}
      /\ c \in FQ["tty"] => \E x : A = {x}
      /\ c \notin FQ["sock"] => B \cup InHand(c) = {}
      /\ c \in FQ["sock"] => \E x : B \cup InHand(c) = {x}
  <2>1. \A I : I = {} => {"qTTYout"} \X I = {} /\ {"qETHout"} \X I = {}
    OBVIOUS
  <2>2. \A i : {"qTTYout"} \X {i} = {<<"qTTYout", i>>} /\ {"qETHout"} \X {i} = {<<"qETHout", i>>}
    OBVIOUS
  <2>3. /\ c \notin FQ["tty"] => A = {}
        /\ c \in FQ["tty"] => \E x : A = {x}
    <3>1. c \notin FQ["tty"] => A = {}
      BY <2>1, PlacesOnTheWay
    <3>2. ASSUME c \in FQ["tty"] PROVE \E x : A = {x}
      <4>1. PICK i : Indexes(qTTYout, c) = {i}
        BY <3>2, PlacesOnTheWay
      <4>2. A = {<<"qTTYout", i>>}
        BY <4>1
      <4> QED  BY <4>2
    <3> QED  BY <3>1, <3>2
  <2>4. c \notin FQ["sock"] => B \cup InHand(c) = {}
    BY <2>1, PlacesOnTheWay
  <2>5. ASSUME c \in FQ["sock"] PROVE \E x : B \cup InHand(c) = {x}
    <3>1. CASE InHand(c) = {} /\ \E i : Indexes(qETHout, c) = {i}
      <4>1. PICK i : Indexes(qETHout, c) = {i}
        BY <3>1
      <4>2. B \cup InHand(c) = {<<"qETHout", i>>}
        BY <3>1, <4>1
      <4> QED  BY <4>2
    <3>2. CASE Indexes(qETHout, c) = {} /\ \E x : InHand(c) = {x}
      BY <2>1, <3>2
    <3> QED  BY <2>5, <3>1, <3>2, PlacesOnTheWay
  <2> QED  BY <2>3, <2>4, <2>5
<1> HIDE DEF A, B
<1>6. CASE c \notin routed
  <2>1. Places(c) = {}
    BY <1>1, <1>2, <1>5, <1>6, PlacesOnPorts, PlacesSent
  <2> QED  BY <1>6, <2>1, FS_EmptySet
<1>7. CASE c \in routed
  <2>1. \E x : Places(c) = {x}
    <3>1. CASE c \in gone
      BY <1>1, <1>3, <1>4, <1>5, <3>1, PlacesOnPorts, PlacesSent
    <3>2. CASE c \notin gone /\ (c \in FQ["tty"] \/ c \in FQ["sock"])
      BY <1>1, <1>3, <1>4, <1>5, <3>2, PlacesOnPorts, PlacesSent
    <3>3. ASSUME NEW t \in Tty, c \in PQ[<<"tty", t>>] PROVE \E x : Places(c) = {x}
      <4>1. /\ c \notin gone /\ c \notin FQ["tty"] /\ c \notin FQ["sock"]
            /\ \A s \in Sock : c \notin PQ[<<"sock", s>>]
            /\ \A p \in Ports : c \notin SQ[p]
        BY <1>3, <1>4, <3>3
      <4>2. Places(c) = AmongCom(c)
        BY <1>1, <1>5, <4>1, PlacesOnPorts, PlacesSent
      <4> QED  BY <3>3, <4>2, PlacesOnPorts
    <3>4. ASSUME NEW s \in Sock, c \in PQ[<<"sock", s>>] PROVE \E x : Places(c) = {x}
      <4>1. /\ c \notin gone /\ c \notin FQ["tty"] /\ c \notin FQ["sock"]
            /\ \A t \in Tty : c \notin PQ[<<"tty", t>>]
            /\ \A p \in Ports : c \notin SQ[p]
        BY <1>3, <1>4, <3>4
      <4>2. Places(c) = AmongTcp(c)
        BY <1>1, <1>5, <4>1, PlacesOnPorts, PlacesSent
      <4> QED  BY <3>4, <4>2, PlacesOnPorts
    <3>5. ASSUME NEW p \in Ports, c \in SQ[p] PROVE \E x : Places(c) = {x}
      <4>1. /\ c \notin gone /\ c \notin FQ["tty"] /\ c \notin FQ["sock"]
            /\ \A x \in Ports : c \notin PQ[x]
        BY <1>3, <3>5
      <4>2. Places(c) = AmongSent(c)
        BY <1>1, <1>4, <1>5, <4>1, PlacesOnPorts, PlacesSent
      <4> QED  BY <3>5, <4>2, PlacesSent
    <3> QED  BY <1>2, <1>7, <3>1, <3>2, <3>3, <3>4, <3>5
  <2> QED  BY <1>7, <2>1, FS_Singleton
<1> QED  BY <1>6, <1>7

(* In every reachable state each copy the router made is in exactly one      *)
(* place, for any number of ports, sockets, messages and table entries.      *)
THEOREM OnePlace == Spec => []ExactlyOnePlace
<1>1. IInv /\ DInv => ExactlyOnePlace
  BY PlacedOnce DEF IInv
<1> QED  BY <1>1, Invariance, Placement, PTL
=============================================================================

---------------------------- MODULE TcpSocketProofs ----------------------------
(* The descriptors of the sockets, for any number of sockets, any table of    *)
(* devices and any number of descriptors.                                     *)
(*                                                                            *)
(* The invariant says, for a socket only one thread at a time has worked on,  *)
(* which of its two numbers are descriptors it owns at each point of each     *)
(* method; every step keeps it for the socket it works on, and disturbs no    *)
(* other one unless it closes a descriptor that other one has opened.         *)
EXTENDS TcpSocket, TLAPS, WellFoundedInduction

(* Only the Socket thread goes on to connect, only with a client, and only   *)
(* after its tries were forgotten.                                           *)
Connecting ==
  \A t \in Threads :
    /\ At(t, "connect") \/ pc[t].then = "connect" => t = "socket" /\ protocol[pc[t].s] = "client"
    /\ pc[t].then = "connect" => pc[t].at \in {"initNew", "initSock", "open", "bind"}
    /\ At(t, "connect") \/ (pc[t].then = "connect" /\ pc[t].at \in {"open", "bind"}) => tries[pc[t].s] = 0

(* The protocol of an object is pServer until its row is loaded for the      *)
(* first time, and that of its row from then on.                             *)
Loaded == \A s \in Sockets : protocol[s] \in {"server", table[s]}

(* The thread inside a method of s is alone there.                           *)
Alone(s) == \A t, u \in Threads : Working(t, s) /\ Working(u, s) => t = u

(* What holds of a socket outside its methods, and inside them up to the     *)
(* close of the connection.                                                  *)
Orderly(s) ==
  /\ \A f \in Fds : owner[f] = s => f \in {sockfd[s], newsockfd[s]}
  /\ sockfd[s] # NoFd => owner[sockfd[s]] = s
  /\ newsockfd[s] # NoFd => protocol[s] \in {"server", "client"}
  /\ newsockfd[s] # NoFd /\ protocol[s] = "server"
       => owner[newsockfd[s]] = s /\ newsockfd[s] # sockfd[s]
  /\ newsockfd[s] # NoFd /\ protocol[s] = "client" /\ sockfd[s] # NoFd => newsockfd[s] = sockfd[s]
  /\ connected[s] => WriteFd(s) # NoFd /\ owner[WriteFd(s)] = s

(* What a server opened, when initialize_socket meets it after the protocol   *)
(* was set to that of another row.                                           *)
LeftByServer(s) ==
  /\ \A f \in Fds : owner[f] = s => f \in {sockfd[s], newsockfd[s]}
  /\ sockfd[s] # NoFd => owner[sockfd[s]] = s
  /\ newsockfd[s] # NoFd => owner[newsockfd[s]] = s /\ newsockfd[s] # sockfd[s]

(* The connection is closed, its number and the socket are still to go.  A   *)
(* client had one descriptor for both.                                       *)
HalfClosed(s) ==
  /\ \A f \in Fds : owner[f] = s => f = sockfd[s]
  /\ protocol[s] # "client" /\ sockfd[s] # NoFd => owner[sockfd[s]] = s

HalfWay == {"closeSock", "initSock"}
Closing == {"initNew"} \cup HalfWay
Method(s) ==
  /\ (\A t \in Threads : pc[t].s = s => pc[t].at \notin Closing) => Orderly(s)
  /\ \A t \in Threads : pc[t].s = s =>
       /\ pc[t].at = "initNew" => Orderly(s) \/ LeftByServer(s)
       /\ pc[t].at \in HalfWay => HalfClosed(s)
       /\ pc[t].at = "open" => sockfd[s] = NoFd
       /\ pc[t].at \in {"open", "bind", "connect"} => newsockfd[s] = NoFd /\ ~connected[s]
       /\ pc[t].at = "write" => connected[s]

Trusted(s) == wrong = {} /\ s \notin shared

IInv ==
  /\ TypeOK /\ Connecting /\ Loaded /\ ForeignCloseExplained
  /\ \A s \in Sockets : Trusted(s) => Alone(s) /\ Method(s)

--------------------------------------------------------------------------------
(* The constants, and what the type invariant says pointwise.                *)

Numbers == Fds \cup {NoFd}

LEMMA Constants ==
  /\ 1 \in Sockets /\ Other \notin Sockets /\ NoOne \notin Sockets /\ Other # NoOne
  /\ NoFd \notin Fds
  /\ \A s \in Sockets : NextSocket(s) \in Sockets
  /\ Tables \subseteq [Sockets -> Protocols] /\ "server" \in Protocols
<1>1. \A s \in Sockets : NextSocket(s) \in Sockets
  <2>. SUFFICES ASSUME NEW s \in Sockets PROVE NextSocket(s) \in Sockets
    OBVIOUS
  <2>1. N \in Nat \ {0} /\ s \in 1..N
    BY SocketAssumption DEF Sockets
  <2>2. s % N \in 0..(N - 1)
    BY <2>1
  <2>. QED BY <2>1, <2>2 DEF Sockets, NextSocket
<1>. QED BY <1>1, SocketAssumption DEF Sockets, Fds, NoFd, Protocols

(* A set of numbers has a least one.                                         *)
LEMMA LeastNumber ==
  ASSUME NEW S, S \subseteq Nat, S # {}
  PROVE  \E x \in S : \A y \in S : x <= y
<1>1. IsWellFoundedOn(OpToRel(<, Nat), Nat)
  BY NatLessThanWellFounded
<1>2. PICK x \in S : \A y \in S : <<y, x>> \notin OpToRel(<, Nat)
  BY <1>1, WFMin
<1>3. \A y \in S : ~(y < x)
  BY <1>2 DEF OpToRel
<1>4. \A y \in S : x <= y
  <2> TAKE y \in S
  <2>1. x \in Nat /\ y \in Nat /\ ~(y < x)
    BY <1>3
  <2> QED BY <2>1
<1> QED BY <1>4

(* socket() and accept() take the lowest free descriptor.                     *)
LEMMA LowestFreeIsFree ==
  ASSUME FreeFds # {}
  PROVE  LowestFree \in Fds /\ owner[LowestFree] = NoOne
<1>1. FreeFds \subseteq Fds /\ \A f \in FreeFds : owner[f] = NoOne
  BY DEF FreeFds
<1>2. PICK m \in FreeFds : \A g \in FreeFds : m <= g
  <2>1. FreeFds \subseteq Nat
    BY <1>1, SocketAssumption DEF Fds
  <2>. QED BY <2>1, LeastNumber
<1>3. LowestFree \in FreeFds
  BY <1>2 DEF LowestFree
<1>. QED BY <1>1, <1>3

LEMMA Typed ==
  ASSUME TypeOK
  PROVE  /\ owner \in [Fds -> Sockets \cup {Other, NoOne}]
         /\ sockfd \in [Sockets -> Numbers] /\ newsockfd \in [Sockets -> Numbers]
         /\ connected \in [Sockets -> BOOLEAN]
         /\ \A t \in Threads : /\ pc[t].at \in Labels /\ pc[t].s \in Sockets
                               /\ pc[t].then \in Then
         /\ protocol \in [Sockets -> Protocols] /\ table \in [Sockets -> Protocols]
<1>1. protocol \in [Sockets -> Protocols] /\ table \in [Sockets -> Protocols]
  BY Constants DEF TypeOK
<1>2. ASSUME NEW t \in Threads
      PROVE  pc[t].at \in Labels /\ pc[t].s \in Sockets /\ pc[t].then \in Then
  BY DEF TypeOK
<1>. QED BY <1>1, <1>2 DEF TypeOK, Numbers

--------------------------------------------------------------------------------
(* A step of thread t on socket s.  Steps on no socket have s = Other.       *)

Places == [at : Labels, s : Sockets, then : Then]

(* No other thread is inside a method of s.                                  *)
OthersAway(t, s) == \A u \in Threads \ {t} : ~Working(u, s)

(* The same for a thread that is the only one there.                         *)
MethodOf(t, s) ==
  /\ ~(pc[t].s = s /\ pc[t].at \in Closing) => Orderly(s)
  /\ pc[t].s = s =>
       /\ pc[t].at = "initNew" => Orderly(s) \/ LeftByServer(s)
       /\ pc[t].at \in HalfWay => HalfClosed(s)
       /\ pc[t].at = "open" => sockfd[s] = NoFd
       /\ pc[t].at \in {"open", "bind", "connect"} => newsockfd[s] = NoFd /\ ~connected[s]
       /\ pc[t].at = "write" => connected[s]

Inside == {"closeNew", "closeSock", "initNew", "initSock", "open", "bind", "connect", "write",
           "setProtocol"}

LEMMA WorkingIsInside ==
  \A u, s : Working(u, s) <=> pc[u].s = s /\ pc[u].at \in Inside
BY DEF Working, Inside

(* What the step leaves alone: the other threads, the other sockets, and     *)
(* every descriptor but those of s and the free ones, unless another one's   *)
(* was closed.                                                               *)
Local(t, s) ==
  /\ \A u \in Threads \ {t} : pc'[u] = pc[u]
  /\ \A x \in Sockets \ {s} :
       /\ sockfd'[x] = sockfd[x] /\ newsockfd'[x] = newsockfd[x]
       /\ connected'[x] = connected[x]
       /\ pc'[t] = pc[t] \/ (~Working(t, x) /\ ~Working(t, x)')
  /\ \A f \in Fds : \/ owner'[f] = owner[f] \/ wrong' # {}
                    \/ owner[f] \in {s, NoOne} /\ owner'[f] \in {s, NoOne}
  /\ shared \subseteq shared'

Blamed(s) ==
  \/ wrong' = wrong
  \/ wrong = {} /\ wrong' = {s} /\ s \in Sockets /\ (protocol[s] = "client" \/ s \in shared')

(* Comm gives the object of a row the protocol of the row.                   *)
Given(s) ==
  /\ table' = table
  /\ \/ protocol' = protocol
     \/ s \in Sockets /\ protocol' = [protocol EXCEPT ![s] = table[s]] /\ wrong' = wrong

Contract(t, s) ==
  /\ Local(t, s) /\ Blamed(s) /\ Given(s) /\ TypeOK' /\ Connecting'
  /\ s \in Sockets /\ Trusted(s)' => OthersAway(t, s)' /\ MethodOf(t, s)'

LEMMA ElsewhereAsBefore ==
  ASSUME IInv, NEW t \in Threads, NEW s \in Sockets \cup {Other}, Contract(t, s),
         NEW x \in Sockets \ {s}, Trusted(x)'
  PROVE  Alone(x)' /\ Method(x)'
<1>1. /\ Trusted(x) /\ wrong' = {}
  BY DEF Contract, Local, Blamed, Trusted
<1>2. Alone(x) /\ Method(x)
  BY <1>1 DEF IInv
<1>3. /\ \A u \in Threads \ {t} : pc'[u] = pc[u]
      /\ pc'[t] = pc[t] \/ (~Working(t, x) /\ ~Working(t, x)')
      /\ sockfd'[x] = sockfd[x] /\ newsockfd'[x] = newsockfd[x]
      /\ connected'[x] = connected[x] /\ protocol'[x] = protocol[x]
  BY Typed DEF Contract, Local, Given, IInv
<1>4. \A u \in Threads : Working(u, x)' <=> Working(u, x)
  BY <1>3 DEF Working
<1>5. Alone(x)'
  BY <1>2, <1>4 DEF Alone
<1>6. \A f \in Fds : owner'[f] = x <=> owner[f] = x
  BY <1>1, Constants DEF Contract, Local
<1>7. \A f \in Numbers : f # NoFd => f \in Fds
  BY DEF Numbers
<1>8. sockfd[x] \in Numbers /\ newsockfd[x] \in Numbers
  BY Typed DEF IInv
<1>9. Orderly(x) => Orderly(x)'
  BY <1>3, <1>6, <1>7, <1>8 DEF Orderly, WriteFd
<1>10. HalfClosed(x) => HalfClosed(x)'
  BY <1>3, <1>6, <1>7, <1>8 DEF HalfClosed
<1>14. LeftByServer(x) => LeftByServer(x)'
  BY <1>3, <1>6, <1>7, <1>8 DEF LeftByServer
<1>11. \A u \in Threads : /\ pc[u].s = x /\ pc[u].at \in Inside => pc'[u] = pc[u]
                          /\ pc'[u].s = x /\ pc'[u].at \in Inside => pc'[u] = pc[u]
  BY <1>3 DEF Working, Inside
<1>12. /\ Closing \subseteq Inside /\ {"open", "bind", "connect", "write"} \subseteq Inside
       /\ HalfWay \subseteq Inside /\ "initNew" \in Inside
  BY DEF Closing, HalfWay, Inside
<1>13. Method(x)'
  BY <1>2, <1>3, <1>9, <1>10, <1>11, <1>12, <1>14 DEF Method
<1>. QED BY <1>5, <1>13

LEMMA ContractKeepsInvariant ==
  ASSUME IInv, NEW t \in Threads, NEW s \in Sockets \cup {Other}, Contract(t, s)
  PROVE  IInv'
<1>0. protocol \in [Sockets -> Protocols] /\ wrong \subseteq Sockets
  BY DEF IInv, TypeOK
<1>1. Loaded'
  BY <1>0 DEF Contract, Given, IInv, Loaded
<1>2. ForeignCloseExplained'
  <2>1. CASE protocol' = protocol
    BY <2>1 DEF Contract, Local, Blamed, IInv, ForeignCloseExplained
  <2>2. CASE s \in Sockets /\ protocol' = [protocol EXCEPT ![s] = table[s]] /\ wrong' = wrong
    <3>. SUFFICES ASSUME NEW x \in wrong PROVE protocol'[x] = "client" \/ x \in shared'
      BY <2>2 DEF ForeignCloseExplained
    <3>1. protocol[x] = "client" \/ x \in shared
      BY DEF IInv, ForeignCloseExplained
    <3>2. protocol[x] = "client" => table[x] = "client"
      BY <1>0 DEF IInv, Loaded
    <3>3. shared \subseteq shared'
      BY DEF Contract, Local
    <3>. QED BY <1>0, <2>2, <3>1, <3>2, <3>3
  <2>. QED BY <2>1, <2>2 DEF Contract, Given
<1>3. ASSUME NEW x \in Sockets, Trusted(x)'
      PROVE  Alone(x)' /\ Method(x)'
  <2>1. CASE x # s
    BY <1>3, <2>1, ElsewhereAsBefore
  <2>2. CASE x = s
    <3>1. OthersAway(t, x)' /\ MethodOf(t, x)'
      BY <1>3, <2>2 DEF Contract
    <3>2. Alone(x)'
      BY <3>1 DEF Alone, OthersAway
    <3>3. \A u \in Threads \ {t} : ~(pc'[u].s = x /\ pc'[u].at \in Inside)
      BY <3>1 DEF OthersAway, Working, Inside
    <3>4. /\ Closing \subseteq Inside /\ {"open", "bind", "connect", "write"} \subseteq Inside
          /\ HalfWay \subseteq Inside /\ "initNew" \in Inside
      BY DEF Closing, HalfWay, Inside
    <3>5. Method(x)'
      BY <3>1, <3>3, <3>4 DEF Method, MethodOf
    <3>. QED BY <3>2, <3>5
  <2>. QED BY <2>1, <2>2
<1>. QED BY <1>1, <1>2, <1>3 DEF Contract, IInv

(* Before a step on s that leaves it trusted.                                *)
LEMMA TrustedBefore ==
  ASSUME IInv, NEW t \in Threads, NEW s \in Sockets, Trusted(s)
  PROVE  /\ Method(s)
         /\ Working(t, s) => OthersAway(t, s)
         /\ OthersAway(t, s) => MethodOf(t, s)
<1>1. Alone(s) /\ Method(s)
  BY DEF IInv
<1>2. Working(t, s) => OthersAway(t, s)
  BY <1>1 DEF Alone, OthersAway
<1>3. ASSUME OthersAway(t, s)
      PROVE  MethodOf(t, s)
  <2>1. \A u \in Threads \ {t} : ~(pc[u].s = s /\ pc[u].at \in Closing)
    BY <1>3 DEF OthersAway, Working, Closing, HalfWay
  <2>. QED BY <1>1, <2>1 DEF Method, MethodOf
<1>. QED BY <1>1, <1>2, <1>3

--------------------------------------------------------------------------------
(* What the operators a step is built from do.                               *)

LEMMA GotoGoes ==
  ASSUME TypeOK, NEW t \in Threads, NEW l \in Labels, NEW s \in Sockets, NEW h \in Then,
         Goto(t, l, s, h)
  PROVE  /\ pc' \in [Threads -> Places]
         /\ pc'[t].at = l /\ pc'[t].s = s /\ pc'[t].then = h
         /\ \A u \in Threads \ {t} : pc'[u] = pc[u]
<1>1. pc \in [Threads -> Places]
  BY DEF TypeOK, Places
<1>2. [at |-> l, s |-> s, then |-> h] \in Places
  BY DEF Places
<1>3. pc' = [pc EXCEPT ![t] = [at |-> l, s |-> s, then |-> h]]
  BY DEF Goto
<1>4. pc'[t] = [at |-> l, s |-> s, then |-> h]
  BY <1>1, <1>3
<1>5. pc' \in [Threads -> Places] /\ \A u \in Threads \ {t} : pc'[u] = pc[u]
  BY <1>1, <1>2, <1>3
<1>. QED BY <1>4, <1>5

(* A number of s is closed: only a descriptor of s or a free one, unless it  *)
(* is the first foreign one.                                                 *)
LEMMA CloseCloses ==
  ASSUME TypeOK, NEW s \in Sockets, NEW fd \in Numbers, CloseFd(s, fd)
  PROVE  /\ owner' \in [Fds -> Sockets \cup {Other, NoOne}] /\ wrong' \subseteq Sockets
         /\ \A f \in Fds : /\ f # fd => owner'[f] = owner[f]
                           /\ f = fd => owner'[f] = NoOne
         /\ \/ wrong' = wrong /\ (wrong = {} => fd = NoFd \/ owner[fd] \in {s, NoOne})
            \/ wrong = {} /\ wrong' = {s} /\ fd # NoFd /\ owner[fd] \notin {s, NoOne}
<1>1. owner \in [Fds -> Sockets \cup {Other, NoOne}] /\ wrong \subseteq Sockets
  BY DEF TypeOK
<1>2. owner' = IF fd = NoFd THEN owner ELSE [owner EXCEPT ![fd] = NoOne]
  BY DEF CloseFd
<1>3. fd = NoFd \/ fd \in Fds
  BY DEF Numbers
<1>4. /\ owner' \in [Fds -> Sockets \cup {Other, NoOne}]
      /\ \A f \in Fds : /\ f # fd => owner'[f] = owner[f]
                        /\ f = fd => owner'[f] = NoOne
  BY <1>1, <1>2, <1>3, Constants
<1>5. wrong' = wrong \cup {x \in {s} : wrong = {} /\ fd # NoFd /\ owner[fd] \notin {s, NoOne}}
  BY DEF CloseFd
<1>. QED BY <1>1, <1>4, <1>5

FlagTypes ==
  /\ bound \in [Sockets -> BOOLEAN] /\ ported \in [Sockets -> BOOLEAN]
  /\ force \in [Sockets -> BOOLEAN] /\ active \in BOOLEAN /\ deconstruct \in BOOLEAN
  /\ table \in Tables /\ protocol \in [Sockets -> Protocols]

(* The method is over; a client goes on to connect.                          *)
LEMMA ReturnReturns ==
  ASSUME TypeOK, NEW t \in Threads, NEW s \in Sockets, NEW then \in Then, Return(t, s, then)
  PROVE  /\ pc' \in [Threads -> Places]
         /\ pc'[t].at \in {"idle", "connect", "deconstruct", "configure"}
         /\ pc'[t].at = "connect" => then = "connect" /\ pc'[t].s = s
         /\ pc'[t].then = "idle"
         /\ \A u \in Threads \ {t} : pc'[u] = pc[u]
         /\ FlagTypes' /\ protocol' = protocol /\ table' = table
<1>1. FlagTypes /\ 1 \in Sockets /\ NextSocket(s) \in Sockets
  BY Constants DEF TypeOK, FlagTypes
<1>2. {"idle", "connect", "deconstruct", "configure"} \subseteq Labels /\ "idle" \in Then
  BY DEF Labels, Then
<1>3. CASE then = "idle"
  <2>1. Goto(t, "idle", 1, "idle") /\ UNCHANGED flagVars
    BY <1>3 DEF Return, Idle
  <2>2. FlagTypes' /\ protocol' = protocol /\ table' = table
    BY <1>1, <2>1 DEF flagVars, FlagTypes
  <2>. QED BY <1>1, <1>2, <2>1, <2>2, GotoGoes
<1>4. CASE then = "connect"
  <2>1. Goto(t, "connect", s, "idle") /\ UNCHANGED flagVars
    BY <1>4 DEF Return, Idle
  <2>2. FlagTypes' /\ protocol' = protocol /\ table' = table
    BY <1>1, <2>1 DEF flagVars, FlagTypes
  <2>. QED BY <1>2, <1>4, <2>1, <2>2, GotoGoes
<1>5. CASE then = "forced"
  <2>1. /\ Goto(t, "idle", 1, "idle") /\ force' = [force EXCEPT ![s] = FALSE]
        /\ bound' = bound /\ ported' = ported /\ active' = active /\ deconstruct' = deconstruct
        /\ protocol' = protocol /\ table' = table
    BY <1>5 DEF Return, Idle
  <2>2. FlagTypes'
    BY <1>1, <2>1 DEF FlagTypes
  <2>. QED BY <1>1, <1>2, <2>1, <2>2, GotoGoes
<1>6. CASE then = "clear"
  <2>1. /\ bound' = [bound EXCEPT ![s] = FALSE] /\ ported' = [ported EXCEPT ![s] = FALSE]
        /\ force' = [force EXCEPT ![s] = FALSE] /\ deconstruct' = (s # N)
        /\ active' = active /\ protocol' = protocol /\ table' = table
        /\ Goto(t, IF s = N THEN "idle" ELSE "deconstruct", NextSocket(s), "idle")
    BY <1>6 DEF Return
  <2>2. FlagTypes'
    BY <1>1, <2>1 DEF FlagTypes
  <2>3. (IF s = N THEN "idle" ELSE "deconstruct") \in {"idle", "deconstruct"}
    OBVIOUS
  <2>. QED BY <1>1, <1>2, <2>1, <2>2, <2>3, GotoGoes
<1>7. CASE then = "nextRow"
  <2>1. /\ Goto(t, IF s = N THEN "idle" ELSE "configure", NextSocket(s), "idle")
        /\ UNCHANGED flagVars
    BY <1>7 DEF Return
  <2>2. FlagTypes' /\ protocol' = protocol /\ table' = table
    BY <1>1, <2>1 DEF flagVars, FlagTypes
  <2>3. (IF s = N THEN "idle" ELSE "configure") \in {"idle", "configure"}
    OBVIOUS
  <2>. QED BY <1>1, <1>2, <2>1, <2>2, <2>3, GotoGoes
<1>. QED BY <1>3, <1>4, <1>5, <1>6, <1>7 DEF Then

LEMMA EnterShares ==
  ASSUME TypeOK, NEW t \in Threads, NEW s \in Sockets, Enter(t, s)
  PROVE  /\ shared \subseteq shared' /\ shared' \subseteq Sockets
         /\ s \notin shared' => OthersAway(t, s)
<1>1. shared' = shared \cup {x \in {s} : \E u \in Threads \ {t} : Working(u, s)}
  BY DEF Enter
<1>. QED BY <1>1 DEF OthersAway, TypeOK

--------------------------------------------------------------------------------
(* What is left to show of a step on s: what it does to the numbers of s and *)
(* to the descriptors (Footprint), and where the thread is after it.         *)

DataTypes ==
  /\ owner \in [Fds -> Sockets \cup {Other, NoOne}]
  /\ sockfd \in [Sockets -> Numbers] /\ newsockfd \in [Sockets -> Numbers]
  /\ connected \in [Sockets -> BOOLEAN] /\ tries \in [Sockets -> 0..(MaxConTries + 1)]
  /\ turn \in Sockets /\ count \in 0..MaxEvents
  /\ shared \subseteq Sockets /\ wrong \subseteq Sockets

LEMMA TypesSplit ==
  TypeOK <=> DataTypes /\ FlagTypes /\ pc \in [Threads -> Places]
BY DEF TypeOK, DataTypes, FlagTypes, Places, Numbers

Footprint(t, s) ==
  /\ pc[t].s = s \/ pc[t].at \notin Inside
  /\ \A x \in Sockets \ {s} :
       /\ sockfd'[x] = sockfd[x] /\ newsockfd'[x] = newsockfd[x]
       /\ connected'[x] = connected[x] /\ tries'[x] = tries[x]
  /\ DataTypes'
  /\ \A f \in Fds : \/ owner'[f] = owner[f] \/ wrong' # {}
                    \/ owner[f] \in {s, NoOne} /\ owner'[f] \in {s, NoOne}
  /\ shared \subseteq shared' /\ Blamed(s)
  /\ tries'[s] \in {tries[s], 0} \/ t = "socket"

InitLabels == {"initNew", "initSock", "open", "bind"}

LEMMA Fulfils ==
  ASSUME IInv, NEW t \in Threads, NEW s \in Sockets, Footprint(t, s),
         FlagTypes', protocol' = protocol /\ table' = table,
         pc' \in [Threads -> Places], \A u \in Threads \ {t} : pc'[u] = pc[u],
         pc'[t].s = s \/ pc'[t].at \notin Inside,
         pc'[t].at = "connect" \/ pc'[t].then = "connect"
           => t = "socket" /\ protocol[s] = "client" /\ pc'[t].s = s,
         pc'[t].then = "connect" => pc'[t].at \in InitLabels,
         pc'[t].at = "connect" \/ (pc'[t].then = "connect" /\ pc'[t].at \in {"open", "bind"})
           => tries'[s] = 0,
         Trusted(s)' => OthersAway(t, s) /\ MethodOf(t, s)'
  PROVE  Contract(t, s)
<1>1. Local(t, s)
  BY WorkingIsInside DEF Footprint, Local, Working, Inside
<1>2. TypeOK'
  <2>1. DataTypes'
    BY DEF Footprint
  <2>. QED BY <2>1 DEF TypeOK, DataTypes, FlagTypes, Places, Numbers
<1>3. Connecting'
  <2>. SUFFICES ASSUME NEW u \in Threads
       PROVE  /\ pc'[u].at = "connect" \/ pc'[u].then = "connect"
                   => u = "socket" /\ protocol'[pc'[u].s] = "client"
              /\ pc'[u].then = "connect" => pc'[u].at \in InitLabels
              /\ pc'[u].at = "connect" \/ (pc'[u].then = "connect" /\ pc'[u].at \in {"open", "bind"})
                   => tries'[pc'[u].s] = 0
    BY DEF Connecting, At, InitLabels
  <2>1. CASE u = t
    BY <2>1
  <2>2. CASE u # t
    <3>1. pc'[u] = pc[u] /\ pc[u].s \in Sockets
      BY <2>2, Typed DEF IInv
    <3>2. /\ pc[u].at = "connect" \/ pc[u].then = "connect"
               => u = "socket" /\ protocol[pc[u].s] = "client"
          /\ pc[u].then = "connect" => pc[u].at \in InitLabels
          /\ pc[u].at = "connect" \/ (pc[u].then = "connect" /\ pc[u].at \in {"open", "bind"})
               => tries[pc[u].s] = 0
      BY DEF IInv, Connecting, At, InitLabels
    <3>3. u = "socket" => \A x \in Sockets : tries[x] = 0 => tries'[x] = 0
      BY <2>2 DEF Footprint
    <3>. QED BY <3>1, <3>2, <3>3
  <2>. QED BY <2>1, <2>2
<1>4. Trusted(s)' => OthersAway(t, s)'
  BY DEF OthersAway, Working
<1>5. Blamed(s) /\ Given(s)
  BY DEF Footprint, Given
<1>. QED BY <1>1, <1>2, <1>3, <1>4, <1>5 DEF Contract

LEMMA ReturnFulfils ==
  ASSUME IInv, NEW t \in Threads, NEW s \in Sockets, NEW then \in Then,
         Footprint(t, s), Return(t, s, then),
         then = "connect" => t = "socket" /\ protocol[s] = "client" /\ tries'[s] = 0,
         Trusted(s)' => /\ OthersAway(t, s) /\ Orderly(s)'
                        /\ then = "connect" => newsockfd'[s] = NoFd /\ ~connected'[s]
  PROVE  Contract(t, s)
<1>. TypeOK
  BY DEF IInv
<1>1. /\ pc' \in [Threads -> Places]
      /\ pc'[t].at \in {"idle", "connect", "deconstruct", "configure"}
      /\ pc'[t].at = "connect" => then = "connect" /\ pc'[t].s = s
      /\ pc'[t].then = "idle"
      /\ \A u \in Threads \ {t} : pc'[u] = pc[u]
      /\ FlagTypes' /\ protocol' = protocol /\ table' = table
  BY ReturnReturns
<1>2. pc'[t].s = s \/ pc'[t].at \notin Inside
  BY <1>1 DEF Inside
<1>3. Orderly(s)' /\ (then = "connect" => newsockfd'[s] = NoFd /\ ~connected'[s]) => MethodOf(t, s)'
  BY <1>1 DEF MethodOf, Closing, HalfWay
<1>. QED BY <1>1, <1>2, <1>3, Fulfils

LEMMA GotoFulfils ==
  ASSUME IInv, NEW t \in Threads, NEW s \in Sockets, NEW l \in Inside, NEW h \in Then,
         Footprint(t, s), Goto(t, l, s, h), FlagTypes', protocol' = protocol /\ table' = table,
         l # "connect",
         h = "connect" => /\ t = "socket" /\ protocol[s] = "client" /\ l \in InitLabels
                          /\ l \in {"open", "bind"} => tries'[s] = 0,
         Trusted(s)' => /\ OthersAway(t, s)
                        /\ l \notin HalfWay => Orderly(s)'
                        /\ l \in HalfWay => HalfClosed(s)'
                        /\ l = "open" => sockfd'[s] = NoFd
                        /\ l \in {"open", "bind"} => newsockfd'[s] = NoFd /\ ~connected'[s]
                        /\ l = "write" => connected'[s]
  PROVE  Contract(t, s)
<1>. TypeOK /\ l \in Labels
  BY DEF IInv, Labels, Inside
<1>1. /\ pc' \in [Threads -> Places]
      /\ pc'[t].at = l /\ pc'[t].s = s /\ pc'[t].then = h
      /\ \A u \in Threads \ {t} : pc'[u] = pc[u]
  BY GotoGoes
<1>2. Trusted(s)' => MethodOf(t, s)'
  BY <1>1 DEF MethodOf, Closing, HalfWay
<1>. QED BY <1>1, <1>2, Fulfils

--------------------------------------------------------------------------------
(* The methods.                                                              *)

(* DisconnectSocket ends: nothing of s is left.                              *)
LEMMA ForgetFulfils ==
  ASSUME IInv, NEW t \in Threads, NEW s \in Sockets, NEW then \in Then \ {"connect"},
         Forget(t, s, then), pc[t].s = s \/ pc[t].at \notin Inside,
         owner' \in [Fds -> Sockets \cup {Other, NoOne}], turn' \in Sockets,
         count' \in 0..MaxEvents, shared' \subseteq Sockets, wrong' \subseteq Sockets,
         \A f \in Fds : \/ owner'[f] = owner[f] \/ wrong' # {}
                        \/ owner[f] \in {s, NoOne} /\ owner'[f] \in {s, NoOne},
         shared \subseteq shared', Blamed(s),
         Trusted(s)' => OthersAway(t, s) /\ \A f \in Fds : owner'[f] # s
  PROVE  Contract(t, s)
<1>. TypeOK
  BY DEF IInv
<1>1. /\ sockfd' = [sockfd EXCEPT ![s] = NoFd] /\ newsockfd' = [newsockfd EXCEPT ![s] = NoFd]
      /\ connected' = [connected EXCEPT ![s] = FALSE] /\ tries' = [tries EXCEPT ![s] = 0]
      /\ Return(t, s, then)
  BY DEF Forget
<1>2. /\ sockfd \in [Sockets -> Numbers] /\ newsockfd \in [Sockets -> Numbers]
      /\ connected \in [Sockets -> BOOLEAN] /\ tries \in [Sockets -> 0..(MaxConTries + 1)]
      /\ NoFd \in Numbers /\ 0 \in 0..(MaxConTries + 1)
  BY SocketAssumption DEF TypeOK, Numbers
<1>3. /\ sockfd' \in [Sockets -> Numbers] /\ newsockfd' \in [Sockets -> Numbers]
      /\ connected' \in [Sockets -> BOOLEAN] /\ tries' \in [Sockets -> 0..(MaxConTries + 1)]
      /\ sockfd'[s] = NoFd /\ newsockfd'[s] = NoFd /\ ~connected'[s] /\ tries'[s] = 0
      /\ \A x \in Sockets \ {s} :
           /\ sockfd'[x] = sockfd[x] /\ newsockfd'[x] = newsockfd[x]
           /\ connected'[x] = connected[x] /\ tries'[x] = tries[x]
  BY <1>1, <1>2
<1>4. Footprint(t, s)
  BY <1>3 DEF Footprint, DataTypes
<1>5. (\A f \in Fds : owner'[f] # s) => Orderly(s)'
  BY <1>3 DEF Orderly
<1>. QED BY <1>1, <1>4, <1>5, ReturnFulfils

LEMMA DisconnectFulfils ==
  ASSUME IInv, NEW t \in Threads, NEW s \in Sockets, NEW then \in Then \ {"connect"},
         pc[t].at \in {"idle", "deconstruct"} \/ (pc[t].at = "write" /\ pc[t].s = s),
         DisconnectSocket(t, s, then), turn' \in Sockets, count' \in 0..MaxEvents
  PROVE  Contract(t, s)
<1>. TypeOK
  BY DEF IInv
<1>1. Enter(t, s) /\ owner' = owner /\ wrong' = wrong
  BY DEF DisconnectSocket
<1>2. /\ shared \subseteq shared' /\ shared' \subseteq Sockets
      /\ s \notin shared' => OthersAway(t, s)
  BY <1>1, EnterShares
<1>3. Blamed(s) /\ wrong' \subseteq Sockets /\ owner' \in [Fds -> Sockets \cup {Other, NoOne}]
  BY <1>1 DEF TypeOK, Blamed
<1>4. pc[t].s = s \/ pc[t].at \notin Inside
  BY DEF Inside
<1>5. Trusted(s)' => OthersAway(t, s) /\ Orderly(s)
  <2>1. Trusted(s)' => Trusted(s) /\ OthersAway(t, s)
    BY <1>1, <1>2 DEF Trusted
  <2>2. pc[t].at \notin Closing
    BY DEF Closing, HalfWay
  <2>. QED BY <2>1, <2>2, TrustedBefore DEF MethodOf
<1>6. ASSUME sockfd' = sockfd, newsockfd' = newsockfd, connected' = connected,
             tries' = tries, UNCHANGED flagVars
      PROVE  /\ Footprint(t, s) /\ FlagTypes' /\ protocol' = protocol /\ table' = table
             /\ Orderly(s) => Orderly(s)'
  <2>1. FlagTypes' /\ protocol' = protocol /\ table' = table
    BY <1>6, TypesSplit DEF flagVars, FlagTypes
  <2>2. DataTypes'
    BY <1>2, <1>3, <1>6, TypesSplit DEF DataTypes
  <2>4. Footprint(t, s)
    BY <1>1, <1>2, <1>3, <1>4, <1>6, <2>2 DEF Footprint
  <2>5. Orderly(s) => Orderly(s)'
    BY <1>1, <1>6, <2>1 DEF Orderly, WriteFd
  <2>. QED BY <2>1, <2>4, <2>5
<1>7. CASE /\ newsockfd[s] # NoFd /\ Goto(t, "closeNew", s, then)
           /\ sockfd' = sockfd /\ newsockfd' = newsockfd /\ connected' = connected
           /\ tries' = tries /\ UNCHANGED flagVars
  <2>1. "closeNew" \in Inside /\ "closeNew" \notin HalfWay
    BY DEF Inside, HalfWay
  <2>. QED BY <1>5, <1>6, <1>7, <2>1, GotoFulfils
<1>8. CASE /\ newsockfd[s] = NoFd /\ sockfd[s] # NoFd /\ Goto(t, "closeSock", s, then)
           /\ sockfd' = sockfd /\ newsockfd' = newsockfd /\ connected' = connected
           /\ tries' = tries /\ UNCHANGED flagVars
  <2>1. "closeSock" \in Inside /\ "closeSock" \in HalfWay
    BY DEF Inside, HalfWay
  <2>2. Orderly(s)' => HalfClosed(s)'
    BY <1>8, Constants DEF Orderly, HalfClosed
  <2>. QED BY <1>5, <1>6, <1>8, <2>1, <2>2, GotoFulfils
<1>9. CASE newsockfd[s] = NoFd /\ sockfd[s] = NoFd /\ Forget(t, s, then)
  <2>1. Orderly(s) => \A f \in Fds : owner'[f] # s
    BY <1>1, <1>9, Constants DEF Orderly
  <2>. QED BY <1>1, <1>2, <1>3, <1>4, <1>5, <1>9, <2>1, ForgetFulfils
<1>. QED BY <1>7, <1>8, <1>9 DEF DisconnectSocket

(* A close in a method of s: who is blamed, and what s keeps.                *)
LEMMA CloseFulfils ==
  ASSUME TypeOK, NEW s \in Sockets, NEW fd \in Numbers, CloseFd(s, fd), shared \subseteq shared',
         wrong = {} /\ s \notin shared' /\ protocol[s] # "client"
           => fd = NoFd \/ owner[fd] \in {s, NoOne}
  PROVE  /\ owner' \in [Fds -> Sockets \cup {Other, NoOne}] /\ wrong' \subseteq Sockets
         /\ Blamed(s)
         /\ \A f \in Fds : \/ owner'[f] = owner[f] \/ wrong' # {}
                           \/ owner[f] \in {s, NoOne} /\ owner'[f] \in {s, NoOne}
         /\ \A f \in Fds : /\ f # fd => owner'[f] = owner[f]
                           /\ f = fd => owner'[f] = NoOne
         /\ Trusted(s)' => Trusted(s)
<1>1. /\ owner' \in [Fds -> Sockets \cup {Other, NoOne}] /\ wrong' \subseteq Sockets
      /\ \A f \in Fds : /\ f # fd => owner'[f] = owner[f]
                        /\ f = fd => owner'[f] = NoOne
      /\ \/ wrong' = wrong /\ (wrong = {} => fd = NoFd \/ owner[fd] \in {s, NoOne})
         \/ wrong = {} /\ wrong' = {s} /\ fd # NoFd /\ owner[fd] \notin {s, NoOne}
  BY CloseCloses
<1>2. Blamed(s)
  BY <1>1 DEF Blamed
<1>3. Trusted(s)' => Trusted(s)
  BY <1>1 DEF Trusted
<1>4. ASSUME NEW f \in Fds
      PROVE  \/ owner'[f] = owner[f] \/ wrong' # {}
             \/ owner[f] \in {s, NoOne} /\ owner'[f] \in {s, NoOne}
  BY <1>1, Constants
<1>. QED BY <1>1, <1>2, <1>3, <1>4

LEMMA InsideAlone ==
  ASSUME IInv, NEW t \in Threads, NEW s \in Sockets, pc[t].s = s, pc[t].at \in Inside, Trusted(s)
  PROVE  OthersAway(t, s) /\ MethodOf(t, s)
BY TrustedBefore DEF Working, Inside

LEMMA CloseNewFulfils ==
  ASSUME IInv, NEW t \in Threads, NEW s \in Sockets, pc[t].s = s, CloseNew(t)
  PROVE  Contract(t, s)
<1>. DEFINE b == newsockfd[s]
<1>1. /\ pc[t].at = "closeNew" /\ CloseFd(s, b)
      /\ turn' = turn /\ count' = count /\ shared' = shared
  BY DEF CloseNew, At
<1>2. /\ TypeOK /\ b \in Numbers /\ pc[t].then \in Then
      /\ sockfd[s] \in Numbers
  BY Typed DEF IInv
<1>3. /\ pc[t].at \in Inside /\ pc[t].at \notin Closing
      /\ "closeSock" \in Inside /\ "closeSock" \in HalfWay
  BY <1>1 DEF Inside, Closing, HalfWay
<1>4. pc[t].then # "connect"
  BY <1>1 DEF IInv, Connecting
<1>5. Trusted(s) => OthersAway(t, s) /\ Orderly(s)
  BY <1>2, <1>3, InsideAlone DEF MethodOf
<1>6. wrong = {} /\ s \notin shared' /\ protocol[s] # "client" => b = NoFd \/ owner[b] \in {s, NoOne}
  BY <1>1, <1>2, <1>5 DEF Trusted, Orderly
<1>. HIDE DEF b
<1>7. /\ owner' \in [Fds -> Sockets \cup {Other, NoOne}] /\ wrong' \subseteq Sockets
      /\ Blamed(s)
      /\ \A f \in Fds : \/ owner'[f] = owner[f] \/ wrong' # {}
                        \/ owner[f] \in {s, NoOne} /\ owner'[f] \in {s, NoOne}
      /\ \A f \in Fds : /\ f # b => owner'[f] = owner[f]
                        /\ f = b => owner'[f] = NoOne
      /\ Trusted(s)' => Trusted(s)
  BY <1>1, <1>2, <1>6, CloseFulfils
<1>8. /\ turn' \in Sockets /\ count' \in 0..MaxEvents /\ shared' \subseteq Sockets
      /\ shared \subseteq shared'
  BY <1>1, <1>2 DEF TypeOK
<1>9. CASE /\ sockfd[s] # NoFd /\ Goto(t, "closeSock", s, pc[t].then)
           /\ sockfd' = sockfd /\ newsockfd' = newsockfd /\ connected' = connected
           /\ tries' = tries /\ UNCHANGED flagVars
  <2>1. FlagTypes' /\ protocol' = protocol /\ table' = table
    BY <1>2, <1>9, TypesSplit DEF flagVars, FlagTypes
  <2>2. DataTypes'
    BY <1>2, <1>7, <1>8, <1>9, TypesSplit DEF DataTypes
  <2>4. Footprint(t, s)
    BY <1>7, <1>8, <1>9, <2>2 DEF Footprint
  <2>5. Orderly(s) => HalfClosed(s)'
    <3>. SUFFICES ASSUME Orderly(s) PROVE HalfClosed(s)'
      OBVIOUS
    <3>1. \A f \in Fds : owner'[f] = s => f = sockfd[s]
      BY <1>2, <1>7, Constants DEF Orderly, b
    <3>2. protocol[s] # "client" => owner'[sockfd[s]] = s
      <4>1. owner[sockfd[s]] = s /\ sockfd[s] \in Fds
        BY <1>2, <1>9 DEF Orderly, Numbers
      <4>2. protocol[s] # "client" => sockfd[s] # b
        BY <1>9 DEF Orderly, b
      <4>. QED BY <1>7, <4>1, <4>2
    <3>. QED BY <1>9, <2>1, <3>1, <3>2 DEF HalfClosed
  <2>. QED BY <1>2, <1>3, <1>4, <1>5, <1>7, <1>9, <2>1, <2>4, <2>5, GotoFulfils
<1>10. CASE sockfd[s] = NoFd /\ Forget(t, s, pc[t].then)
  <2>1. Orderly(s) => \A f \in Fds : owner'[f] # s
    BY <1>2, <1>7, <1>10, Constants DEF Orderly, b
  <2>. QED BY <1>2, <1>4, <1>5, <1>7, <1>8, <1>10, <2>1, ForgetFulfils
<1>. QED BY <1>9, <1>10 DEF CloseNew

LEMMA CloseSockFulfils ==
  ASSUME IInv, NEW t \in Threads, NEW s \in Sockets, pc[t].s = s, CloseSock(t)
  PROVE  Contract(t, s)
<1>. DEFINE a == sockfd[s]
<1>1. /\ pc[t].at = "closeSock" /\ CloseFd(s, a) /\ Forget(t, s, pc[t].then)
      /\ turn' = turn /\ count' = count /\ shared' = shared
  BY DEF CloseSock, At
<1>2. TypeOK /\ a \in Numbers /\ pc[t].then \in Then
  BY Typed DEF IInv
<1>3. pc[t].at \in Inside /\ pc[t].at \in HalfWay
  BY <1>1 DEF Inside, HalfWay
<1>4. pc[t].then # "connect"
  BY <1>1 DEF IInv, Connecting
<1>5. Trusted(s) => OthersAway(t, s) /\ HalfClosed(s)
  BY <1>3, InsideAlone DEF MethodOf
<1>6. wrong = {} /\ s \notin shared' /\ protocol[s] # "client" => a = NoFd \/ owner[a] \in {s, NoOne}
  BY <1>1, <1>5 DEF Trusted, HalfClosed
<1>. HIDE DEF a
<1>7. /\ owner' \in [Fds -> Sockets \cup {Other, NoOne}] /\ wrong' \subseteq Sockets
      /\ Blamed(s)
      /\ \A f \in Fds : \/ owner'[f] = owner[f] \/ wrong' # {}
                        \/ owner[f] \in {s, NoOne} /\ owner'[f] \in {s, NoOne}
      /\ \A f \in Fds : /\ f # a => owner'[f] = owner[f]
                        /\ f = a => owner'[f] = NoOne
      /\ Trusted(s)' => Trusted(s)
  BY <1>1, <1>2, <1>6, CloseFulfils
<1>8. /\ turn' \in Sockets /\ count' \in 0..MaxEvents /\ shared' \subseteq Sockets
      /\ shared \subseteq shared'
  BY <1>1, <1>2 DEF TypeOK
<1>9. HalfClosed(s) => \A f \in Fds : owner'[f] # s
  BY <1>7, Constants DEF HalfClosed, a
<1>. QED BY <1>1, <1>2, <1>4, <1>5, <1>7, <1>8, <1>9, ForgetFulfils

(* initialize_socket begins.                                                 *)
LEMMA InitializeFulfils ==
  ASSUME IInv, NEW t \in Threads, NEW s \in Sockets, NEW then \in Then,
         pc[t].at = "idle", InitializeSocket(t, s, then),
         turn' \in Sockets, count' \in 0..MaxEvents,
         then = "connect" => t = "socket" /\ protocol[s] = "client"
  PROVE  Contract(t, s)
<1>. TypeOK
  BY DEF IInv
<1>. DEFINE l == IF newsockfd[s] = NoFd THEN "initSock" ELSE "initNew"
<1>1. /\ Enter(t, s) /\ owner' = owner /\ wrong' = wrong /\ sockfd' = sockfd
      /\ newsockfd' = newsockfd /\ connected' = connected /\ tries' = tries
      /\ UNCHANGED flagVars /\ Goto(t, l, s, then)
  BY DEF InitializeSocket, fdVars
<1>2. /\ shared \subseteq shared' /\ shared' \subseteq Sockets
      /\ s \notin shared' => OthersAway(t, s)
  BY <1>1, EnterShares
<1>3. Blamed(s) /\ wrong' \subseteq Sockets /\ owner' \in [Fds -> Sockets \cup {Other, NoOne}]
  BY <1>1 DEF TypeOK, Blamed
<1>4. pc[t].at \notin Inside /\ pc[t].at \notin Closing
  BY DEF Inside, Closing, HalfWay
<1>5. Trusted(s)' => OthersAway(t, s) /\ Orderly(s)
  <2>1. Trusted(s)' => Trusted(s) /\ OthersAway(t, s)
    BY <1>1, <1>2 DEF Trusted
  <2>. QED BY <1>4, <2>1, TrustedBefore DEF MethodOf
<1>6. FlagTypes' /\ protocol' = protocol /\ table' = table
  BY <1>1, TypesSplit DEF flagVars, FlagTypes
<1>7. DataTypes'
  BY <1>1, <1>2, <1>3, TypesSplit DEF DataTypes
<1>9. Footprint(t, s)
  BY <1>1, <1>2, <1>3, <1>4, <1>7 DEF Footprint
<1>10. Orderly(s) => Orderly(s)'
  BY <1>1, <1>6 DEF Orderly, WriteFd
<1>11. Orderly(s) /\ newsockfd[s] = NoFd => HalfClosed(s)'
  BY <1>1, <1>6, Constants DEF Orderly, HalfClosed
<1>12. /\ l \in Inside \ {"connect", "open", "bind", "write"} /\ l \in InitLabels
       /\ l \in HalfWay <=> newsockfd[s] = NoFd
  BY DEF Inside, InitLabels, HalfWay
<1>. HIDE DEF l
<1>. QED BY <1>1, <1>5, <1>6, <1>9, <1>10, <1>11, <1>12, GotoFulfils

LEMMA InitCloseNewFulfils ==
  ASSUME IInv, NEW t \in Threads, NEW s \in Sockets, pc[t].s = s, InitCloseNew(t)
  PROVE  Contract(t, s)
<1>. DEFINE b == newsockfd[s]
<1>1. /\ pc[t].at = "initNew" /\ CloseFd(s, b) /\ Goto(t, "initSock", s, pc[t].then)
      /\ sockfd' = sockfd /\ newsockfd' = newsockfd /\ connected' = connected
      /\ tries' = tries /\ UNCHANGED flagVars
      /\ turn' = turn /\ count' = count /\ shared' = shared
  BY DEF InitCloseNew, At
<1>2. TypeOK /\ b \in Numbers /\ pc[t].then \in Then /\ sockfd[s] \in Numbers
  BY Typed DEF IInv
<1>3. /\ pc[t].at \in Inside
      /\ "initSock" \in Inside /\ "initSock" \in HalfWay /\ "initSock" \in InitLabels
  BY <1>1 DEF Inside, HalfWay, InitLabels
<1>4. pc[t].then = "connect" => t = "socket" /\ protocol[s] = "client"
  BY DEF IInv, Connecting
<1>5. Trusted(s) => OthersAway(t, s) /\ (Orderly(s) \/ LeftByServer(s))
  BY <1>1, <1>3, InsideAlone DEF MethodOf
<1>7. wrong = {} /\ s \notin shared' /\ protocol[s] # "client" => b = NoFd \/ owner[b] \in {s, NoOne}
  BY <1>1, <1>5 DEF Trusted, Orderly, LeftByServer
<1>. HIDE DEF b
<1>8. /\ owner' \in [Fds -> Sockets \cup {Other, NoOne}] /\ wrong' \subseteq Sockets
      /\ Blamed(s)
      /\ \A f \in Fds : \/ owner'[f] = owner[f] \/ wrong' # {}
                        \/ owner[f] \in {s, NoOne} /\ owner'[f] \in {s, NoOne}
      /\ \A f \in Fds : /\ f # b => owner'[f] = owner[f]
                        /\ f = b => owner'[f] = NoOne
      /\ Trusted(s)' => Trusted(s)
  BY <1>1, <1>2, <1>7, CloseFulfils
<1>9. FlagTypes' /\ protocol' = protocol /\ table' = table
  BY <1>1, <1>2, TypesSplit DEF flagVars, FlagTypes
<1>10. DataTypes'
  BY <1>1, <1>2, <1>8, TypesSplit DEF DataTypes
<1>11. Footprint(t, s)
  BY <1>1, <1>8, <1>10 DEF Footprint
<1>12. Orderly(s) \/ LeftByServer(s) => HalfClosed(s)'
  <2>. SUFFICES ASSUME Orderly(s) \/ LeftByServer(s) PROVE HalfClosed(s)'
    OBVIOUS
  <2>1. \A f \in Fds : owner'[f] = s => f = sockfd[s]
    BY <1>2, <1>8, Constants DEF Orderly, LeftByServer, b
  <2>2. protocol[s] # "client" /\ sockfd[s] # NoFd => owner'[sockfd[s]] = s
    <3>1. sockfd[s] # NoFd => owner[sockfd[s]] = s /\ sockfd[s] \in Fds
      BY <1>2 DEF Orderly, LeftByServer, Numbers
    <3>2. protocol[s] # "client" /\ sockfd[s] # NoFd => sockfd[s] # b
      BY DEF Orderly, LeftByServer, b
    <3>. QED BY <1>8, <3>1, <3>2
  <2>. QED BY <1>1, <1>9, <2>1, <2>2 DEF HalfClosed
<1>. QED BY <1>1, <1>2, <1>3, <1>4, <1>5, <1>8, <1>9, <1>11, <1>12, GotoFulfils

(* The numbers are forgotten once both are closed.                           *)
LEMMA InitCloseSockFulfils ==
  ASSUME IInv, NEW t \in Threads, NEW s \in Sockets, pc[t].s = s, InitCloseSock(t)
  PROVE  Contract(t, s)
<1>. DEFINE a == sockfd[s]
<1>1. /\ pc[t].at = "initSock" /\ CloseFd(s, a)
      /\ sockfd' = [sockfd EXCEPT ![s] = NoFd] /\ newsockfd' = [newsockfd EXCEPT ![s] = NoFd]
      /\ connected' = [connected EXCEPT ![s] = FALSE] /\ tries' = [tries EXCEPT ![s] = 0]
      /\ turn' = turn /\ count' = count /\ shared' = shared
  BY DEF InitCloseSock, At
<1>2. /\ TypeOK /\ a \in Numbers /\ pc[t].then \in Then
      /\ NoFd \in Numbers /\ 0 \in 0..(MaxConTries + 1)
  BY Typed, SocketAssumption DEF IInv, Numbers
<1>3. /\ pc[t].at \in Inside /\ pc[t].at \in HalfWay
      /\ "open" \in Inside /\ "open" \notin HalfWay /\ "open" \in InitLabels
  BY <1>1 DEF Inside, HalfWay, InitLabels
<1>4. pc[t].then = "connect" => t = "socket" /\ protocol[s] = "client"
  BY DEF IInv, Connecting
<1>5. Trusted(s) => OthersAway(t, s) /\ HalfClosed(s)
  BY <1>3, InsideAlone DEF MethodOf
<1>6. wrong = {} /\ s \notin shared' /\ protocol[s] # "client" => a = NoFd \/ owner[a] \in {s, NoOne}
  BY <1>1, <1>5 DEF Trusted, HalfClosed
<1>. HIDE DEF a
<1>7. /\ owner' \in [Fds -> Sockets \cup {Other, NoOne}] /\ wrong' \subseteq Sockets
      /\ Blamed(s)
      /\ \A f \in Fds : \/ owner'[f] = owner[f] \/ wrong' # {}
                        \/ owner[f] \in {s, NoOne} /\ owner'[f] \in {s, NoOne}
      /\ \A f \in Fds : /\ f # a => owner'[f] = owner[f]
                        /\ f = a => owner'[f] = NoOne
      /\ Trusted(s)' => Trusted(s)
  BY <1>1, <1>2, <1>6, CloseFulfils
<1>8. /\ sockfd' \in [Sockets -> Numbers] /\ newsockfd' \in [Sockets -> Numbers]
      /\ connected' \in [Sockets -> BOOLEAN] /\ tries' \in [Sockets -> 0..(MaxConTries + 1)]
      /\ sockfd'[s] = NoFd /\ newsockfd'[s] = NoFd /\ ~connected'[s] /\ tries'[s] = 0
      /\ \A x \in Sockets \ {s} :
           /\ sockfd'[x] = sockfd[x] /\ newsockfd'[x] = newsockfd[x]
           /\ connected'[x] = connected[x] /\ tries'[x] = tries[x]
  BY <1>1, <1>2, TypesSplit DEF DataTypes
<1>9. DataTypes'
  BY <1>1, <1>2, <1>7, <1>8, TypesSplit DEF DataTypes
<1>10. Footprint(t, s)
  BY <1>1, <1>7, <1>8, <1>9 DEF Footprint
<1>11. HalfClosed(s) => Orderly(s)'
  BY <1>7, <1>8, Constants DEF HalfClosed, Orderly, a
<1>12. CASE /\ Goto(t, "open", s, pc[t].then) /\ ported' = [ported EXCEPT ![s] = TRUE]
            /\ UNCHANGED <<bound, force, active, deconstruct, table, protocol>>
  <2>1. FlagTypes' /\ protocol' = protocol /\ table' = table
    BY <1>2, <1>12, TypesSplit DEF FlagTypes
  <2>. QED BY <1>2, <1>3, <1>4, <1>5, <1>7, <1>8, <1>10, <1>11, <1>12, <2>1, GotoFulfils
<1>13. CASE Return(t, s, pc[t].then)
  BY <1>2, <1>4, <1>5, <1>7, <1>8, <1>10, <1>11, <1>13, ReturnFulfils
<1>. QED BY <1>12, <1>13 DEF InitCloseSock

LEMMA OpenSocketFulfils ==
  ASSUME IInv, NEW t \in Threads, NEW s \in Sockets, pc[t].s = s, OpenSocket(t)
  PROVE  Contract(t, s)
<1>. DEFINE f == LowestFree
<1>1. /\ pc[t].at = "open" /\ FreeFds # {}
      /\ owner' = [owner EXCEPT ![f] = s] /\ sockfd' = [sockfd EXCEPT ![s] = f]
      /\ Goto(t, "bind", s, pc[t].then)
      /\ newsockfd' = newsockfd /\ connected' = connected /\ tries' = tries
      /\ UNCHANGED flagVars /\ turn' = turn /\ count' = count
      /\ shared' = shared /\ wrong' = wrong
  BY DEF OpenSocket, At, history
<1>2. f \in Fds /\ owner[f] = NoOne
  BY <1>1, LowestFreeIsFree
<1>. HIDE DEF f
<1>3. TypeOK /\ pc[t].then \in Then /\ f \in Numbers /\ f # NoFd
  BY <1>2, Typed, Constants DEF IInv, Numbers
<1>4. /\ pc[t].at \in Inside /\ pc[t].at \notin Closing
      /\ "bind" \in Inside /\ "bind" \notin HalfWay /\ "bind" \in InitLabels
  BY <1>1 DEF Inside, Closing, HalfWay, InitLabels
<1>5. pc[t].then = "connect" => t = "socket" /\ protocol[s] = "client" /\ tries[s] = 0
  BY <1>1 DEF IInv, Connecting
<1>6. Trusted(s) => /\ OthersAway(t, s) /\ Orderly(s) /\ sockfd[s] = NoFd
                    /\ newsockfd[s] = NoFd /\ ~connected[s]
  BY <1>1, <1>4, InsideAlone DEF MethodOf
<1>7. /\ owner' \in [Fds -> Sockets \cup {Other, NoOne}] /\ sockfd' \in [Sockets -> Numbers]
      /\ owner'[f] = s /\ \A g \in Fds \ {f} : owner'[g] = owner[g]
      /\ sockfd'[s] = f /\ \A x \in Sockets \ {s} : sockfd'[x] = sockfd[x]
  BY <1>1, <1>2, <1>3, TypesSplit DEF DataTypes
<1>8. FlagTypes' /\ protocol' = protocol /\ table' = table
  BY <1>1, <1>3, TypesSplit DEF flagVars, FlagTypes
<1>9. DataTypes'
  BY <1>1, <1>3, <1>7, TypesSplit DEF DataTypes
<1>11. Footprint(t, s)
  BY <1>1, <1>2, <1>7, <1>9 DEF Footprint, Blamed
<1>12. Orderly(s) /\ sockfd[s] = NoFd /\ newsockfd[s] = NoFd /\ ~connected[s] => Orderly(s)'
  BY <1>1, <1>3, <1>7, Constants DEF Orderly
<1>13. Trusted(s)' => Trusted(s)
  BY <1>1 DEF Trusted
<1>. QED BY <1>1, <1>3, <1>4, <1>5, <1>6, <1>8, <1>11, <1>12, <1>13, GotoFulfils

LEMMA CannotOpenFulfils ==
  ASSUME IInv, NEW t \in Threads, NEW s \in Sockets, pc[t].s = s, CannotOpen(t)
  PROVE  Contract(t, s)
<1>1. /\ pc[t].at = "open" /\ sockfd' = [sockfd EXCEPT ![s] = NoFd]
      /\ Return(t, s, pc[t].then) /\ owner' = owner
      /\ newsockfd' = newsockfd /\ connected' = connected /\ tries' = tries
      /\ turn' = turn /\ count' = count /\ shared' = shared /\ wrong' = wrong
  BY DEF CannotOpen, At, history
<1>2. TypeOK /\ pc[t].then \in Then /\ NoFd \in Numbers
  BY Typed DEF IInv, Numbers
<1>3. pc[t].at \in Inside /\ pc[t].at \notin Closing
  BY <1>1 DEF Inside, Closing, HalfWay
<1>4. pc[t].then = "connect" => t = "socket" /\ protocol[s] = "client" /\ tries[s] = 0
  BY <1>1 DEF IInv, Connecting
<1>5. Trusted(s) => /\ OthersAway(t, s) /\ Orderly(s) /\ sockfd[s] = NoFd
                    /\ newsockfd[s] = NoFd /\ ~connected[s]
  BY <1>1, <1>3, InsideAlone DEF MethodOf
<1>6. /\ sockfd' \in [Sockets -> Numbers] /\ sockfd'[s] = NoFd
      /\ \A x \in Sockets \ {s} : sockfd'[x] = sockfd[x]
  BY <1>1, <1>2, TypesSplit DEF DataTypes
<1>7. DataTypes'
  BY <1>1, <1>2, <1>6, TypesSplit DEF DataTypes
<1>9. Footprint(t, s)
  BY <1>1, <1>6, <1>7 DEF Footprint, Blamed
<1>10. Orderly(s) /\ sockfd[s] = NoFd /\ newsockfd[s] = NoFd /\ ~connected[s] => Orderly(s)'
  BY <1>1, <1>6 DEF Orderly
<1>11. Trusted(s)' => Trusted(s)
  BY <1>1 DEF Trusted
<1>. QED BY <1>1, <1>2, <1>4, <1>5, <1>9, <1>10, <1>11, ReturnFulfils

LEMMA BindSocketFulfils ==
  ASSUME IInv, NEW t \in Threads, NEW s \in Sockets, pc[t].s = s, BindSocket(t)
  PROVE  Contract(t, s)
<1>1. /\ pc[t].at = "bind" /\ Return(t, s, pc[t].then)
      /\ owner' = owner /\ sockfd' = sockfd /\ newsockfd' = newsockfd
      /\ connected' = connected /\ tries' = tries
      /\ turn' = turn /\ count' = count /\ shared' = shared /\ wrong' = wrong
  BY DEF BindSocket, At, history, fdVars
<1>2. TypeOK /\ pc[t].then \in Then
  BY Typed DEF IInv
<1>3. pc[t].at \in Inside /\ pc[t].at \notin Closing
  BY <1>1 DEF Inside, Closing, HalfWay
<1>4. pc[t].then = "connect" => t = "socket" /\ protocol[s] = "client" /\ tries[s] = 0
  BY <1>1 DEF IInv, Connecting
<1>5. Trusted(s) => OthersAway(t, s) /\ Orderly(s) /\ newsockfd[s] = NoFd /\ ~connected[s]
  BY <1>1, <1>3, InsideAlone DEF MethodOf
<1>6. DataTypes'
  BY <1>1, <1>2, TypesSplit DEF DataTypes
<1>8. Footprint(t, s)
  BY <1>1, <1>6 DEF Footprint, Blamed
<1>9. protocol' = protocol /\ table' = table
  BY <1>1, <1>2, ReturnReturns
<1>10. Orderly(s) => Orderly(s)'
  BY <1>1, <1>9 DEF Orderly, WriteFd
<1>11. Trusted(s)' => Trusted(s)
  BY <1>1 DEF Trusted
<1>. QED BY <1>1, <1>2, <1>4, <1>5, <1>8, <1>10, <1>11, ReturnFulfils

LEMMA CannotBindFulfils ==
  ASSUME IInv, NEW t \in Threads, NEW s \in Sockets, pc[t].s = s, CannotBind(t)
  PROVE  Contract(t, s)
<1>. DEFINE a == sockfd[s]
<1>1. /\ pc[t].at = "bind" /\ CloseFd(s, a) /\ Return(t, s, pc[t].then)
      /\ sockfd' = [sockfd EXCEPT ![s] = NoFd] /\ newsockfd' = newsockfd
      /\ connected' = connected /\ tries' = tries
      /\ turn' = turn /\ count' = count /\ shared' = shared
  BY DEF CannotBind, At
<1>2. TypeOK /\ pc[t].then \in Then /\ a \in Numbers /\ NoFd \in Numbers
  BY Typed DEF IInv, Numbers
<1>3. pc[t].at \in Inside /\ pc[t].at \notin Closing
  BY <1>1 DEF Inside, Closing, HalfWay
<1>4. pc[t].then = "connect" => t = "socket" /\ protocol[s] = "client" /\ tries[s] = 0
  BY <1>1 DEF IInv, Connecting
<1>5. Trusted(s) => OthersAway(t, s) /\ Orderly(s) /\ newsockfd[s] = NoFd /\ ~connected[s]
  BY <1>1, <1>3, InsideAlone DEF MethodOf
<1>6. wrong = {} /\ s \notin shared' /\ protocol[s] # "client" => a = NoFd \/ owner[a] \in {s, NoOne}
  BY <1>1, <1>5 DEF Trusted, Orderly
<1>. HIDE DEF a
<1>7. /\ owner' \in [Fds -> Sockets \cup {Other, NoOne}] /\ wrong' \subseteq Sockets
      /\ Blamed(s)
      /\ \A f \in Fds : \/ owner'[f] = owner[f] \/ wrong' # {}
                        \/ owner[f] \in {s, NoOne} /\ owner'[f] \in {s, NoOne}
      /\ \A f \in Fds : /\ f # a => owner'[f] = owner[f]
                        /\ f = a => owner'[f] = NoOne
      /\ Trusted(s)' => Trusted(s)
  BY <1>1, <1>2, <1>6, CloseFulfils
<1>8. /\ sockfd' \in [Sockets -> Numbers] /\ sockfd'[s] = NoFd
      /\ \A x \in Sockets \ {s} : sockfd'[x] = sockfd[x]
  BY <1>1, <1>2, TypesSplit DEF DataTypes
<1>9. DataTypes'
  BY <1>1, <1>2, <1>7, <1>8, TypesSplit DEF DataTypes
<1>11. Footprint(t, s)
  BY <1>1, <1>7, <1>8, <1>9 DEF Footprint
<1>12. Orderly(s) /\ newsockfd[s] = NoFd /\ ~connected[s] => Orderly(s)'
  BY <1>1, <1>7, <1>8, Constants DEF Orderly, a
<1>. QED BY <1>1, <1>2, <1>4, <1>5, <1>7, <1>11, <1>12, ReturnFulfils

(* One of the methods' steps, by any of the threads.                         *)
LEMMA ThreadStepFulfils ==
  ASSUME IInv, NEW t \in Threads, ThreadStep(t)
  PROVE  \E s \in Sockets : Contract(t, s)
<1>1. PICK s \in Sockets : pc[t].s = s
  BY Typed DEF IInv
<1>2. Contract(t, s)
  BY <1>1, CloseNewFulfils, CloseSockFulfils, InitCloseNewFulfils, InitCloseSockFulfils,
     OpenSocketFulfils, CannotOpenFulfils, BindSocketFulfils, CannotBindFulfils DEF ThreadStep
<1>. QED BY <1>2

--------------------------------------------------------------------------------
(* A pass of the Socket thread over one socket.                              *)

LEMMA ServeBegins ==
  ASSUME TypeOK, Begin
  PROVE  /\ pc["socket"].at = "idle" /\ "socket" \in Threads /\ turn \in Sockets
         /\ turn' \in Sockets
BY Constants DEF Begin, At, Threads, TypeOK

LEMMA EnteredIdle ==
  ASSUME IInv, NEW t \in Threads, NEW s \in Sockets, pc[t].at \notin Inside, Enter(t, s), Blamed(s)
  PROVE  /\ shared \subseteq shared' /\ shared' \subseteq Sockets
         /\ s \notin shared' /\ wrong = {} => Trusted(s) /\ OthersAway(t, s) /\ Orderly(s)
         /\ Trusted(s)' => Trusted(s) /\ s \notin shared' /\ wrong = {} 
<1>1. /\ shared \subseteq shared' /\ shared' \subseteq Sockets
      /\ s \notin shared' => OthersAway(t, s)
  BY EnterShares DEF IInv
<1>2. Trusted(s)' => Trusted(s) /\ s \notin shared' /\ wrong = {}
  BY <1>1 DEF Trusted, Blamed
<1>3. pc[t].at \notin Closing
  BY DEF Inside, Closing, HalfWay
<1>4. s \notin shared' /\ wrong = {} => Trusted(s)
  BY <1>1 DEF Trusted
<1>. QED BY <1>1, <1>2, <1>3, <1>4, TrustedBefore DEF MethodOf

(* A step taken at once, with the thread back where it was.                  *)
LEMMA AtOnceFulfils ==
  ASSUME IInv, NEW t \in Threads, NEW s \in Sockets, pc[t].at = "idle", pc' = pc,
         UNCHANGED flagVars, Footprint(t, s), Trusted(s)' => OthersAway(t, s) /\ Orderly(s)'
  PROVE  Contract(t, s)
<1>1. FlagTypes' /\ protocol' = protocol /\ table' = table /\ pc' \in [Threads -> Places]
  BY TypesSplit DEF IInv, flagVars, FlagTypes
<1>2. pc'[t].at = "idle" /\ pc'[t].at \notin Inside /\ pc'[t].at \notin Closing
  BY DEF Inside, Closing, HalfWay
<1>3. pc'[t].then # "connect"
  BY DEF IInv, Connecting
<1>4. Orderly(s)' => MethodOf(t, s)'
  BY <1>2 DEF MethodOf, Closing, HalfWay
<1>. QED BY <1>1, <1>2, <1>3, <1>4, Fulfils

LEMMA AcceptFulfils ==
  ASSUME IInv, NEW s \in Sockets, Accept(s)
  PROVE  Contract("socket", s)
<1>1. /\ Begin /\ protocol[s] = "server" /\ newsockfd[s] = NoFd
      /\ tries' = [tries EXCEPT ![s] = 0] /\ Enter("socket", s)
      /\ sockfd' = sockfd /\ connected' = connected /\ UNCHANGED flagVars
      /\ pc' = pc /\ count' = count /\ wrong' = wrong
      /\ \/ /\ FreeFds # {} /\ newsockfd' = [newsockfd EXCEPT ![s] = LowestFree]
            /\ owner' = [owner EXCEPT ![LowestFree] = s]
         \/ newsockfd' = newsockfd /\ owner' = owner
  BY DEF Accept, Serve
<1>2. TypeOK /\ NoFd \in Numbers /\ 0 \in 0..(MaxConTries + 1) /\ sockfd[s] \in Numbers
  BY Typed, SocketAssumption DEF IInv, Numbers
<1>3. /\ pc["socket"].at = "idle" /\ "socket" \in Threads /\ turn' \in Sockets
  BY <1>1, <1>2, ServeBegins
<1>4. /\ Blamed(s) /\ pc["socket"].at \notin Inside
  BY <1>1, <1>3 DEF Blamed, Inside
<1>5. /\ shared \subseteq shared' /\ shared' \subseteq Sockets
      /\ Trusted(s)' => OthersAway("socket", s) /\ Orderly(s)
  BY <1>1, <1>3, <1>4, EnteredIdle
<1>6. /\ tries' \in [Sockets -> 0..(MaxConTries + 1)] /\ tries'[s] = 0
      /\ \A x \in Sockets \ {s} : tries'[x] = tries[x]
  BY <1>1, <1>2 DEF TypeOK
<1>7. protocol' = protocol /\ table' = table
  BY <1>1 DEF flagVars
<1>8. CASE /\ FreeFds # {} /\ newsockfd' = [newsockfd EXCEPT ![s] = LowestFree]
           /\ owner' = [owner EXCEPT ![LowestFree] = s]
  <2>. DEFINE f == LowestFree
  <2>1. f \in Fds /\ owner[f] = NoOne
    BY <1>8, LowestFreeIsFree
  <2>2. newsockfd' = [newsockfd EXCEPT ![s] = f] /\ owner' = [owner EXCEPT ![f] = s]
    BY <1>8
  <2>. HIDE DEF f
  <2>3. f \in Numbers /\ f # NoFd
    BY <2>1, Constants DEF Numbers
  <2>4. /\ owner' \in [Fds -> Sockets \cup {Other, NoOne}] /\ newsockfd' \in [Sockets -> Numbers]
        /\ owner'[f] = s /\ \A g \in Fds \ {f} : owner'[g] = owner[g]
        /\ newsockfd'[s] = f /\ \A x \in Sockets \ {s} : newsockfd'[x] = newsockfd[x]
    BY <1>2, <2>1, <2>2, <2>3, TypesSplit DEF DataTypes
  <2>5. DataTypes'
    BY <1>1, <1>2, <1>3, <1>5, <1>6, <2>4, TypesSplit DEF DataTypes
  <2>6. Footprint("socket", s)
    BY <1>1, <1>4, <1>5, <1>6, <2>1, <2>4, <2>5 DEF Footprint
  <2>7. Orderly(s) => Orderly(s)'
    <3>. SUFFICES ASSUME Orderly(s) PROVE Orderly(s)'
      OBVIOUS
    <3>1. sockfd[s] # NoFd => owner[sockfd[s]] = s /\ sockfd[s] \in Fds /\ sockfd[s] # f
      BY <1>2, <2>1, Constants DEF Orderly, Numbers
    <3>2. ~connected[s]
      BY <1>1 DEF Orderly, WriteFd
    <3>. QED BY <1>1, <1>7, <2>4, <3>1, <3>2, Constants DEF Orderly
  <2>. QED BY <1>1, <1>3, <1>5, <2>6, <2>7, AtOnceFulfils
<1>9. CASE newsockfd' = newsockfd /\ owner' = owner
  <2>1. DataTypes'
    BY <1>1, <1>2, <1>3, <1>5, <1>6, <1>9, TypesSplit DEF DataTypes
  <2>2. Footprint("socket", s)
    BY <1>1, <1>4, <1>5, <1>6, <1>9, <2>1 DEF Footprint
  <2>3. Orderly(s) => Orderly(s)'
    BY <1>1, <1>7, <1>9 DEF Orderly, WriteFd
  <2>. QED BY <1>1, <1>3, <1>5, <2>2, <2>3, AtOnceFulfils
<1>. QED BY <1>1, <1>8, <1>9

(* connect: the number of the connection is the socket's own.                *)
LEMMA TryTries ==
  ASSUME IInv, NEW s \in Sockets, Try(s), tries[s] <= MaxConTries
  PROVE  /\ sockfd' \in [Sockets -> Numbers] /\ newsockfd' \in [Sockets -> Numbers]
         /\ tries' \in [Sockets -> 0..(MaxConTries + 1)]
         /\ \A x \in Sockets \ {s} : /\ sockfd'[x] = sockfd[x] /\ newsockfd'[x] = newsockfd[x]
                                     /\ tries'[x] = tries[x]
         /\ \/ sockfd'[s] = sockfd[s] /\ newsockfd'[s] \in {newsockfd[s], NoFd, sockfd[s]}
            \/ sockfd[s] # NoFd /\ owner[sockfd[s]] = NoOne
<1>1. /\ sockfd \in [Sockets -> Numbers] /\ newsockfd \in [Sockets -> Numbers]
      /\ tries \in [Sockets -> 0..(MaxConTries + 1)] /\ NoFd \in Numbers /\ sockfd[s] \in Numbers
  BY DEF IInv, TypeOK, Numbers
<1>2. 0 \in 0..(MaxConTries + 1) /\ tries[s] + 1 \in 0..(MaxConTries + 1)
  <2>1. tries[s] \in Nat /\ MaxConTries \in Nat
    BY <1>1, SocketAssumption
  <2>. QED BY <2>1
<1>3. CASE sockfd' = sockfd /\ newsockfd' = newsockfd /\ tries' = tries
  BY <1>1, <1>3
<1>4. CASE /\ newsockfd' = [newsockfd EXCEPT ![s] = sockfd[s]] /\ tries' = [tries EXCEPT ![s] = 0]
           /\ sockfd' = sockfd
  BY <1>1, <1>2, <1>4
<1>5. CASE /\ newsockfd' = [newsockfd EXCEPT ![s] = NoFd] /\ tries' = [tries EXCEPT ![s] = @ + 1]
           /\ sockfd' = sockfd
  BY <1>1, <1>2, <1>5
<1>6. CASE /\ sockfd[s] # NoFd /\ owner[sockfd[s]] = NoOne
           /\ sockfd' = [sockfd EXCEPT ![s] = NoFd] /\ newsockfd' = [newsockfd EXCEPT ![s] = NoFd]
           /\ tries' = [tries EXCEPT ![s] = @ + 1]
  BY <1>1, <1>2, <1>6
<1>. QED BY <1>3, <1>4, <1>5, <1>6 DEF Try

LEMMA TriedOrderly ==
  ASSUME NEW s \in Sockets, Orderly(s), newsockfd[s] = NoFd, protocol[s] = "client",
         owner' = owner, connected' = connected, protocol' = protocol /\ table' = table,
         \/ sockfd'[s] = sockfd[s] /\ newsockfd'[s] \in {NoFd, sockfd[s]}
         \/ sockfd[s] # NoFd /\ owner[sockfd[s]] = NoOne
  PROVE  Orderly(s)'
<1>1. ~connected[s]
  BY DEF Orderly, WriteFd
<1>2. s # NoOne /\ NoFd \notin Fds
  BY Constants
<1>. QED BY <1>1, <1>2 DEF Orderly

LEMMA ConnectClientFulfils ==
  ASSUME IInv, NEW s \in Sockets, ConnectClient(s)
  PROVE  Contract("socket", s)
<1>1. /\ Begin /\ protocol[s] = "client" /\ newsockfd[s] = NoFd
      /\ Enter("socket", s) /\ tries[s] <= MaxConTries /\ Try(s)
      /\ owner' = owner /\ connected' = connected /\ UNCHANGED flagVars
      /\ pc' = pc /\ count' = count /\ wrong' = wrong
  BY DEF ConnectClient, Serve, MayTry
<1>2. /\ pc["socket"].at = "idle" /\ "socket" \in Threads /\ turn' \in Sockets
  BY <1>1, ServeBegins DEF IInv
<1>3. /\ Blamed(s) /\ pc["socket"].at \notin Inside
  BY <1>1, <1>2 DEF Blamed, Inside
<1>4. /\ shared \subseteq shared' /\ shared' \subseteq Sockets
      /\ Trusted(s)' => OthersAway("socket", s) /\ Orderly(s)
  BY <1>1, <1>2, <1>3, EnteredIdle
<1>5. /\ sockfd' \in [Sockets -> Numbers] /\ newsockfd' \in [Sockets -> Numbers]
      /\ tries' \in [Sockets -> 0..(MaxConTries + 1)]
      /\ \A x \in Sockets \ {s} : /\ sockfd'[x] = sockfd[x] /\ newsockfd'[x] = newsockfd[x]
                                  /\ tries'[x] = tries[x]
      /\ \/ sockfd'[s] = sockfd[s] /\ newsockfd'[s] \in {newsockfd[s], NoFd, sockfd[s]}
         \/ sockfd[s] # NoFd /\ owner[sockfd[s]] = NoOne
  BY <1>1, TryTries
<1>6. DataTypes'
  BY <1>1, <1>2, <1>4, <1>5, TypesSplit DEF DataTypes, IInv
<1>7. Footprint("socket", s)
  BY <1>1, <1>3, <1>4, <1>5, <1>6 DEF Footprint
<1>8. protocol' = protocol /\ table' = table
  BY <1>1 DEF flagVars
<1>9. Orderly(s) => Orderly(s)'
  BY <1>1, <1>5, <1>8, TriedOrderly
<1>. QED BY <1>1, <1>2, <1>4, <1>7, <1>9, AtOnceFulfils

LEMMA ConnectAfterInitFulfils ==
  ASSUME IInv, NEW s \in Sockets, pc["socket"].s = s, ConnectAfterInit
  PROVE  Contract("socket", s)
<1>1. /\ pc["socket"].at = "connect" /\ Try(s) /\ Goto("socket", "idle", 1, "idle")
      /\ owner' = owner /\ connected' = connected /\ UNCHANGED flagVars
      /\ turn' = turn /\ count' = count /\ shared' = shared /\ wrong' = wrong
  BY DEF ConnectAfterInit, At, Idle, history
<1>2. "socket" \in Threads /\ TypeOK /\ 1 \in Sockets /\ "idle" \in Labels /\ "idle" \in Then
  BY Constants DEF IInv, Threads, Labels, Then
<1>3. tries[s] = 0 /\ protocol[s] = "client"
  BY <1>1, <1>2 DEF IInv, Connecting, At
<1>4. tries[s] <= MaxConTries
  BY <1>3, SocketAssumption
<1>5. pc["socket"].at \in Inside /\ pc["socket"].at \notin Closing
  BY <1>1 DEF Inside, Closing, HalfWay
<1>6. Trusted(s) => OthersAway("socket", s) /\ Orderly(s) /\ newsockfd[s] = NoFd
  BY <1>1, <1>2, <1>5, InsideAlone DEF MethodOf
<1>7. /\ sockfd' \in [Sockets -> Numbers] /\ newsockfd' \in [Sockets -> Numbers]
      /\ tries' \in [Sockets -> 0..(MaxConTries + 1)]
      /\ \A x \in Sockets \ {s} : /\ sockfd'[x] = sockfd[x] /\ newsockfd'[x] = newsockfd[x]
                                  /\ tries'[x] = tries[x]
      /\ \/ sockfd'[s] = sockfd[s] /\ newsockfd'[s] \in {newsockfd[s], NoFd, sockfd[s]}
         \/ sockfd[s] # NoFd /\ owner[sockfd[s]] = NoOne
  BY <1>1, <1>4, TryTries
<1>8. DataTypes'
  BY <1>1, <1>2, <1>7, TypesSplit DEF DataTypes
<1>9. FlagTypes' /\ protocol' = protocol /\ table' = table
  BY <1>1, <1>2, TypesSplit DEF flagVars, FlagTypes
<1>10. Footprint("socket", s)
  BY <1>1, <1>3, <1>7, <1>8 DEF Footprint, Blamed
<1>11. Orderly(s) /\ newsockfd[s] = NoFd => Orderly(s)'
  BY <1>1, <1>3, <1>7, <1>9, TriedOrderly
<1>12. /\ pc' \in [Threads -> Places] /\ pc'["socket"].at = "idle" /\ pc'["socket"].then = "idle"
       /\ \A u \in Threads \ {"socket"} : pc'[u] = pc[u]
  BY <1>1, <1>2, GotoGoes
<1>13. Orderly(s)' => MethodOf("socket", s)'
  BY <1>12 DEF MethodOf, Closing, HalfWay
<1>14. Trusted(s)' => Trusted(s)
  BY <1>1 DEF Trusted
<1>15. pc'["socket"].at \notin Inside
  BY <1>12 DEF Inside
<1>. QED BY <1>2, <1>6, <1>9, <1>10, <1>11, <1>12, <1>13, <1>14, <1>15, Fulfils

LEMMA DisconnectClientFulfils ==
  ASSUME IInv, NEW s \in Sockets, DisconnectClient(s)
  PROVE  Contract("socket", s)
<1>1. /\ Begin /\ Enter("socket", s) /\ UNCHANGED flagVars /\ pc' = pc /\ count' = count
      /\ connected' = [connected EXCEPT ![s] = FALSE] /\ tries' = [tries EXCEPT ![s] = 0]
      /\ \/ /\ protocol[s] = "server" /\ newsockfd[s] # NoFd /\ CloseFd(s, newsockfd[s])
            /\ newsockfd' = [newsockfd EXCEPT ![s] = NoFd] /\ sockfd' = sockfd
         \/ /\ protocol[s] = "client" /\ newsockfd[s] # NoFd /\ CloseFd(s, sockfd[s])
            /\ sockfd' = [sockfd EXCEPT ![s] = NoFd] /\ newsockfd' = newsockfd
         \/ /\ protocol[s] = "udprx" /\ owner' = owner /\ sockfd' = sockfd
            /\ newsockfd' = newsockfd /\ wrong' = wrong
  BY DEF DisconnectClient, Serve, ServerDisconnects, ClientDisconnects, fdVars
<1>2. /\ TypeOK /\ NoFd \in Numbers /\ 0 \in 0..(MaxConTries + 1)
      /\ sockfd[s] \in Numbers /\ newsockfd[s] \in Numbers
  BY Typed, SocketAssumption DEF IInv, Numbers
<1>3. /\ pc["socket"].at = "idle" /\ "socket" \in Threads /\ turn' \in Sockets
  BY <1>1, <1>2, ServeBegins
<1>4. pc["socket"].at \notin Inside
  BY <1>3 DEF Inside
<1>5. /\ connected' \in [Sockets -> BOOLEAN] /\ tries' \in [Sockets -> 0..(MaxConTries + 1)]
      /\ ~connected'[s] /\ tries'[s] = 0
      /\ \A x \in Sockets \ {s} : connected'[x] = connected[x] /\ tries'[x] = tries[x]
  BY <1>1, <1>2, TypesSplit DEF DataTypes
<1>6. protocol' = protocol /\ table' = table
  BY <1>1 DEF flagVars
<1>7. ASSUME NEW fd \in Numbers, CloseFd(s, fd),
             protocol[s] = "server" => fd = newsockfd[s] /\ newsockfd[s] # NoFd,
             protocol[s] \in {"server", "client"}
      PROVE  /\ owner' \in [Fds -> Sockets \cup {Other, NoOne}] /\ wrong' \subseteq Sockets
             /\ shared \subseteq shared' /\ shared' \subseteq Sockets /\ Blamed(s)
             /\ \A f \in Fds : \/ owner'[f] = owner[f] \/ wrong' # {}
                               \/ owner[f] \in {s, NoOne} /\ owner'[f] \in {s, NoOne}
             /\ \A f \in Fds : /\ f # fd => owner'[f] = owner[f]
                               /\ f = fd => owner'[f] = NoOne
             /\ Trusted(s)' => OthersAway("socket", s) /\ Orderly(s)
  <2>1. /\ shared \subseteq shared' /\ shared' \subseteq Sockets
        /\ s \notin shared' => OthersAway("socket", s)
    BY <1>1, <1>2, <1>3, EnterShares
  <2>2. s \notin shared' /\ wrong = {} => Orderly(s)
    <3>1. s \notin shared' /\ wrong = {} => Trusted(s)
      BY <2>1 DEF Trusted
    <3>2. pc["socket"].at \notin Closing
      BY <1>3 DEF Closing, HalfWay
    <3>. QED BY <1>3, <2>1, <3>1, <3>2, TrustedBefore DEF MethodOf
  <2>3. wrong = {} /\ s \notin shared' /\ protocol[s] # "client" => fd = NoFd \/ owner[fd] \in {s, NoOne}
    BY <1>7, <2>2 DEF Orderly
  <2>4. /\ owner' \in [Fds -> Sockets \cup {Other, NoOne}] /\ wrong' \subseteq Sockets
        /\ Blamed(s)
        /\ \A f \in Fds : \/ owner'[f] = owner[f] \/ wrong' # {}
                          \/ owner[f] \in {s, NoOne} /\ owner'[f] \in {s, NoOne}
        /\ \A f \in Fds : /\ f # fd => owner'[f] = owner[f]
                          /\ f = fd => owner'[f] = NoOne
        /\ Trusted(s)' => Trusted(s)
    BY <1>2, <1>7, <2>1, <2>3, CloseFulfils
  <2>5. Trusted(s)' => s \notin shared' /\ wrong = {}
    BY <2>4 DEF Trusted
  <2>. QED BY <2>1, <2>2, <2>4, <2>5
<1>8. CASE /\ protocol[s] = "server" /\ newsockfd[s] # NoFd /\ CloseFd(s, newsockfd[s])
           /\ newsockfd' = [newsockfd EXCEPT ![s] = NoFd] /\ sockfd' = sockfd
  <2>. DEFINE fd == newsockfd[s]
  <2>1. /\ owner' \in [Fds -> Sockets \cup {Other, NoOne}] /\ wrong' \subseteq Sockets
        /\ shared \subseteq shared' /\ shared' \subseteq Sockets /\ Blamed(s)
        /\ \A f \in Fds : \/ owner'[f] = owner[f] \/ wrong' # {}
                          \/ owner[f] \in {s, NoOne} /\ owner'[f] \in {s, NoOne}
        /\ \A f \in Fds : /\ f # fd => owner'[f] = owner[f]
                          /\ f = fd => owner'[f] = NoOne
        /\ Trusted(s)' => OthersAway("socket", s) /\ Orderly(s)
    BY <1>2, <1>7, <1>8
  <2>2. /\ newsockfd' \in [Sockets -> Numbers] /\ newsockfd'[s] = NoFd
        /\ \A x \in Sockets \ {s} : newsockfd'[x] = newsockfd[x]
    BY <1>2, <1>8, TypesSplit DEF DataTypes
  <2>3. DataTypes'
    BY <1>1, <1>2, <1>3, <1>5, <1>8, <2>1, <2>2, TypesSplit DEF DataTypes
  <2>4. Footprint("socket", s)
    BY <1>4, <1>5, <1>8, <2>1, <2>2, <2>3 DEF Footprint
  <2>5. Orderly(s) => Orderly(s)'
    <3>. SUFFICES ASSUME Orderly(s) PROVE Orderly(s)'
      OBVIOUS
    <3>1. sockfd[s] # NoFd => sockfd[s] \in Fds /\ sockfd[s] # fd /\ owner[sockfd[s]] = s
      BY <1>2, <1>8 DEF Orderly, Numbers
    <3>2. \A f \in Fds : owner'[f] = s => f = sockfd[s]
      BY <2>1, Constants DEF Orderly
    <3>. QED BY <1>5, <1>8, <2>1, <2>2, <3>1, <3>2 DEF Orderly
  <2>. QED BY <1>1, <1>3, <2>1, <2>4, <2>5, AtOnceFulfils
<1>9. CASE /\ protocol[s] = "client" /\ newsockfd[s] # NoFd /\ CloseFd(s, sockfd[s])
           /\ sockfd' = [sockfd EXCEPT ![s] = NoFd] /\ newsockfd' = newsockfd
  <2>. DEFINE fd == sockfd[s]
  <2>1. /\ owner' \in [Fds -> Sockets \cup {Other, NoOne}] /\ wrong' \subseteq Sockets
        /\ shared \subseteq shared' /\ shared' \subseteq Sockets /\ Blamed(s)
        /\ \A f \in Fds : \/ owner'[f] = owner[f] \/ wrong' # {}
                          \/ owner[f] \in {s, NoOne} /\ owner'[f] \in {s, NoOne}
        /\ \A f \in Fds : /\ f # fd => owner'[f] = owner[f]
                          /\ f = fd => owner'[f] = NoOne
        /\ Trusted(s)' => OthersAway("socket", s) /\ Orderly(s)
    BY <1>2, <1>7, <1>9
  <2>2. /\ sockfd' \in [Sockets -> Numbers] /\ sockfd'[s] = NoFd
        /\ \A x \in Sockets \ {s} : sockfd'[x] = sockfd[x]
    BY <1>2, <1>9, TypesSplit DEF DataTypes
  <2>3. DataTypes'
    BY <1>1, <1>2, <1>3, <1>5, <1>9, <2>1, <2>2, TypesSplit DEF DataTypes
  <2>4. Footprint("socket", s)
    BY <1>4, <1>5, <1>6, <1>9, <2>1, <2>2, <2>3 DEF Footprint
  <2>5. Orderly(s) => Orderly(s)'
    BY <1>5, <1>6, <1>9, <2>1, <2>2, Constants DEF Orderly
  <2>. QED BY <1>1, <1>3, <2>1, <2>4, <2>5, AtOnceFulfils
<1>10. CASE /\ owner' = owner /\ sockfd' = sockfd /\ newsockfd' = newsockfd /\ wrong' = wrong
  <2>1. Blamed(s)
    BY <1>10 DEF Blamed
  <2>2. /\ shared \subseteq shared' /\ shared' \subseteq Sockets
        /\ Trusted(s)' => OthersAway("socket", s) /\ Orderly(s)
    BY <1>1, <1>3, <1>4, <2>1, EnteredIdle
  <2>3. DataTypes'
    BY <1>1, <1>2, <1>3, <1>5, <1>10, <2>2, TypesSplit DEF DataTypes
  <2>4. Footprint("socket", s)
    BY <1>4, <1>5, <1>6, <1>10, <2>1, <2>2, <2>3 DEF Footprint
  <2>5. Orderly(s) => Orderly(s)'
    BY <1>5, <1>6, <1>10 DEF Orderly
  <2>. QED BY <1>1, <1>3, <2>2, <2>4, <2>5, AtOnceFulfils
<1>. QED BY <1>1, <1>8, <1>9, <1>10

LEMMA ReceiveFulfils ==
  ASSUME IInv, NEW s \in Sockets, Receive(s)
  PROVE  Contract("socket", s)
<1>1. /\ Begin /\ Usable(s) /\ Enter("socket", s)
      /\ protocol[s] \in {"server", "client"} => newsockfd[s] # NoFd
      /\ connected' = [connected EXCEPT ![s] = TRUE] /\ Goto("socket", "write", s, "idle")
      /\ owner' = owner /\ sockfd' = sockfd /\ newsockfd' = newsockfd /\ tries' = tries
      /\ UNCHANGED flagVars /\ count' = count /\ wrong' = wrong
  BY DEF Receive, Serve, fdVars
<1>2. TypeOK
  BY DEF IInv
<1>3. /\ pc["socket"].at = "idle" /\ "socket" \in Threads /\ turn' \in Sockets
  BY <1>1, <1>2, ServeBegins
<1>4. Blamed(s) /\ pc["socket"].at \notin Inside
  BY <1>1, <1>3 DEF Blamed, Inside
<1>5. /\ shared \subseteq shared' /\ shared' \subseteq Sockets
      /\ Trusted(s)' => OthersAway("socket", s) /\ Orderly(s)
  BY <1>1, <1>3, <1>4, EnteredIdle
<1>6. /\ connected' \in [Sockets -> BOOLEAN] /\ connected'[s]
      /\ \A x \in Sockets \ {s} : connected'[x] = connected[x]
  BY <1>1, <1>2, TypesSplit DEF DataTypes
<1>7. FlagTypes' /\ protocol' = protocol /\ table' = table
  BY <1>1, <1>2, TypesSplit DEF flagVars, FlagTypes
<1>8. DataTypes'
  BY <1>1, <1>2, <1>3, <1>5, <1>6, TypesSplit DEF DataTypes
<1>10. Footprint("socket", s)
  BY <1>1, <1>4, <1>5, <1>6, <1>8 DEF Footprint
<1>11. Orderly(s) => Orderly(s)'
  <2>. SUFFICES ASSUME Orderly(s) PROVE Orderly(s)'
    OBVIOUS
  <2>1. sockfd[s] # NoFd /\ owner[sockfd[s]] = s
    BY <1>1 DEF Usable, Orderly
  <2>2. protocol[s] \in Protocols
    BY <1>2, Typed
  <2>3. WriteFd(s) # NoFd /\ owner[WriteFd(s)] = s
    BY <1>1, <2>1, <2>2 DEF WriteFd, Orderly
  <2>. QED BY <1>1, <1>7, <2>3 DEF Orderly, WriteFd
<1>12. "write" \in Inside /\ "write" \notin HalfWay /\ "idle" \in Then
  BY DEF Inside, HalfWay, Then
<1>. QED BY <1>1, <1>3, <1>5, <1>6, <1>7, <1>10, <1>11, <1>12, GotoFulfils

(* The answer of the call that wrote.                                        *)
LEMMA WrittenFulfils ==
  ASSUME IInv, NEW s \in Sockets, pc["socket"].s = s, Written \/ NothingToWrite
  PROVE  Contract("socket", s)
<1>1. /\ pc["socket"].at = "write" /\ Goto("socket", "idle", 1, "idle")
      /\ connected' \in {connected, [connected EXCEPT ![s] = TRUE]}
      /\ owner' = owner /\ sockfd' = sockfd /\ newsockfd' = newsockfd /\ tries' = tries
      /\ UNCHANGED flagVars /\ turn' = turn /\ count' = count
      /\ shared' = shared /\ wrong' = wrong
  BY DEF Written, NothingToWrite, At, Idle, fdVars, history
<1>2. "socket" \in Threads /\ TypeOK /\ 1 \in Sockets /\ "idle" \in Labels /\ "idle" \in Then
  BY Constants DEF IInv, Threads, Labels, Then
<1>3. pc["socket"].at \in Inside /\ pc["socket"].at \notin Closing
  BY <1>1 DEF Inside, Closing, HalfWay
<1>4. Trusted(s) => OthersAway("socket", s) /\ Orderly(s) /\ connected[s]
  BY <1>1, <1>2, <1>3, InsideAlone DEF MethodOf
<1>5. /\ connected' \in [Sockets -> BOOLEAN] /\ connected[s] => connected'[s]
      /\ \A x \in Sockets \ {s} : connected'[x] = connected[x]
  BY <1>1, <1>2, TypesSplit DEF DataTypes
<1>6. FlagTypes' /\ protocol' = protocol /\ table' = table
  BY <1>1, <1>2, TypesSplit DEF flagVars, FlagTypes
<1>7. DataTypes'
  BY <1>1, <1>2, <1>5, TypesSplit DEF DataTypes
<1>9. Footprint("socket", s)
  BY <1>1, <1>5, <1>7 DEF Footprint, Blamed
<1>10. Orderly(s) /\ connected[s] => Orderly(s)'
  BY <1>1, <1>5, <1>6 DEF Orderly, WriteFd
<1>11. /\ pc' \in [Threads -> Places] /\ pc'["socket"].at = "idle" /\ pc'["socket"].then = "idle"
       /\ \A u \in Threads \ {"socket"} : pc'[u] = pc[u]
  BY <1>1, <1>2, GotoGoes
<1>12. Orderly(s)' => MethodOf("socket", s)'
  BY <1>11 DEF MethodOf, Closing, HalfWay
<1>13. Trusted(s)' => Trusted(s)
  BY <1>1 DEF Trusted
<1>14. pc'["socket"].at \notin Inside
  BY <1>11 DEF Inside
<1>. QED BY <1>2, <1>4, <1>6, <1>9, <1>10, <1>11, <1>12, <1>13, <1>14, Fulfils

(* The Comm thread configures the socket of a row, and initializes it.       *)
LEMMA SetPortFulfils ==
  ASSUME IInv, NEW s \in Sockets, pc["comm"].s = s, SetPort
  PROVE  Contract("comm", s)
<1>1. /\ pc["comm"].at = "setPort" /\ ported' = [ported EXCEPT ![s] = TRUE]
      /\ Goto("comm", "setProtocol", s, "idle") /\ Enter("comm", s)
      /\ owner' = owner /\ sockfd' = sockfd /\ newsockfd' = newsockfd /\ tries' = tries
      /\ connected' = connected /\ bound' = bound /\ force' = force /\ active' = active
      /\ deconstruct' = deconstruct /\ protocol' = protocol /\ table' = table
      /\ turn' = turn /\ count' = count /\ wrong' = wrong
  BY DEF SetPort, At, fdVars
<1>2. TypeOK /\ "comm" \in Threads /\ "idle" \in Then
  BY DEF IInv, Threads, Then
<1>3. Blamed(s) /\ pc["comm"].at \notin Inside
  BY <1>1 DEF Blamed, Inside
<1>4. /\ shared \subseteq shared' /\ shared' \subseteq Sockets
      /\ Trusted(s)' => OthersAway("comm", s) /\ Orderly(s)
  BY <1>1, <1>2, <1>3, EnteredIdle
<1>5. FlagTypes'
  BY <1>1, <1>2, TypesSplit DEF FlagTypes
<1>6. DataTypes'
  BY <1>1, <1>2, <1>4, TypesSplit DEF DataTypes
<1>7. Footprint("comm", s)
  BY <1>1, <1>3, <1>4, <1>6 DEF Footprint
<1>8. Orderly(s) => Orderly(s)'
  BY <1>1 DEF Orderly, WriteFd
<1>9. "setProtocol" \in Inside /\ "setProtocol" \notin HalfWay
  BY DEF Inside, HalfWay
<1>. QED BY <1>1, <1>2, <1>4, <1>5, <1>7, <1>8, <1>9, GotoFulfils

(* What the Socket thread opened as a server before the protocol was set is  *)
(* closed by initialize_socket under the new one.                            *)
LEMMA SetProtocolFulfils ==
  ASSUME IInv, NEW s \in Sockets, pc["comm"].s = s, SetProtocol
  PROVE  Contract("comm", s)
<1>1. /\ pc["comm"].at = "setProtocol" /\ protocol' = [protocol EXCEPT ![s] = table[s]]
      /\ Goto("comm", "initNew", s, "nextRow") /\ Enter("comm", s)
      /\ owner' = owner /\ sockfd' = sockfd /\ newsockfd' = newsockfd /\ tries' = tries
      /\ connected' = connected /\ bound' = bound /\ ported' = ported /\ force' = force
      /\ active' = active /\ deconstruct' = deconstruct /\ table' = table
      /\ turn' = turn /\ count' = count /\ wrong' = wrong
  BY DEF SetProtocol, At, fdVars
<1>2. /\ TypeOK /\ "comm" \in Threads /\ "comm" # "socket"
      /\ "nextRow" \in Then /\ "initNew" \in Labels
  BY DEF IInv, Threads, Then, Labels
<1>3. /\ pc' \in [Threads -> Places]
      /\ pc'["comm"].at = "initNew" /\ pc'["comm"].s = s /\ pc'["comm"].then = "nextRow"
      /\ \A u \in Threads \ {"comm"} : pc'[u] = pc[u]
  BY <1>1, <1>2, GotoGoes
<1>4. /\ shared \subseteq shared' /\ shared' \subseteq Sockets
      /\ s \notin shared' => OthersAway("comm", s)
  BY <1>1, <1>2, EnterShares
<1>5. Blamed(s) /\ Given(s)
  BY <1>1 DEF Blamed, Given
<1>6. protocol \in [Sockets -> Protocols] /\ table \in [Sockets -> Protocols]
  BY <1>2, Typed
<1>7. TypeOK'
  <2>1. DataTypes'
    BY <1>1, <1>2, <1>4, TypesSplit DEF DataTypes
  <2>2. FlagTypes'
    BY <1>1, <1>2, <1>6, TypesSplit DEF FlagTypes
  <2>. QED BY <1>3, <2>1, <2>2 DEF TypeOK, DataTypes, FlagTypes, Places, Numbers
<1>8. Local("comm", s)
  BY <1>1, <1>3, <1>4, WorkingIsInside DEF Local, Working
<1>9. Connecting'
  <2>. SUFFICES ASSUME NEW u \in Threads
       PROVE  /\ pc'[u].at = "connect" \/ pc'[u].then = "connect"
                   => u = "socket" /\ protocol'[pc'[u].s] = "client"
              /\ pc'[u].then = "connect" => pc'[u].at \in {"initNew", "initSock", "open", "bind"}
              /\ pc'[u].at = "connect" \/ (pc'[u].then = "connect" /\ pc'[u].at \in {"open", "bind"})
                   => tries'[pc'[u].s] = 0
    BY DEF Connecting, At
  <2>1. CASE u = "comm"
    BY <1>3, <2>1
  <2>2. CASE u # "comm"
    <3>1. pc'[u] = pc[u] /\ pc[u].s \in Sockets
      BY <1>2, <1>3, <2>2, Typed
    <3>2. /\ pc[u].at = "connect" \/ pc[u].then = "connect"
               => u = "socket" /\ protocol[pc[u].s] = "client"
          /\ pc[u].then = "connect" => pc[u].at \in {"initNew", "initSock", "open", "bind"}
          /\ pc[u].at = "connect" \/ (pc[u].then = "connect" /\ pc[u].at \in {"open", "bind"})
               => tries[pc[u].s] = 0
      BY DEF IInv, Connecting, At
    <3>3. \A x \in Sockets : protocol[x] = "client" => protocol'[x] = "client"
      BY <1>1, <1>6 DEF IInv, Loaded
    <3>. QED BY <1>1, <3>1, <3>2, <3>3
  <2>. QED BY <2>1, <2>2
<1>10. Trusted(s)' => OthersAway("comm", s) /\ Orderly(s)
  <2>1. Trusted(s)' => Trusted(s) /\ OthersAway("comm", s)
    BY <1>1, <1>4 DEF Trusted
  <2>2. pc["comm"].at \notin Closing
    BY <1>1 DEF Closing, HalfWay
  <2>. QED BY <1>2, <2>1, <2>2, TrustedBefore DEF MethodOf
<1>11. Orderly(s) => (Orderly(s) \/ LeftByServer(s))'
  <2>1. CASE protocol[s] = "server"
    BY <1>1, <2>1 DEF Orderly, LeftByServer
  <2>2. CASE protocol[s] = table[s]
    <3>1. protocol' = protocol
      BY <1>1, <1>6, <2>2
    <3>. QED BY <1>1, <3>1 DEF Orderly, WriteFd
  <2>. QED BY <2>1, <2>2 DEF IInv, Loaded
<1>12. Trusted(s)' => OthersAway("comm", s)' /\ MethodOf("comm", s)'
  <2>1. Trusted(s)' => OthersAway("comm", s)'
    BY <1>3, <1>10 DEF OthersAway, Working
  <2>. QED BY <1>3, <1>10, <1>11, <2>1 DEF MethodOf, Closing, HalfWay
<1>. QED BY <1>5, <1>7, <1>8, <1>9, <1>12 DEF Contract

(* A step on no socket.                                                      *)
LEMMA NothingFulfils ==
  ASSUME IInv, NEW t \in Threads,
         sockfd' = sockfd, newsockfd' = newsockfd, connected' = connected, tries' = tries,
         shared' = shared, wrong' = wrong, FlagTypes', protocol' = protocol /\ table' = table,
         turn' \in Sockets, count' \in 0..MaxEvents,
         owner' \in [Fds -> Sockets \cup {Other, NoOne}],
         \A f \in Fds : \/ owner'[f] = owner[f]
                        \/ owner[f] \in {Other, NoOne} /\ owner'[f] \in {Other, NoOne},
         pc' \in [Threads -> Places], \A u \in Threads \ {t} : pc'[u] = pc[u],
         \/ pc'[t] = pc[t]
         \/ pc[t].at \notin Inside /\ pc'[t].at \notin Inside /\ pc'[t].then = "idle"
  PROVE  Contract(t, Other)
<1>1. Local(t, Other)
  BY WorkingIsInside DEF Local, Working, Inside
<1>2. TypeOK'
  <2>1. DataTypes'
    BY TypesSplit DEF DataTypes, IInv
  <2>. QED BY <2>1 DEF TypeOK, DataTypes, FlagTypes, Places, Numbers
<1>3. Connecting'
  BY DEF IInv, Connecting, At, Inside
<1>4. Blamed(Other) /\ Given(Other) /\ Other \notin Sockets
  BY Constants DEF Blamed, Given
<1>. QED BY <1>1, <1>2, <1>3, <1>4 DEF Contract

--------------------------------------------------------------------------------
(* Every step fulfils its contract.                                          *)

LEMMA StillFulfils ==
  ASSUME IInv, UNCHANGED <<sockfd, newsockfd, connected, tries, shared, wrong, table, protocol, pc>>,
         FlagTypes', turn' \in Sockets, count' \in 0..MaxEvents,
         owner' \in [Fds -> Sockets \cup {Other, NoOne}],
         \A f \in Fds : \/ owner'[f] = owner[f]
                        \/ owner[f] \in {Other, NoOne} /\ owner'[f] \in {Other, NoOne}
  PROVE  Contract("socket", Other)
<1>1. pc' \in [Threads -> Places] /\ "socket" \in Threads
  BY TypesSplit DEF IInv, Threads
<1>. QED BY <1>1, NothingFulfils

LEMMA AsideFulfils ==
  ASSUME IInv, NEW t \in Threads, UNCHANGED <<sockfd, newsockfd, connected, tries, owner>>,
         shared' = shared, wrong' = wrong, FlagTypes', protocol' = protocol /\ table' = table, turn' = turn,
         count' \in 0..MaxEvents, NEW l \in Labels \ Inside, NEW s \in Sockets,
         pc[t].at \notin Inside, Goto(t, l, s, "idle")
  PROVE  Contract(t, Other)
<1>1. TypeOK /\ "idle" \in Then
  BY DEF IInv, Then
<1>2. /\ pc' \in [Threads -> Places] /\ pc'[t].at = l /\ pc'[t].then = "idle"
      /\ \A u \in Threads \ {t} : pc'[u] = pc[u]
  BY <1>1, GotoGoes
<1>3. owner' \in [Fds -> Sockets \cup {Other, NoOne}] /\ turn' \in Sockets
  BY <1>1 DEF TypeOK
<1>. QED BY <1>2, <1>3, NothingFulfils

LEMMA PassFulfils ==
  ASSUME IInv, Pass
  PROVE  \E s \in Sockets \cup {Other} : Contract("socket", s)
<1>. TypeOK /\ FlagTypes /\ "socket" \in Threads
  BY TypesSplit DEF IInv, Threads
<1>1. CASE SkipUnbound \/ \E s \in Sockets : NothingReceived(s)
  <2>1. /\ Begin /\ UNCHANGED <<owner, sockfd, newsockfd, connected, tries, pc, count, shared, wrong>>
        /\ UNCHANGED flagVars
    BY <1>1 DEF SkipUnbound, NothingReceived, Serve, fdVars, history
  <2>2. FlagTypes' /\ protocol' = protocol /\ table' = table /\ turn' \in Sockets
    BY <2>1, ServeBegins DEF flagVars, FlagTypes
  <2>3. count' \in 0..MaxEvents /\ owner' \in [Fds -> Sockets \cup {Other, NoOne}]
    BY <2>1 DEF TypeOK
  <2>. QED BY <2>1, <2>2, <2>3, StillFulfils
<1>2. ASSUME NEW s \in Sockets, NEW then \in Then \ {"connect"}, Begin, count' = count,
             DisconnectSocket("socket", s, then)
      PROVE  Contract("socket", s)
  <2>1. pc["socket"].at = "idle" /\ turn' \in Sockets
    BY <1>2, ServeBegins
  <2>2. count' \in 0..MaxEvents
    BY <1>2 DEF TypeOK
  <2>. QED BY <1>2, <2>1, <2>2, DisconnectFulfils
<1>3. ASSUME NEW s \in Sockets, NEW then \in Then, Begin, count' = count,
             InitializeSocket("socket", s, then), then = "connect" => protocol[s] = "client"
      PROVE  Contract("socket", s)
  <2>1. pc["socket"].at = "idle" /\ turn' \in Sockets
    BY <1>3, ServeBegins
  <2>2. count' \in 0..MaxEvents
    BY <1>3 DEF TypeOK
  <2>. QED BY <1>3, <2>1, <2>2, InitializeFulfils
<1>4. {"idle", "forced", "clear"} \subseteq Then \ {"connect"} /\ "connect" \in Then
  BY DEF Then
<1>5. CASE OffLine
  <2>1. PICK s \in Sockets : turn = s
    BY DEF TypeOK
  <2>2. Begin /\ count' = count /\ DisconnectSocket("socket", s, "idle")
    BY <1>5, <2>1 DEF OffLine
  <2>. QED BY <1>2, <1>4, <2>2
<1>6. PICK s \in Sockets : pc["socket"].s = s
  BY Typed
<1>7. CASE ConnectAfterInit
  BY <1>6, <1>7, ConnectAfterInitFulfils
<1>8. CASE Written \/ NothingToWrite
  BY <1>6, <1>8, WrittenFulfils
<1>9. CASE WriteFails
  <2>1. /\ pc["socket"].at = "write" /\ DisconnectSocket("socket", s, "idle")
        /\ turn' = turn /\ count' = count
    BY <1>6, <1>9 DEF WriteFails, At
  <2>2. turn' \in Sockets /\ count' \in 0..MaxEvents
    BY <2>1 DEF TypeOK
  <2>. QED BY <1>4, <1>6, <2>1, <2>2, DisconnectFulfils
<1>10. CASE DeconstructBegins
  <2>1. /\ pc["socket"].at = "idle" /\ Goto("socket", "deconstruct", 1, "idle")
        /\ UNCHANGED <<owner, sockfd, newsockfd, connected, tries, turn, count, shared, wrong>>
        /\ UNCHANGED flagVars
    BY <1>10 DEF DeconstructBegins, At, fdVars, history
  <2>2. FlagTypes' /\ protocol' = protocol /\ table' = table
    BY <2>1 DEF flagVars, FlagTypes
  <2>3. count' \in 0..MaxEvents
    BY <2>1 DEF TypeOK
  <2>4. /\ "deconstruct" \in Labels \ Inside /\ "idle" \notin Inside /\ 1 \in Sockets
    BY Constants DEF Labels, Inside
  <2>. QED BY <2>1, <2>2, <2>3, <2>4, AsideFulfils
<1>11. CASE DeconstructSocket
  <2>1. /\ pc["socket"].at = "deconstruct" /\ DisconnectSocket("socket", s, "clear")
        /\ turn' = turn /\ count' = count
    BY <1>6, <1>11 DEF DeconstructSocket, At
  <2>2. turn' \in Sockets /\ count' \in 0..MaxEvents
    BY <2>1 DEF TypeOK
  <2>. QED BY <1>4, <1>6, <2>1, <2>2, DisconnectFulfils
<1>12. ASSUME NEW x \in Sockets,
              \/ ForcedDisconnect(x) \/ NotInitialized(x) \/ BadDescriptor(x)
              \/ ListenFails(x) \/ TooManyTries(x)
       PROVE  Contract("socket", x)
  BY <1>2, <1>3, <1>4, <1>12
     DEF ForcedDisconnect, NotInitialized, BadDescriptor, ListenFails, TooManyTries, Serve
<1>13. ASSUME NEW x \in Sockets,
              Accept(x) \/ ConnectClient(x) \/ DisconnectClient(x) \/ Receive(x)
       PROVE  Contract("socket", x)
  BY <1>13, AcceptFulfils, ConnectClientFulfils, DisconnectClientFulfils, ReceiveFulfils
<1>. QED BY <1>1, <1>5, <1>6, <1>7, <1>8, <1>9, <1>10, <1>11, <1>12, <1>13 DEF Pass

LEMMA RestFulfils ==
  ASSUME IInv,
         \/ Deconstructed \/ BindDevice \/ SetPort \/ SetProtocol \/ Reload \/ Toggle \/ OtherOpens
         \/ \E s \in Sockets : DropSocket(s) \/ AskDisconnect(s)
         \/ \E f \in Fds : OtherCloses(f)
  PROVE  \E t \in Threads, s \in Sockets \cup {Other} : Contract(t, s)
<1>. TypeOK /\ FlagTypes /\ Threads = {"socket", "comm", "console"}
  BY TypesSplit DEF IInv, Threads
<1>0. PICK r \in Sockets : pc["comm"].s = r
  BY Typed, Constants DEF TypeOK
<1>1. owner \in [Fds -> Sockets \cup {Other, NoOne}] /\ turn \in Sockets /\ count \in 0..MaxEvents
  BY DEF TypeOK
<1>2. Event => count' \in 0..MaxEvents
  BY <1>1, SocketAssumption DEF Event
<1>3. /\ {"idle", "await", "configure", "setPort"} \subseteq Labels \ Inside /\ 1 \in Sockets
  BY Constants DEF Labels, Inside
<1>4. CASE Deconstructed
  <2>1. /\ pc["comm"].at = "await" /\ Goto("comm", "configure", 1, "idle")
        /\ UNCHANGED <<owner, sockfd, newsockfd, connected, tries, turn, count, shared, wrong>>
        /\ UNCHANGED flagVars
    BY <1>4 DEF Deconstructed, At, fdVars, history
  <2>2. FlagTypes' /\ protocol' = protocol /\ table' = table
    BY <2>1 DEF flagVars, FlagTypes
  <2>. QED BY <1>1, <1>3, <2>1, <2>2, AsideFulfils
<1>5. CASE BindDevice
  <2>1. /\ pc["comm"].at = "configure" /\ Goto("comm", "setPort", r, "idle")
        /\ UNCHANGED <<owner, sockfd, newsockfd, connected, tries, turn, count, shared, wrong>>
        /\ bound' = [bound EXCEPT ![r] = TRUE]
        /\ UNCHANGED <<ported, force, active, deconstruct, table, protocol>>
    BY <1>0, <1>5 DEF BindDevice, At, fdVars, history
  <2>2. FlagTypes'
    BY <2>1 DEF FlagTypes
  <2>. QED BY <1>1, <1>3, <2>1, <2>2, AsideFulfils
<1>6. CASE SetPort \/ SetProtocol
  BY <1>0, <1>6, SetPortFulfils, SetProtocolFulfils
<1>7. CASE Reload
  <2>1. /\ pc["comm"].at = "idle" /\ Goto("comm", "await", 1, "idle") /\ Event
        /\ UNCHANGED <<owner, sockfd, newsockfd, connected, tries, turn, shared, wrong>>
        /\ deconstruct' = TRUE
        /\ UNCHANGED <<ported, force, active, bound, table, protocol>>
    BY <1>7 DEF Reload, At, fdVars, history
  <2>2. FlagTypes'
    BY <2>1 DEF FlagTypes
  <2>. QED BY <1>2, <1>3, <2>1, <2>2, AsideFulfils
<1>8. CASE Toggle
  <2>1. /\ Event /\ active' = ~active
        /\ UNCHANGED <<owner, sockfd, newsockfd, connected, tries, turn, shared, wrong, pc>>
        /\ UNCHANGED <<ported, force, deconstruct, bound, table, protocol>>
    BY <1>8 DEF Toggle, fdVars, history
  <2>2. FlagTypes'
    BY <2>1 DEF FlagTypes
  <2>. QED BY <1>1, <1>2, <2>1, <2>2, StillFulfils
<1>9. CASE OtherOpens
  <2>. DEFINE f == LowestFree
  <2>1. /\ FreeFds # {} /\ owner' = [owner EXCEPT ![f] = Other]
        /\ UNCHANGED <<sockfd, newsockfd, connected, tries, turn, count, shared, wrong, pc>>
        /\ UNCHANGED flagVars
    BY <1>9 DEF OtherOpens, history
  <2>2. f \in Fds /\ owner[f] = NoOne
    BY <2>1, LowestFreeIsFree
  <2>. HIDE DEF f
  <2>3. FlagTypes' /\ protocol' = protocol /\ table' = table
    BY <2>1 DEF flagVars, FlagTypes
  <2>4. /\ owner' \in [Fds -> Sockets \cup {Other, NoOne}]
        /\ \A g \in Fds : \/ owner'[g] = owner[g]
                          \/ owner[g] \in {Other, NoOne} /\ owner'[g] \in {Other, NoOne}
    BY <1>1, <2>1, <2>2
  <2>. QED BY <1>1, <2>1, <2>3, <2>4, StillFulfils
<1>10. ASSUME NEW s \in Sockets, DropSocket(s)
       PROVE  Contract("console", s)
  <2>1. /\ pc["console"].at = "idle" /\ DisconnectSocket("console", s, "idle")
        /\ Event /\ turn' = turn
    BY <1>10 DEF DropSocket, At
  <2>2. "idle" \in Then \ {"connect"}
    BY DEF Then
  <2>. QED BY <1>1, <1>2, <2>1, <2>2, DisconnectFulfils
<1>11. ASSUME NEW s \in Sockets, AskDisconnect(s)
       PROVE  Contract("socket", Other)
  <2>1. /\ Event /\ force' = [force EXCEPT ![s] = TRUE]
        /\ UNCHANGED <<owner, sockfd, newsockfd, connected, tries, turn, shared, wrong, pc>>
        /\ UNCHANGED <<ported, active, deconstruct, bound, table, protocol>>
    BY <1>11 DEF AskDisconnect, fdVars, history
  <2>2. FlagTypes'
    BY <2>1 DEF FlagTypes
  <2>. QED BY <1>1, <1>2, <2>1, <2>2, StillFulfils
<1>12. ASSUME NEW f \in Fds, OtherCloses(f)
       PROVE  Contract("socket", Other)
  <2>1. /\ owner[f] = Other /\ owner' = [owner EXCEPT ![f] = NoOne]
        /\ UNCHANGED <<sockfd, newsockfd, connected, tries, turn, count, shared, wrong, pc>>
        /\ UNCHANGED flagVars
    BY <1>12 DEF OtherCloses, history
  <2>2. FlagTypes' /\ protocol' = protocol /\ table' = table
    BY <2>1 DEF flagVars, FlagTypes
  <2>3. /\ owner' \in [Fds -> Sockets \cup {Other, NoOne}]
        /\ \A g \in Fds : \/ owner'[g] = owner[g]
                          \/ owner[g] \in {Other, NoOne} /\ owner'[g] \in {Other, NoOne}
    BY <1>1, <2>1
  <2>. QED BY <1>1, <2>1, <2>2, <2>3, StillFulfils
<1>. QED BY <1>4, <1>5, <1>6, <1>7, <1>8, <1>9, <1>10, <1>11, <1>12

LEMMA StartsWell == Init => IInv
<1>. SUFFICES ASSUME Init PROVE IInv
  OBVIOUS
<1>1. /\ owner = [f \in Fds |-> NoOne]
      /\ sockfd = [s \in Sockets |-> NoFd] /\ newsockfd = [s \in Sockets |-> NoFd]
      /\ connected = [s \in Sockets |-> FALSE] /\ tries = [s \in Sockets |-> 0]
      /\ turn = 1 /\ count = 0 /\ shared = {} /\ wrong = {}
      /\ table \in Tables /\ protocol = [s \in Sockets |-> "server"]
      /\ bound = [s \in Sockets |-> FALSE] /\ ported = [s \in Sockets |-> FALSE]
      /\ force = [s \in Sockets |-> FALSE] /\ active = TRUE /\ deconstruct = FALSE
  BY DEF Init
<1>2. pc = [t \in Threads |-> [at |-> IF t = "comm" THEN "configure" ELSE "idle",
                               s |-> 1, then |-> "idle"]]
  BY DEF Init
<1>3. \A t \in Threads : /\ pc[t].at \in {"configure", "idle"} /\ pc[t].then = "idle"
                         /\ pc[t] \in Places
  BY <1>2, Constants DEF Places, Labels, Then
<1>4. pc \in [Threads -> Places]
  BY <1>2, <1>3
<1>5. DataTypes
  BY <1>1, Constants, SocketAssumption DEF DataTypes, Numbers
<1>6. FlagTypes
  BY <1>1, Constants DEF FlagTypes
<1>7. TypeOK
  BY <1>1, <1>4, <1>5, <1>6, TypesSplit
<1>8. Connecting /\ Loaded /\ ForeignCloseExplained
  BY <1>1, <1>3 DEF Connecting, At, Loaded, ForeignCloseExplained
<1>9. ASSUME NEW s \in Sockets
      PROVE  Alone(s) /\ Method(s)
  <2>1. Alone(s)
    BY <1>3 DEF Alone, Working
  <2>2. Orderly(s)
    BY <1>1, Constants DEF Orderly
  <2>3. Method(s)
    BY <1>3, <2>2 DEF Method, Closing, HalfWay
  <2>. QED BY <2>1, <2>3
<1>. QED BY <1>7, <1>8, <1>9 DEF IInv

LEMMA StepsKeep == IInv /\ [Next]_vars => IInv'
<1>1. ASSUME IInv, Next
      PROVE  \E t \in Threads, s \in Sockets \cup {Other} : Contract(t, s)
  <2>1. Threads = {"socket", "comm", "console"}
    BY DEF Threads
  <2>. QED BY <1>1, <2>1, PassFulfils, ThreadStepFulfils, RestFulfils
           DEF Next, SocketThread, CommThread, ConsoleThread
<1>2. ASSUME IInv, UNCHANGED vars
      PROVE  IInv'
  <2>1. TypeOK /\ FlagTypes
    BY <1>2, TypesSplit DEF IInv
  <2>2. UNCHANGED <<owner, sockfd, newsockfd, connected, tries, shared, wrong, table, protocol, pc>>
    BY <1>2 DEF vars
  <2>3. FlagTypes' /\ turn' \in Sockets /\ count' \in 0..MaxEvents
    BY <1>2, <2>1 DEF vars, FlagTypes, TypeOK
  <2>4. owner' \in [Fds -> Sockets \cup {Other, NoOne}]
    BY <2>1, <2>2 DEF TypeOK
  <2>5. Contract("socket", Other) /\ "socket" \in Threads
    BY <1>2, <2>2, <2>3, <2>4, StillFulfils DEF Threads
  <2>. QED BY <1>2, <2>5, ContractKeepsInvariant
<1>. QED BY <1>1, <1>2, ContractKeepsInvariant

--------------------------------------------------------------------------------
\* Each socket only one thread at a time has worked on knows what it owns, at
\* every point of every method, as long as no foreign descriptor was closed.
THEOREM Invariance == Spec => []IInv
BY StartsWell, StepsKeep, PTL DEF Spec

\* Every member keeps to its range, the tries of a client to one more than
\* MAXCONTRIES, though the three threads share the objects without a lock.
THEOREM TypeCorrectness == Spec => []TypeOK
<1>1. IInv => TypeOK
  BY DEF IInv
<1>. QED BY <1>1, Invariance, PTL

\* The first to close a descriptor of another owner is a client or a socket two
\* threads have worked on at once, for any number of sockets and descriptors.
THEOREM ForeignClosesAreExplained == Spec => []ForeignCloseExplained
<1>1. IInv => ForeignCloseExplained
  BY DEF IInv
<1>. QED BY <1>1, Invariance, PTL

LEMMA UndisturbedIsOrderly ==
  ASSUME IInv, NEW s \in Sockets, Undisturbed(s)
  PROVE  Orderly(s)
<1>1. Trusted(s) /\ \A t \in Threads : ~Working(t, s)
  BY DEF Undisturbed, Trusted, AtRest
<1>2. Method(s)
  BY <1>1 DEF IInv
<1>3. \A t \in Threads : pc[t].s = s => pc[t].at \notin Closing
  BY <1>1 DEF Working, Closing, HalfWay
<1>. QED BY <1>2, <1>3 DEF Method

\* A socket that only one thread at a time has worked on loses no descriptor,
\* however often it is dropped, initialized and connected again.
THEOREM NoDescriptorLeaks == Spec => []NothingLeaked
<1>1. IInv => NothingLeaked
  BY UndisturbedIsOrderly DEF NothingLeaked, Orderly
<1>. QED BY <1>1, Invariance, PTL

\* Between passes its numbers are descriptors it owns, and when it is said to be
\* connected it owns the one it writes to.
THEOREM NumbersInUseAreOwned == Spec => []HoldsWhatItUses
<1>1. IInv => HoldsWhatItUses
  BY UndisturbedIsOrderly DEF HoldsWhatItUses, Orderly
<1>. QED BY <1>1, Invariance, PTL
================================================================================

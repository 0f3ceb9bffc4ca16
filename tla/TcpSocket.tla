------------------------------- MODULE TcpSocket -------------------------------
(* The descriptors of the socket objects (tcpnet, TCPsocket.cpp).  The Socket *)
(* thread serves every bound socket in turn; the Comm thread binds and        *)
(* initializes them after a reload; a command drops them from the console's   *)
(* thread.  All three run the same methods on the same objects without a      *)
(* lock, and the process has one table of descriptors, in which a number that *)
(* was closed is given out again to whoever opens next: to another socket, or *)
(* to the rest of the program (database, logs, web server).                   *)
(*                                                                            *)
(* A step is one system call with the assignments that follow it: threads     *)
(* interleave there.  What the peer and the queue do is the outcome of a      *)
(* call; the data itself is in MessageFlow.                                   *)
EXTENDS Integers, FiniteSets

CONSTANTS N,            \* MAXSOCKETS, the sockets in use are 1..N
          Tables,       \* the device tables considered: the protocol of each socket
          NumFds,       \* descriptors the process may have
          Other,        \* the rest of the program, as an owner of descriptors
          NoOne,        \* owner of a free descriptor
          MaxConTries,  \* MAXCONTRIES
          MaxOther,     \* bound: descriptors the rest of the program holds
          MaxEvents     \* bound: drops, resets, reloads and changes of Me.IsActive

Sockets == 1..N
Fds == 1..NumFds
NoFd == -1
Protocols == {"server", "client", "udptx", "udprx"}

ASSUME SocketAssumption ==
  /\ N \in Nat \ {0} /\ NumFds \in Nat \ {0} /\ MaxConTries \in Nat
  /\ Tables # {} /\ Tables \subseteq [Sockets -> Protocols]
  /\ Other # NoOne /\ Other \notin Sockets /\ NoOne \notin Sockets
  /\ MaxOther \in Nat /\ MaxEvents \in Nat

VARIABLES
  owner,       \* the descriptor table: who opened each descriptor
  sockfd,      \* the descriptor each socket listens or sends on
  newsockfd,   \* the descriptor of the connection to the peer
  connected,   \* what the rest of the program is told of the connection
  tries,       \* client_tries
  bound,       \* myDevDesIndex >= 0
  ported,      \* portnum > 0
  force,       \* ForceClientDisconnect
  active,      \* Me.IsActive
  deconstruct, \* deconstructSockets
  table,       \* the protocol of each row; the table is the same at every load
  protocol,    \* of each socket object: pServer until its row was first loaded
  turn,        \* the socket the Socket thread serves next
  pc,          \* where each thread is: at, the socket, and what follows
  count,       \* events so far, for the bounds
  shared,      \* history: sockets two threads have worked on at once
  wrong        \* history: the first socket that closed another's descriptor

fdVars == <<owner, sockfd, newsockfd>>
flagVars == <<bound, ported, force, active, deconstruct, table, protocol>>
history == <<shared, wrong>>
vars == <<owner, sockfd, newsockfd, connected, tries, bound, ported, force,
          active, deconstruct, table, protocol, turn, pc, count, shared, wrong>>

Threads == {"socket", "comm", "console"}
Labels == {"idle", "closeNew", "closeSock", "initNew", "initSock", "open", "bind",
           "connect", "write", "deconstruct", "await", "configure", "setPort",
           "setProtocol"}
Then == {"idle", "connect", "forced", "clear", "nextRow"}

FreeFds == {f \in Fds : owner[f] = NoOne}
LowestFree == CHOOSE f \in FreeFds : \A g \in FreeFds : f <= g

Init ==
  /\ owner = [f \in Fds |-> NoOne]
  /\ sockfd = [s \in Sockets |-> NoFd] /\ newsockfd = [s \in Sockets |-> NoFd]
  /\ connected = [s \in Sockets |-> FALSE] /\ tries = [s \in Sockets |-> 0]
  /\ bound = [s \in Sockets |-> FALSE] /\ ported = [s \in Sockets |-> FALSE]
  /\ force = [s \in Sockets |-> FALSE]
  /\ table \in Tables /\ protocol = [s \in Sockets |-> "server"]
  /\ active = TRUE /\ deconstruct = FALSE /\ turn = 1
  /\ pc = [t \in Threads |-> [at |-> IF t = "comm" THEN "configure" ELSE "idle",
                              s |-> 1, then |-> "idle"]]
  /\ count = 0
  /\ shared = {} /\ wrong = {}

--------------------------------------------------------------------------------
(* Steps of a thread and the calls they make.                                 *)

At(t, label) == pc[t].at = label
Goto(t, label, s, then) == pc' = [pc EXCEPT ![t] = [at |-> label, s |-> s, then |-> then]]
Idle(t) == Goto(t, "idle", 1, "idle")

\* Thread t works on s: anyone else inside a method of s, or configuring it,
\* shares it from now on.
Working(u, s) ==
  pc[u].s = s /\ pc[u].at \in {"closeNew", "closeSock", "initNew", "initSock", "open",
                               "bind", "connect", "write", "setProtocol"}
Enter(t, s) ==
  shared' = shared \cup {x \in {s} : \E u \in Threads \ {t} : Working(u, s)}

\* close(fd) by a method of s; EBADF changes nothing.
CloseFd(s, fd) ==
  /\ owner' = IF fd = NoFd THEN owner ELSE [owner EXCEPT ![fd] = NoOne]
  /\ wrong' = wrong \cup {x \in {s} : wrong = {} /\ fd # NoFd /\ owner[fd] \notin {s, NoOne}}

\* What follows the method: the caller's next statements.
NextSocket(s) == (s % N) + 1
Return(t, s, then) ==
  \/ /\ then = "idle" /\ Idle(t)
     /\ UNCHANGED flagVars
  \/ /\ then = "connect" /\ Goto(t, "connect", s, "idle")
     /\ UNCHANGED flagVars
  \/ /\ then = "forced" /\ Idle(t)
     /\ force' = [force EXCEPT ![s] = FALSE]
     /\ UNCHANGED <<bound, ported, active, deconstruct, table, protocol>>
  \/ /\ then = "clear"
     /\ Goto(t, IF s = N THEN "idle" ELSE "deconstruct", NextSocket(s), "idle")
     /\ bound' = [bound EXCEPT ![s] = FALSE] /\ ported' = [ported EXCEPT ![s] = FALSE]
     /\ force' = [force EXCEPT ![s] = FALSE] /\ deconstruct' = (s # N)
     /\ UNCHANGED <<active, table, protocol>>
  \/ /\ then = "nextRow"
     /\ Goto(t, IF s = N THEN "idle" ELSE "configure", NextSocket(s), "idle")
     /\ UNCHANGED flagVars

\* The end of DisconnectSocket: both descriptors and the connection forgotten.
StillHeld(t, s, then) ==                       \* mutant: sockfd keeps its number
  /\ newsockfd' = [newsockfd EXCEPT ![s] = NoFd]
  /\ connected' = [connected EXCEPT ![s] = FALSE]
  /\ tries' = [tries EXCEPT ![s] = 0]
  /\ Return(t, s, then) /\ UNCHANGED sockfd
Forget(t, s, then) ==
  /\ sockfd' = [sockfd EXCEPT ![s] = NoFd] /\ newsockfd' = [newsockfd EXCEPT ![s] = NoFd]
  /\ connected' = [connected EXCEPT ![s] = FALSE]
  /\ tries' = [tries EXCEPT ![s] = 0]
  /\ Return(t, s, then)

\* DisconnectSocket: it sleeps between shutdown and close of the connection,
\* and again before it closes the socket; the members are read anew after it.
DisconnectSocket(t, s, then) ==
  /\ Enter(t, s) /\ UNCHANGED <<owner, wrong>>
  /\ \/ /\ newsockfd[s] # NoFd /\ Goto(t, "closeNew", s, then)
        /\ UNCHANGED <<sockfd, newsockfd, connected, tries, flagVars>>
     \/ /\ newsockfd[s] = NoFd /\ sockfd[s] # NoFd /\ Goto(t, "closeSock", s, then)
        /\ UNCHANGED <<sockfd, newsockfd, connected, tries, flagVars>>
     \/ /\ newsockfd[s] = NoFd /\ sockfd[s] = NoFd /\ Forget(t, s, then)

CloseNew(t) ==
  LET s == pc[t].s IN
  /\ At(t, "closeNew") /\ CloseFd(s, newsockfd[s])
  /\ \/ /\ sockfd[s] # NoFd /\ Goto(t, "closeSock", s, pc[t].then)
        /\ UNCHANGED <<sockfd, newsockfd, connected, tries, flagVars>>
     \/ sockfd[s] = NoFd /\ Forget(t, s, pc[t].then)
  /\ UNCHANGED <<turn, count, shared>>

CloseSock(t) ==
  LET s == pc[t].s IN
  /\ At(t, "closeSock") /\ CloseFd(s, sockfd[s])
  /\ Forget(t, s, pc[t].then)
  /\ UNCHANGED <<turn, count, shared>>

\* initialize_socket, from its first close to bind.
InitializeSocket(t, s, then) ==
  /\ Enter(t, s) /\ Goto(t, IF newsockfd[s] = NoFd THEN "initSock" ELSE "initNew", s, then)
  /\ UNCHANGED <<fdVars, connected, tries, flagVars, wrong>>

InitCloseNew(t) ==
  LET s == pc[t].s IN
  /\ At(t, "initNew") /\ CloseFd(s, newsockfd[s])
  /\ Goto(t, "initSock", s, pc[t].then)
  /\ UNCHANGED <<sockfd, newsockfd, connected, tries, flagVars, turn, count, shared>>

\* A client and a sender of datagrams take a free port, the others need their own.
FreePort(s) == protocol[s] \in {"client", "udptx"}

InitCloseSock(t) ==
  LET s == pc[t].s IN
  /\ At(t, "initSock") /\ CloseFd(s, sockfd[s])
  /\ sockfd' = [sockfd EXCEPT ![s] = NoFd] /\ newsockfd' = [newsockfd EXCEPT ![s] = NoFd]
  /\ connected' = [connected EXCEPT ![s] = FALSE] /\ tries' = [tries EXCEPT ![s] = 0]
  /\ \/ /\ ported[s] \/ FreePort(s)
        /\ Goto(t, "open", s, pc[t].then)
        /\ ported' = [ported EXCEPT ![s] = TRUE]
        /\ UNCHANGED <<bound, force, active, deconstruct, table, protocol>>
     \/ ~ported[s] /\ ~FreePort(s) /\ Return(t, s, pc[t].then)
  /\ UNCHANGED <<turn, count, shared>>

\* socket(), under socklock up to bind.
SockLocked(t) == \E u \in Threads \ {t} : At(u, "bind")
OpenSocket(t) ==
  LET s == pc[t].s IN
  /\ At(t, "open") /\ ~SockLocked(t) /\ FreeFds # {}
  /\ owner' = [owner EXCEPT ![LowestFree] = s]
  /\ sockfd' = [sockfd EXCEPT ![s] = LowestFree]
  /\ Goto(t, "bind", s, pc[t].then)
  /\ UNCHANGED <<newsockfd, connected, tries, flagVars, turn, count, history>>

\* No descriptor left.
CannotOpen(t) ==
  LET s == pc[t].s IN
  /\ At(t, "open") /\ ~SockLocked(t) /\ FreeFds = {}
  /\ sockfd' = [sockfd EXCEPT ![s] = NoFd]
  /\ Return(t, s, pc[t].then)
  /\ UNCHANGED <<owner, newsockfd, connected, tries, turn, count, history>>

\* bind, on the address getaddrinfo found; no address ends as bind failing does.
BindSocket(t) ==
  /\ At(t, "bind") /\ sockfd[pc[t].s] # NoFd
  /\ Return(t, pc[t].s, pc[t].then)
  /\ UNCHANGED <<fdVars, connected, tries, turn, count, history>>

NotClosed(t) ==                                \* mutant: the socket that failed stays open
  LET s == pc[t].s IN
  /\ At(t, "bind") /\ sockfd' = [sockfd EXCEPT ![s] = NoFd] /\ Return(t, s, pc[t].then)
  /\ UNCHANGED <<owner, newsockfd, connected, tries, turn, count, history>>
CannotBind(t) ==
  LET s == pc[t].s IN
  /\ At(t, "bind") /\ CloseFd(s, sockfd[s])
  /\ sockfd' = [sockfd EXCEPT ![s] = NoFd]
  /\ Return(t, s, pc[t].then)
  /\ UNCHANGED <<newsockfd, connected, tries, turn, count, shared>>

--------------------------------------------------------------------------------
(* tcp_socket: one pass of the Socket thread over socket `turn'.              *)

Begin == At("socket", "idle") /\ ~(turn = 1 /\ deconstruct) /\ turn' = NextSocket(turn)
Serve(s) == Begin /\ turn = s /\ bound[s] /\ active
Usable(s) == ~force[s] /\ sockfd[s] # NoFd /\ owner[sockfd[s]] # NoOne

SkipUnbound ==
  /\ Begin /\ ~bound[turn]
  /\ UNCHANGED <<fdVars, connected, tries, flagVars, pc, count, history>>

OffLine ==
  /\ Begin /\ bound[turn] /\ ~active /\ DisconnectSocket("socket", turn, "idle")
  /\ UNCHANGED count

ForcedDisconnect(s) ==
  /\ Serve(s) /\ force[s] /\ DisconnectSocket("socket", s, "forced")
  /\ UNCHANGED count

NotInitialized(s) ==
  /\ Serve(s) /\ ~force[s] /\ sockfd[s] = NoFd
  /\ InitializeSocket("socket", s, "idle")
  /\ UNCHANGED count

\* fcntl fails, or shows a blocking descriptor, which is none a socket opened.
BadDescriptor(s) ==
  /\ Serve(s) /\ ~force[s] /\ sockfd[s] # NoFd /\ owner[sockfd[s]] \in {NoOne, Other}
  /\ DisconnectSocket("socket", s, "idle")
  /\ UNCHANGED count

\* ConnectSocket of a server: listen, then accept.
ListenFails(s) ==
  /\ Serve(s) /\ Usable(s) /\ protocol[s] = "server" /\ newsockfd[s] = NoFd
  /\ DisconnectSocket("socket", s, "idle")
  /\ UNCHANGED count

Accept(s) ==
  /\ Serve(s) /\ Usable(s) /\ protocol[s] = "server" /\ newsockfd[s] = NoFd
  /\ tries' = [tries EXCEPT ![s] = 0]
  /\ \/ /\ FreeFds # {} /\ newsockfd' = [newsockfd EXCEPT ![s] = LowestFree]
        /\ owner' = [owner EXCEPT ![LowestFree] = s]
     \/ UNCHANGED <<newsockfd, owner>>
  /\ Enter("socket", s)
  /\ UNCHANGED <<sockfd, connected, flagVars, pc, count, wrong>>

\* ConnectSocket of a client, every TRYTIME: connect on sockfd.
Try(s) ==
  \/ UNCHANGED <<sockfd, newsockfd, tries>>          \* not yet time
  \/ /\ sockfd[s] # NoFd /\ owner[sockfd[s]] # NoOne
     /\ \/ newsockfd' = [newsockfd EXCEPT ![s] = sockfd[s]] /\ tries' = [tries EXCEPT ![s] = 0]
        \/ newsockfd' = [newsockfd EXCEPT ![s] = NoFd] /\ tries' = [tries EXCEPT ![s] = @ + 1]
     /\ UNCHANGED sockfd
  \/ /\ sockfd[s] # NoFd /\ owner[sockfd[s]] = NoOne   \* EBADF
     /\ sockfd' = [sockfd EXCEPT ![s] = NoFd] /\ newsockfd' = [newsockfd EXCEPT ![s] = NoFd]
     /\ tries' = [tries EXCEPT ![s] = @ + 1]

NoTryLimit(s) == TRUE                          \* mutant
MayTry(s) == tries[s] <= MaxConTries

ConnectClient(s) ==
  /\ Serve(s) /\ Usable(s) /\ protocol[s] = "client" /\ newsockfd[s] = NoFd
  /\ Enter("socket", s)
  /\ MayTry(s) /\ Try(s)
  /\ UNCHANGED <<owner, connected, flagVars, pc, count, wrong>>

TooManyTries(s) ==
  /\ Serve(s) /\ Usable(s) /\ protocol[s] = "client" /\ newsockfd[s] = NoFd
  /\ ~MayTry(s) /\ InitializeSocket("socket", s, "connect")
  /\ UNCHANGED count

ConnectAfterInit ==
  /\ At("socket", "connect") /\ Try(pc["socket"].s)
  /\ Idle("socket")
  /\ UNCHANGED <<owner, connected, flagVars, turn, count, history>>

\* DisconnectClient: the peer closed, or the connection idled too long.  A
\* client closes sockfd and leaves its number in newsockfd.
ServerKeepsNumber(s) ==                        \* mutant: not forgotten
  /\ CloseFd(s, newsockfd[s]) /\ UNCHANGED <<sockfd, newsockfd>>
ServerDisconnects(s) ==
  /\ CloseFd(s, newsockfd[s]) /\ newsockfd' = [newsockfd EXCEPT ![s] = NoFd]
  /\ UNCHANGED sockfd
ClientDisconnects(s) ==
  /\ CloseFd(s, sockfd[s]) /\ sockfd' = [sockfd EXCEPT ![s] = NoFd]
  /\ UNCHANGED newsockfd

DisconnectClient(s) ==
  /\ Serve(s) /\ Usable(s) /\ Enter("socket", s)
  /\ \/ protocol[s] = "server" /\ newsockfd[s] # NoFd /\ owner[newsockfd[s]] # NoOne /\ ServerDisconnects(s)
     \/ protocol[s] = "client" /\ newsockfd[s] # NoFd /\ ClientDisconnects(s)
     \/ protocol[s] = "udprx" /\ UNCHANGED <<fdVars, wrong>>
  /\ connected' = [connected EXCEPT ![s] = FALSE] /\ tries' = [tries EXCEPT ![s] = 0]
  /\ UNCHANGED <<flagVars, pc, count>>

\* recv says data or nothing yet (an error counts as nothing yet); a sender
\* with a message comes here without receiving.
Receive(s) ==
  /\ Serve(s) /\ Usable(s) /\ Enter("socket", s)
  /\ protocol[s] \in {"server", "client"} => newsockfd[s] # NoFd
  /\ connected' = [connected EXCEPT ![s] = TRUE]
  /\ Goto("socket", "write", s, "idle")
  /\ UNCHANGED <<fdVars, tries, flagVars, count, wrong>>

NothingReceived(s) ==
  /\ Serve(s) /\ Usable(s) /\ protocol[s] \in {"udptx", "udprx"}
  /\ UNCHANGED <<fdVars, connected, tries, flagVars, pc, count, history>>

WriteFd(s) == IF protocol[s] \in {"server", "client"} THEN newsockfd[s] ELSE sockfd[s]
Written ==
  LET s == pc["socket"].s IN
  /\ At("socket", "write") /\ WriteFd(s) # NoFd /\ owner[WriteFd(s)] # NoOne
  /\ connected' = [connected EXCEPT ![s] = TRUE] /\ Idle("socket")
  /\ UNCHANGED <<fdVars, tries, flagVars, turn, count, history>>

NothingToWrite ==
  /\ At("socket", "write") /\ Idle("socket")
  /\ UNCHANGED <<fdVars, connected, tries, flagVars, turn, count, history>>

WriteFails ==
  /\ At("socket", "write") /\ DisconnectSocket("socket", pc["socket"].s, "idle")
  /\ UNCHANGED <<turn, count>>

--------------------------------------------------------------------------------
(* The reload, the other threads and the rest of the program.                 *)

DeconstructBegins ==
  /\ At("socket", "idle") /\ turn = 1 /\ deconstruct
  /\ Goto("socket", "deconstruct", 1, "idle")
  /\ UNCHANGED <<fdVars, connected, tries, flagVars, turn, count, history>>

DeconstructSocket ==
  /\ At("socket", "deconstruct") /\ DisconnectSocket("socket", pc["socket"].s, "clear")
  /\ UNCHANGED <<turn, count>>

Event == count < MaxEvents /\ count' = count + 1

Reload ==
  /\ At("comm", "idle") /\ Event /\ deconstruct' = TRUE
  /\ Goto("comm", "await", 1, "idle")
  /\ UNCHANGED <<fdVars, connected, tries, bound, ported, force, active, table, protocol, turn, history>>

Deconstructed ==
  /\ At("comm", "await") /\ ~deconstruct /\ Goto("comm", "configure", 1, "idle")
  /\ UNCHANGED <<fdVars, connected, tries, flagVars, turn, count, history>>

\* ConnectDeviceSocket: the socket is bound to the row, and so served by the
\* Socket thread, before its port is set; then the address of the interface is
\* asked for, and only then the protocol is set and the socket initialized.
BindDevice ==
  LET s == pc["comm"].s IN
  /\ At("comm", "configure") /\ bound' = [bound EXCEPT ![s] = TRUE]
  /\ Goto("comm", "setPort", s, "idle")
  /\ UNCHANGED <<fdVars, connected, tries, ported, force, active, deconstruct, table, protocol, turn, count, history>>

SetPort ==
  LET s == pc["comm"].s IN
  /\ At("comm", "setPort") /\ ported' = [ported EXCEPT ![s] = TRUE]
  /\ Goto("comm", "setProtocol", s, "idle") /\ Enter("comm", s)
  /\ UNCHANGED <<fdVars, connected, tries, bound, force, active, deconstruct, table, protocol, turn, count, wrong>>

SetProtocol ==
  LET s == pc["comm"].s IN
  /\ At("comm", "setProtocol") /\ protocol' = [protocol EXCEPT ![s] = table[s]]
  /\ Goto("comm", "initNew", s, "nextRow") /\ Enter("comm", s)
  /\ UNCHANGED <<fdVars, connected, tries, bound, ported, force, active, deconstruct, table, turn, count, wrong>>

\* SOCKETS DROP
DropSocket(s) ==
  /\ At("console", "idle") /\ bound[s] /\ Event
  /\ DisconnectSocket("console", s, "idle") /\ UNCHANGED turn

\* ResetSocket
AskDisconnect(s) ==
  /\ ~force[s] /\ Event /\ force' = [force EXCEPT ![s] = TRUE]
  /\ UNCHANGED <<fdVars, connected, tries, bound, ported, active, deconstruct, table, protocol, turn, pc, history>>

Toggle ==
  /\ Event /\ active' = ~active
  /\ UNCHANGED <<fdVars, connected, tries, bound, ported, force, deconstruct, table, protocol, turn, pc, history>>

OtherOpens ==
  /\ FreeFds # {} /\ Cardinality({f \in Fds : owner[f] = Other}) < MaxOther
  /\ owner' = [owner EXCEPT ![LowestFree] = Other]
  /\ UNCHANGED <<sockfd, newsockfd, connected, tries, flagVars, turn, pc, count, history>>

OtherCloses(f) ==
  /\ owner[f] = Other /\ owner' = [owner EXCEPT ![f] = NoOne]
  /\ UNCHANGED <<sockfd, newsockfd, connected, tries, flagVars, turn, pc, count, history>>

ThreadStep(t) ==
  CloseNew(t) \/ CloseSock(t) \/ InitCloseNew(t) \/ InitCloseSock(t)
  \/ OpenSocket(t) \/ CannotOpen(t) \/ BindSocket(t) \/ CannotBind(t)

Pass ==
  \/ SkipUnbound \/ OffLine \/ ConnectAfterInit \/ Written \/ NothingToWrite \/ WriteFails
  \/ DeconstructBegins \/ DeconstructSocket
  \/ \E s \in Sockets :
       \/ ForcedDisconnect(s) \/ NotInitialized(s) \/ BadDescriptor(s)
       \/ ListenFails(s) \/ Accept(s) \/ ConnectClient(s) \/ TooManyTries(s)
       \/ DisconnectClient(s) \/ Receive(s) \/ NothingReceived(s)

SocketThread == Pass \/ ThreadStep("socket")
CommThread == Deconstructed \/ BindDevice \/ SetPort \/ SetProtocol \/ ThreadStep("comm")
ConsoleThread == ThreadStep("console")

Next ==
  \/ SocketThread \/ CommThread \/ ConsoleThread
  \/ Reload \/ Toggle \/ OtherOpens
  \/ \E s \in Sockets : DropSocket(s) \/ AskDisconnect(s)
  \/ \E f \in Fds : OtherCloses(f)

\* Both threads run for ever, and a port is bound some day if that is tried
\* again and again.
Fairness ==
  /\ WF_vars(SocketThread) /\ WF_vars(CommThread) /\ WF_vars(ConsoleThread)
  /\ \A s \in Sockets : SF_vars(pc["socket"].s = s /\ BindSocket("socket"))

Spec == Init /\ [][Next]_vars
FairSpec == Spec /\ Fairness

--------------------------------------------------------------------------------
\* Bound of the runs: what follows once a descriptor of another owner has been
\* closed is not explored, since then any object may use any other's.
NoneWronged == wrong = {}

\* Every member keeps to its range, and client_tries to one more than its limit.
TypeOK ==
  /\ owner \in [Fds -> Sockets \cup {Other, NoOne}]
  /\ sockfd \in [Sockets -> Fds \cup {NoFd}] /\ newsockfd \in [Sockets -> Fds \cup {NoFd}]
  /\ connected \in [Sockets -> BOOLEAN] /\ tries \in [Sockets -> 0..(MaxConTries + 1)]
  /\ bound \in [Sockets -> BOOLEAN] /\ ported \in [Sockets -> BOOLEAN]
  /\ force \in [Sockets -> BOOLEAN] /\ table \in Tables /\ protocol \in [Sockets -> Protocols]
  /\ active \in BOOLEAN /\ deconstruct \in BOOLEAN /\ turn \in Sockets
  /\ pc \in [Threads -> [at : Labels, s : Sockets, then : Then]]
  /\ count \in 0..MaxEvents
  /\ shared \subseteq Sockets /\ wrong \subseteq Sockets

\* No method of s is running, and none ever ran in two threads at once.
AtRest(s) == \A t \in Threads : ~Working(t, s)
Undisturbed(s) == wrong = {} /\ s \notin shared /\ AtRest(s)

\* Who first closes a descriptor that another socket, or another part of the
\* program, has opened is a client (DisconnectClient leaves the closed number in
\* newsockfd for initialize_socket to close again, and DisconnectSocket closes
\* one number twice, asleep in between) or a socket that two threads have
\* worked on at once.  Servers and datagram sockets alone never do it.
ForeignCloseExplained ==
  \A s \in wrong : protocol[s] = "client" \/ s \in shared

\* However often a socket is dropped, initialized and connected again, every
\* descriptor it opened is one it still knows, so that none is lost, unless two
\* threads worked on it at once (both initialize it during a reload: the number
\* one of them opened is overwritten by the other).
NothingLeaked ==
  \A s \in Sockets : Undisturbed(s) =>
    \A f \in Fds : owner[f] = s => f \in {sockfd[s], newsockfd[s]}

\* Between passes the numbers a socket keeps are descriptors it owns, and a
\* socket said to be connected, which the choice of a port by address
\* translation and the status page rely on, has the one it writes to.
HoldsWhatItUses ==
  \A s \in Sockets : Undisturbed(s) =>
    /\ sockfd[s] # NoFd => owner[sockfd[s]] = s
    /\ newsockfd[s] # NoFd /\ protocol[s] = "server" => owner[newsockfd[s]] = s
    /\ newsockfd[s] # NoFd /\ protocol[s] = "client" /\ sockfd[s] # NoFd => newsockfd[s] = sockfd[s]
    /\ connected[s] => WriteFd(s) # NoFd /\ owner[WriteFd(s)] = s

\* A bound socket of an active gateway has its descriptor again and again, after
\* every drop, failed call, failover and reload, unless a descriptor of another
\* was closed or there is none left.
Regained ==
  \A s \in Sockets :
    []<>( ~bound[s] \/ ~active \/ wrong # {} \/ FreeFds = {}
         \/ (sockfd[s] # NoFd /\ owner[sockfd[s]] = s) )
================================================================================

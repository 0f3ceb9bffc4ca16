---------------------------- MODULE DeviceTables ----------------------------
(* The device designators, the sockets and the serial ports they are bound   *)
(* to, and the two ways of loading them again: the reload handshake between  *)
(* the Comm and the Socket thread (CommThread.cpp:223-249, SocketThread.cpp: *)
(* 90-99) and the restart of the application, in which main stops both       *)
(* threads with flags and sleeps (main.cpp:577-611).                         *)
(*                                                                           *)
(* A designator is known everywhere by its index in the device list: sockets *)
(* and serial ports store it, queued messages carry it.  Every sleep and     *)
(* every wait with a time limit is a step that may come at any time.         *)
EXTENDS Integers, Sequences, FiniteSets

CONSTANTS Sys,          \* designator of the status display
          Com,          \* designator of the one row of the serial table
          Rows,         \* designators of Ethernet rows
          Unusable,     \* those whose interface, protocol or address no socket takes
          Tables,       \* contents of the Ethernet table: sequences of rows
          NoName,       \* an unbound socket
          NSockets,     \* MAXSOCKETS
          MaxDevices,   \* MAXDEVDES
          SlowPass,     \* a pass of Comm may outlast the six seconds main waits
          EarlyRestart, \* bound: a restart may be asked for before Comm runs
          MaxReloads,   \* bound: reload requests
          MaxRestarts,  \* bound: restart requests
          Mail          \* bound: rows a message is routed to, one at a time

ASSUME TableAssumption ==
  /\ Sys # Com /\ Sys \notin Rows /\ Com \notin Rows
  /\ NoName \notin Rows \cup {Sys, Com} /\ Unusable \subseteq Rows
  /\ Tables # {} /\ Tables \subseteq Seq(Rows)
  /\ NSockets \in Nat \ {0} /\ MaxDevices \in Nat \ {0}
  /\ SlowPass \in BOOLEAN /\ EarlyRestart \in BOOLEAN
  /\ MaxReloads \in Nat /\ MaxRestarts \in Nat /\ Mail \subseteq Rows

VARIABLES
  table,       \* the Ethernet device table, dtEDD and the database alike
  designator,  \* OurDevices: the designators in index order
  sock,        \* tcpsockets: dev = myDevDesIndex, row = interface set for, open = a descriptor
  com,         \* myDevIndex of the serial port of Com, -1 when unbound
  comm,        \* Comm: where it is, the row being loaded, whether this is a reload
  tableState,  \* Comm's side of the reload handshake
  socket,      \* Socket: where it is and the socket its closing loop has reached
  main,        \* where main is
  flag,        \* the flags the threads share
  mail,        \* an entry of qETHout: designator meant, index carried
  count        \* reloads, restarts and messages so far

vars == <<table, designator, sock, com, comm, tableState, socket, main, flag, mail, count>>

Unbound == -1
NoMail == [meant |-> NoName, dev |-> Unbound]
FreeSocket == [dev |-> Unbound, row |-> NoName, open |-> FALSE]
Names == Rows \cup {Sys, Com}

Indices == 0..(Len(designator) - 1)
NameAt(i) == IF i \in Indices THEN designator[i + 1] ELSE NoName

\* The lowest index with that designator, -1 when there is none.
IndexOf(name) ==
  IF \E i \in Indices : NameAt(i) = name
  THEN CHOOSE i \in Indices : NameAt(i) = name /\ \A j \in Indices : NameAt(j) = name => i <= j
  ELSE Unbound

\* OurDevices.Clear
NotCleared == designator                        \* mutant: nothing erased
Cleared == <<>>

\* AddConnection: only Clear frees entries, so the first free one is the next.
RoomForOneMore == Len(designator) <= MaxDevices \* mutant
RoomForDevice == Len(designator) < MaxDevices
NewIndex == Len(designator)

GetNewTCPindex ==
  LET free == {s \in 1..NSockets : sock[s].dev = Unbound}
  IN  IF free = {} THEN 0 ELSE CHOOSE s \in free : \A t \in free : s <= t

getValidSocketCount == Cardinality({s \in 1..NSockets : sock[s].row # NoName})

FlagNames == {"reload", "deconstruct", "runSocket", "stop",
              "commRunning", "mainInit", "restart", "created"}

CommPlaces == {"off", "display", "eth", "open", "tty", "launch", "waitmain",
               "loop", "leaving"}
SocketPlaces == {"off", "run", "close", "pause"}
MainPlaces == {"init", "ports", "ready", "go", "loop", "stopping"}

TypeOK ==
  /\ table \in Tables
  /\ designator \in Seq(Names) /\ Len(designator) <= MaxDevices
  /\ sock \in [1..NSockets -> [dev : Unbound..(MaxDevices - 1), row : Rows \cup {NoName}, open : BOOLEAN]]
  /\ com \in Unbound..(MaxDevices - 1)
  /\ comm \in [at : CommPlaces, row : Nat, reload : BOOLEAN, s : 0..NSockets]
  /\ tableState \in {"Loaded", "ReloadRequest", "WaitForSocketThread", "ReloadTables"}
  /\ socket \in [at : SocketPlaces, s : 1..(NSockets + 1)]
  /\ main \in MainPlaces
  /\ flag \in [FlagNames -> BOOLEAN]
  /\ mail \in [meant : Rows \cup {NoName}, dev : Unbound..(MaxDevices - 1)]
  /\ count \in [reloads : 0..MaxReloads, restarts : 0..MaxRestarts]

Init ==
  /\ table \in Tables
  /\ designator = <<>>
  /\ sock = [s \in 1..NSockets |-> FreeSocket]
  /\ com = Unbound
  /\ comm = [at |-> "off", row |-> 1, reload |-> FALSE, s |-> 0]
  /\ tableState = "Loaded"
  /\ socket = [at |-> "off", s |-> 1]
  /\ main = "init"
  /\ flag = [f \in FlagNames |-> f = "restart"]
  /\ mail = NoMail
  /\ count = [reloads |-> 0, restarts |-> 0]

-----------------------------------------------------------------------------
(* Comm: the outer loop of threadComm, which loads every table, ...          *)

CommAt(place) == comm.at = place

AddDisplay ==
  /\ CommAt("display")
  /\ designator' = IF RoomForDevice THEN Append(designator, Sys) ELSE designator
  /\ comm' = [comm EXCEPT !.at = "eth", !.row = 1, !.reload = FALSE]
  /\ UNCHANGED <<table, sock, com, tableState, socket, main, flag, mail, count>>

\* One row: a new entry of the list, whether or not the designator is there
\* already, and the first half of ConnectDeviceSocket, after which the Socket
\* thread may already serve the socket.  A row that fails before it has taken
\* a socket leaves its entry without one.
FindsNoSocket(row) == row \in Unusable \/ GetNewTCPindex = 0

AddRow ==
  /\ CommAt("eth") /\ comm.row <= Len(table)
  /\ IF RoomForDevice
     THEN /\ designator' = Append(designator, table[comm.row])
          /\ IF FindsNoSocket(table[comm.row])
             THEN /\ comm' = [comm EXCEPT !.row = @ + 1]
                  /\ UNCHANGED sock
             ELSE /\ sock' = [sock EXCEPT ![GetNewTCPindex].dev = NewIndex,
                                           ![GetNewTCPindex].row = table[comm.row]]
                  /\ comm' = [comm EXCEPT !.at = "open", !.s = GetNewTCPindex]
     ELSE /\ comm' = [comm EXCEPT !.row = @ + 1]
          /\ UNCHANGED <<designator, sock>>
  /\ UNCHANGED <<table, com, tableState, socket, main, flag, mail, count>>

\* The second half: interface, ports and initialize_socket, which may fail.
OpenRow ==
  /\ CommAt("open")
  /\ \E ok \in BOOLEAN : sock' = [sock EXCEPT ![comm.s].open = ok]
  /\ comm' = [comm EXCEPT !.at = "eth", !.row = @ + 1]
  /\ UNCHANGED <<table, designator, com, tableState, socket, main, flag, mail, count>>

RowsDone ==
  /\ CommAt("eth") /\ comm.row > Len(table)
  /\ comm' = [comm EXCEPT !.at = "tty"]
  /\ IF comm.reload
     THEN flag' = [flag EXCEPT !["reload"] = FALSE] /\ tableState' = "Loaded"
     ELSE UNCHANGED <<flag, tableState>>
  /\ UNCHANGED <<table, designator, sock, com, socket, main, mail, count>>

\* A designator in use already is not added again.
LoadTtyDevDesTable ==
  /\ CommAt("tty")
  /\ IF IndexOf(Com) = Unbound /\ RoomForDevice
     THEN designator' = Append(designator, Com) /\ com' = NewIndex
     ELSE UNCHANGED <<designator, com>>
  /\ comm' = [comm EXCEPT !.at = IF comm.reload THEN "loop" ELSE "launch"]
  /\ UNCHANGED <<table, sock, tableState, socket, main, flag, mail, count>>

Launch ==
  /\ CommAt("launch")
  /\ flag' = [flag EXCEPT !["runSocket"] = TRUE]
  /\ socket' = IF socket.at = "off" THEN [socket EXCEPT !.at = "run"] ELSE socket
  /\ comm' = [comm EXCEPT !.at = "waitmain"]
  /\ UNCHANGED <<table, designator, sock, com, tableState, main, mail, count>>

MainIsInitialized ==
  /\ CommAt("waitmain") /\ flag["mainInit"]
  /\ comm' = [comm EXCEPT !.at = "loop"]
  /\ UNCHANGED <<table, designator, sock, com, tableState, socket, main, flag, mail, count>>

(* ... the inner loop, whose pass drives the reload handshake, ...           *)

Pass(state) ==
  /\ CommAt("loop") /\ ~flag["stop"] /\ tableState = state
  /\ flag["commRunning"]
  /\ UNCHANGED <<table, sock, com, socket, main, count, mail>>

FirstPass ==
  /\ CommAt("loop") /\ ~flag["stop"] /\ ~flag["commRunning"]
  /\ flag' = [flag EXCEPT !["commRunning"] = TRUE]
  /\ UNCHANGED <<table, designator, sock, com, comm, tableState, socket, main, mail, count>>

SeeRequest ==
  /\ Pass("Loaded") /\ flag["reload"]
  /\ tableState' = "ReloadRequest"
  /\ UNCHANGED <<designator, comm, flag>>

AskSocketThread ==
  /\ Pass("ReloadRequest")
  /\ tableState' = "WaitForSocketThread"
  /\ flag' = [flag EXCEPT !["deconstruct"] = TRUE]
  /\ UNCHANGED <<designator, comm>>

SocketsDeconstructed ==
  /\ Pass("WaitForSocketThread") /\ ~flag["deconstruct"]
  /\ tableState' = "ReloadTables"
  /\ UNCHANGED <<designator, comm, flag>>

ReloadTables ==
  /\ Pass("ReloadTables")
  /\ IF getValidSocketCount = 0
     THEN /\ designator' = Cleared
          /\ comm' = [comm EXCEPT !.at = "eth", !.row = 1, !.reload = TRUE]
          /\ UNCHANGED tableState
     ELSE /\ tableState' = "ReloadRequest"
          /\ UNCHANGED <<designator, comm>>
  /\ UNCHANGED flag

\* A message is routed: it carries the index its designator has now.
RouteMail(name) ==
  /\ CommAt("loop") /\ ~flag["stop"] /\ flag["commRunning"]
  /\ mail = NoMail /\ IndexOf(name) # Unbound
  /\ mail' = [meant |-> name, dev |-> IndexOf(name)]
  /\ UNCHANGED <<table, designator, sock, com, comm, tableState, socket, main, flag, count>>

(* ... and the way out of it.                                                *)

LeaveLoop ==
  /\ CommAt("loop") /\ flag["stop"]
  /\ flag' = [flag EXCEPT !["runSocket"] = FALSE]
  /\ comm' = [comm EXCEPT !.at = "leaving"]
  /\ UNCHANGED <<table, designator, sock, com, tableState, socket, main, mail, count>>

\* Comm waits one second at most for the Socket thread, then goes on; it lets
\* another one pass, with the flag still down, before it loads the tables.
CommHalted ==
  /\ CommAt("leaving")
  /\ flag' = [flag EXCEPT !["commRunning"] = FALSE]
  /\ comm' = [comm EXCEPT !.at = "display"]
  /\ UNCHANGED <<table, designator, sock, com, tableState, socket, main, mail, count>>

CommStep ==
  \/ AddDisplay \/ AddRow \/ OpenRow \/ RowsDone \/ LoadTtyDevDesTable \/ Launch
  \/ MainIsInitialized \/ FirstPass \/ SeeRequest \/ AskSocketThread
  \/ SocketsDeconstructed \/ ReloadTables \/ LeaveLoop \/ CommHalted

-----------------------------------------------------------------------------
(* Socket: threadTCPserver.                                                  *)

SocketAt(place) == socket.at = place

\* DisconnectSocket, then clear
Disconnected(s) == [s EXCEPT !.open = FALSE]    \* mutant: not cleared
Deconstructed(s) == FreeSocket

DeconstructSockets ==
  /\ SocketAt("run") /\ flag["runSocket"] /\ flag["deconstruct"]
  /\ sock' = [s \in 1..NSockets |-> Deconstructed(sock[s])]
  /\ flag' = [flag EXCEPT !["deconstruct"] = FALSE]
  /\ UNCHANGED <<table, designator, com, comm, tableState, socket, main, mail, count>>

\* A pass serves every bound socket, which opens those that can be opened, and
\* hands one entry of qETHout to the first socket bound to its index.
ServeSockets ==
  /\ SocketAt("run") /\ flag["runSocket"] /\ ~flag["deconstruct"]
  /\ \E opened \in SUBSET {s \in 1..NSockets : sock[s].dev # Unbound} :
       sock' = [s \in 1..NSockets |-> [sock[s] EXCEPT !.open = @ \/ s \in opened]]
  /\ mail' = NoMail
  /\ UNCHANGED <<table, designator, com, comm, tableState, socket, main, flag, count>>

StartClosing ==
  /\ SocketAt("run") /\ ~flag["runSocket"]
  /\ socket' = [at |-> "close", s |-> 1]
  /\ UNCHANGED <<table, designator, sock, com, comm, tableState, main, flag, mail, count>>

\* An open socket is disconnected and stays bound: the next round frees it.
CloseSocket ==
  /\ SocketAt("close") /\ socket.s <= NSockets
  /\ sock' = [sock EXCEPT ![socket.s] =
                IF @.dev = Unbound THEN @
                ELSE IF @.open THEN [@ EXCEPT !.open = FALSE] ELSE FreeSocket]
  /\ socket' = [socket EXCEPT !.s = @ + 1]
  /\ UNCHANGED <<table, designator, com, comm, tableState, main, flag, mail, count>>

AllClosed ==
  /\ SocketAt("close") /\ socket.s > NSockets
  /\ socket' = [at |-> IF flag["stop"] THEN "pause" ELSE "run", s |-> 1]
  /\ UNCHANGED <<table, designator, sock, com, comm, tableState, main, flag, mail, count>>

Paused ==
  /\ SocketAt("pause")
  /\ flag' = [flag EXCEPT !["commRunning"] = FALSE]
  /\ socket' = [socket EXCEPT !.at = "run"]
  /\ UNCHANGED <<table, designator, sock, com, comm, tableState, main, mail, count>>

SocketStep ==
  DeconstructSockets \/ ServeSockets \/ StartClosing \/ CloseSocket \/ AllClosed \/ Paused

-----------------------------------------------------------------------------
(* main, and the requests of the console and of the role synchronisation.    *)

MainGoes(from, to) == main = from /\ main' = to

StartInit ==
  /\ MainGoes("init", "ports")
  /\ flag' = [flag EXCEPT !["mainInit"] = FALSE, !["restart"] = FALSE]
  /\ UNCHANGED <<table, designator, sock, com, comm, tableState, socket, mail, count>>

\* The first time the Comm thread is created next.
InitializeComPorts ==
  /\ MainGoes("ports", "ready")
  /\ com' = Unbound
  /\ comm' = IF flag["created"] THEN comm ELSE [comm EXCEPT !.at = "display"]
  /\ flag' = [flag EXCEPT !["created"] = TRUE]
  /\ UNCHANGED <<table, designator, sock, tableState, socket, mail, count>>

InitializationComplete ==
  /\ MainGoes("ready", "go")
  /\ flag' = [flag EXCEPT !["mainInit"] = TRUE]
  /\ UNCHANGED <<table, designator, sock, com, comm, tableState, socket, mail, count>>

StillStopped == flag                            \* mutant: flag not reset
NotStopped == [flag EXCEPT !["stop"] = FALSE]

LetCommRun ==
  /\ MainGoes("go", "loop")
  /\ flag' = NotStopped
  /\ UNCHANGED <<table, designator, sock, com, comm, tableState, socket, mail, count>>

StopCommunications ==
  /\ MainGoes("loop", "stopping") /\ flag["restart"]
  /\ flag' = [flag EXCEPT !["stop"] = TRUE]
  /\ UNCHANGED <<table, designator, sock, com, comm, tableState, socket, mail, count>>

ClearDevices ==
  /\ MainGoes("stopping", "init") /\ (~flag["commRunning"] \/ SlowPass)
  /\ designator' = Cleared
  /\ UNCHANGED <<table, sock, com, comm, tableState, socket, flag, mail, count>>

MainStep ==
  \/ StartInit \/ InitializeComPorts \/ InitializationComplete
  \/ LetCommRun \/ StopCommunications \/ ClearDevices

\* sync-roles.cpp: the imported tables are stored and a reload is asked for.
StoreTables ==
  /\ main = "loop" /\ count.reloads < MaxReloads
  /\ table' \in Tables
  /\ flag' = [flag EXCEPT !["reload"] = TRUE]
  /\ count' = [count EXCEPT !.reloads = @ + 1]
  /\ UNCHANGED <<designator, sock, com, comm, tableState, socket, main, mail>>

\* Console: "restart".
Restart ==
  /\ flag["created"] /\ count.restarts < MaxRestarts
  /\ EarlyRestart \/ flag["commRunning"]
  /\ flag' = [flag EXCEPT !["restart"] = TRUE]
  /\ count' = [count EXCEPT !.restarts = @ + 1]
  /\ UNCHANGED <<table, designator, sock, com, comm, tableState, socket, main, mail>>

Next ==
  \/ CommStep \/ SocketStep \/ MainStep
  \/ StoreTables \/ Restart \/ \E name \in Mail : RouteMail(name)

Fairness == WF_vars(CommStep) /\ WF_vars(SocketStep) /\ WF_vars(MainStep)
Spec == Init /\ [][Next]_vars
FairSpec == Spec /\ Fairness

-----------------------------------------------------------------------------
Settled ==
  /\ main = "loop" /\ CommAt("loop") /\ SocketAt("run")
  /\ tableState = "Loaded" /\ flag["runSocket"] /\ flag["commRunning"]
  /\ ~flag["reload"] /\ ~flag["stop"] /\ ~flag["restart"]

\* The reload handshake keeps the three tables together: once a reload is
\* over, every Ethernet designator of the list whose row can be used has
\* exactly one socket, that socket was opened for it, and no other socket is
\* left bound (CommThread.cpp:239-248).
BoundOnce ==
  Settled /\ count.restarts = 0 =>
    /\ \A i \in Indices : NameAt(i) \in Rows \ Unusable =>
         \E s \in 1..NSockets : /\ sock[s].dev = i /\ sock[s].row = NameAt(i)
                                /\ \A t \in 1..NSockets : sock[t].dev = i => t = s
    /\ \A s \in 1..NSockets : sock[s].dev # Unbound =>
         sock[s].dev \in Indices /\ NameAt(sock[s].dev) \in Rows \ Unusable

\* A reload that was asked for ends, although two threads hand it to each
\* other through flags and a restart may come in between
\* (CommThread.cpp:223-249; sync-roles.cpp:388 waits for it).
ReloadCompletes == flag["reload"] ~> ~flag["reload"]

\* A restart ends: main, Comm and Socket all run again and nothing is left
\* pending (main.cpp:577-611).
RestartCompletes == flag["restart"] ~> Settled

\* After a restart the serial port is bound to the designator its row was
\* given: "We need to reload everything and restart the application."
\* (main.cpp:578).
SerialPortBound ==
  Settled /\ IndexOf(Com) # Unbound => com = IndexOf(Com)

\* A message leaves on a socket of the designator it was routed to: "route it
\* to the destination interface per the entry in the route table"
\* (Router.cpp:121-123).
NoMisdelivery ==
  [][mail # NoMail /\ mail' = NoMail =>
       \A s \in 1..NSockets :
         sock[s].dev = mail.dev /\ (\A t \in 1..(s - 1) : sock[t].dev # mail.dev)
         => sock[s].row = mail.meant]_vars
=============================================================================

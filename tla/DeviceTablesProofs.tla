--------------------------- MODULE DeviceTablesProofs ---------------------------
(* The device list and the tables bound to it, for any contents of the table,  *)
(* any number of sockets, reloads and restarts.                                *)
(*                                                                             *)
(* A load binds one free socket to each row as it adds it to the list, and the *)
(* Socket thread cannot unbind one meanwhile: it empties the sockets only when *)
(* asked, and Comm clears the list only after it has seen them empty.  What    *)
(* BoundOnce says of the settled state is therefore kept step by step through  *)
(* the load: the bound sockets are distinct, each one belongs to its row, and  *)
(* their number has not overtaken the rows.                                    *)
EXTENDS DeviceTables, TLAPS, FiniteSetTheorems, WellFoundedInduction, NaturalsInduction

Sockets == 1..NSockets
Devs == Unbound..(MaxDevices - 1)
Sock == [dev : Devs, row : Rows \cup {NoName}, open : BOOLEAN]
Bound == {s \in Sockets : sock[s].dev # Unbound}
AllFree == \A s \in Sockets : sock[s].dev = Unbound

(* A bound socket belongs to the row at its index, and to no other.          *)
Bindings ==
  /\ \A s \in Sockets : sock[s].dev = Unbound => sock[s].row = NoName
  /\ \A s \in Sockets : sock[s].dev # Unbound =>
       sock[s].dev \in Indices /\ sock[s].row = NameAt(sock[s].dev)
       /\ sock[s].row \in Rows \ Unusable
  /\ \A s, t \in Sockets : sock[s].dev # Unbound /\ sock[s].dev = sock[t].dev => s = t

(* Between the answer of the Socket thread and the clearing of the list.     *)
Emptied ==
  /\ CommAt("loop")
  /\ tableState = "ReloadTables" \/ (tableState = "WaitForSocketThread" /\ ~flag["deconstruct"])

Complete ==
  /\ Emptied => AllFree
  /\ ~Emptied => \A i \in Indices : NameAt(i) \in Rows \ Unusable => \E s \in Sockets : sock[s].dev = i

(* The sockets bound so far do not outnumber the rows read so far.           *)
Counted ==
  /\ CommAt("eth") => Cardinality(Bound) < comm.row
  /\ CommAt("open") => Cardinality(Bound) <= comm.row

(* How the threads go on as long as no restart is asked for.                 *)
Course ==
  /\ ~flag["stop"] /\ main # "stopping" /\ (flag["restart"] => main = "init")
  /\ flag["created"] <=> main \notin {"init", "ports"}
  /\ CommAt("off") <=> ~flag["created"]
  /\ ~CommAt("leaving")
  /\ socket.at \in {"off", "run"} /\ (SocketAt("run") => flag["runSocket"])
  /\ comm.at \in {"off", "display"} => tableState = "Loaded" /\ designator = << >> /\ AllFree
  /\ comm.at \in {"tty", "launch", "waitmain"} => tableState = "Loaded"
  /\ comm.at \in {"eth", "open"} => tableState = IF comm.reload THEN "ReloadTables" ELSE "Loaded"
  /\ flag["deconstruct"] => CommAt("loop") /\ tableState = "WaitForSocketThread"

Undisturbed == Bindings /\ Complete /\ Counted /\ Course

IInv == /\ TypeOK /\ comm.row # 0
        /\ count.restarts = 0 => Undisturbed

(* Every table has a socket for each of its rows.                            *)
SocketsSuffice == \A t \in Tables : Len(t) <= NSockets

-------------------------------------------------------------------------------
(* Types, and the operators the actions are built from.                      *)

CommState == [at : CommPlaces, row : Nat, reload : BOOLEAN, s : 0..NSockets]
TableStates == {"Loaded", "ReloadRequest", "WaitForSocketThread", "ReloadTables"}
SocketState == [at : SocketPlaces, s : 1..(NSockets + 1)]
Entry == [meant : Rows \cup {NoName}, dev : Devs]
Counts == [reloads : 0..MaxReloads, restarts : 0..MaxRestarts]

LEMMA TypesSplit ==
  TypeOK <=>
    /\ table \in Tables
    /\ designator \in Seq(Names) /\ Len(designator) <= MaxDevices
    /\ sock \in [Sockets -> Sock] /\ com \in Devs /\ comm \in CommState
    /\ tableState \in TableStates /\ socket \in SocketState /\ main \in MainPlaces
    /\ flag \in [FlagNames -> BOOLEAN] /\ mail \in Entry /\ count \in Counts
BY DEF TypeOK, Sockets, Sock, Devs, CommState, TableStates, SocketState, Entry, Counts

LEMMA LeastNumber ==
  ASSUME NEW S, S \subseteq Nat, S # {}
  PROVE  \E x \in S : \A y \in S : x <= y
<1>1. IsWellFoundedOn(OpToRel(<, Nat), Nat)
  BY NatLessThanWellFounded
<1>2. PICK x \in S : \A y \in S : <<y, x>> \notin OpToRel(<, Nat)
  BY <1>1, WFMin
<1>3. \A y \in S : ~(y < x)
  BY <1>2 DEF OpToRel
<1>4. \A y \in S : x <= y
  <2> TAKE y \in S
  <2>1. x \in Nat /\ y \in Nat /\ ~(y < x)
    BY <1>3
  <2> QED BY <2>1
<1> QED BY <1>4

LEMMA Indexed ==
  ASSUME TypeOK
  PROVE  /\ Len(designator) \in Nat /\ Len(designator) <= MaxDevices
         /\ \A i \in Indices : i \in Nat /\ i < Len(designator) /\ i \in Devs /\ i # Unbound
                               /\ NameAt(i) = designator[i + 1] /\ NameAt(i) \in Names
<1>1. designator \in Seq(Names) /\ Len(designator) \in Nat /\ Len(designator) <= MaxDevices
  BY TypesSplit
<1>2. ASSUME NEW i \in Indices
      PROVE  i \in Nat /\ i < Len(designator) /\ i \in Devs /\ i # Unbound
             /\ NameAt(i) = designator[i + 1] /\ NameAt(i) \in Names
  <2>1. i \in Nat /\ i < Len(designator) /\ i + 1 \in 1..Len(designator)
    BY <1>1, <1>2 DEF Indices
  <2>2. NameAt(i) = designator[i + 1] /\ designator[i + 1] \in Names
    BY <1>1, <2>1 DEF NameAt
  <2>. QED BY <1>1, <2>1, <2>2, TableAssumption DEF Devs, Unbound
<1>. QED BY <1>1, <1>2

LEMMA IndexOfTyped ==
  ASSUME TypeOK, NEW name
  PROVE  IndexOf(name) \in Devs
<1>. DEFINE S == {i \in Indices : NameAt(i) = name}
<1>1. CASE S = {}
  <2>1. ~(\E i \in Indices : NameAt(i) = name)
    BY <1>1
  <2>. QED BY <2>1, TableAssumption DEF IndexOf, Devs, Unbound
<1>2. CASE S # {}
  <2>1. S \subseteq Nat
    BY Indexed
  <2>2. PICK i \in S : \A j \in S : i <= j
    BY <1>2, <2>1, LeastNumber
  <2>3. \E x \in Indices : NameAt(x) = name /\ \A j \in Indices : NameAt(j) = name => x <= j
    BY <2>2
  <2>4. IndexOf(name) \in Indices
    BY <2>2, <2>3 DEF IndexOf
  <2>. QED BY <2>4, Indexed
<1>. QED BY <1>1, <1>2

LEMMA GrowsByOne ==
  ASSUME TypeOK, RoomForDevice, NEW n \in Names
  PROVE  /\ Append(designator, n) \in Seq(Names) /\ Len(Append(designator, n)) <= MaxDevices
         /\ NewIndex \in Devs /\ NewIndex # Unbound /\ NewIndex \in Nat /\ NewIndex \notin Indices
<1>1. designator \in Seq(Names) /\ Len(designator) \in Nat /\ Len(designator) < MaxDevices
  BY TypesSplit DEF RoomForDevice
<1>. QED BY <1>1, TableAssumption DEF NewIndex, Devs, Unbound, Indices

(* The list with one entry more: the others keep their indices.              *)
LEMMA OneMore ==
  ASSUME TypeOK, NEW n \in Names, designator' = Append(designator, n)
  PROVE  /\ Indices' = Indices \cup {NewIndex}
         /\ \A i \in Indices : NameAt(i)' = NameAt(i)
         /\ \A i : i = NewIndex => NameAt(i)' = n
<1>1. designator \in Seq(Names) /\ Len(designator) \in Nat
  BY TypesSplit
<1>2. /\ Len(designator') = Len(designator) + 1
      /\ \A i \in 1..Len(designator) : designator'[i] = designator[i]
      /\ designator'[Len(designator) + 1] = n
  BY <1>1
<1>3. Indices' = Indices \cup {NewIndex}
  BY <1>1, <1>2 DEF Indices, NewIndex
<1>4. \A i \in Indices : NameAt(i)' = NameAt(i)
  BY <1>1, <1>2, <1>3 DEF Indices, NameAt
<1>5. \A i : i = NewIndex => NameAt(i)' = n
  BY <1>1, <1>2, <1>3 DEF NewIndex, NameAt
<1>. QED BY <1>3, <1>4, <1>5

LEMMA SockTyped ==
  ASSUME TypeOK, NEW s \in Sockets
  PROVE  sock[s] \in Sock /\ sock[s].dev \in Devs /\ sock[s].row \in Rows \cup {NoName}
         /\ sock[s].open \in BOOLEAN
<1>1. sock[s] \in Sock
  BY TypesSplit
<1>. QED BY <1>1 DEF Sock

LEMMA FreshSocket == FreeSocket \in Sock /\ FreeSocket.dev = Unbound /\ FreeSocket.row = NoName
BY TableAssumption DEF FreeSocket, Sock, Devs, Unbound

LEMMA FirstFree ==
  ASSUME TypeOK
  PROVE  /\ GetNewTCPindex \in 0..NSockets
         /\ GetNewTCPindex # 0 => GetNewTCPindex \in Sockets /\ sock[GetNewTCPindex].dev = Unbound
         /\ GetNewTCPindex = 0 => \A s \in Sockets : sock[s].dev # Unbound
<1>. DEFINE free == {s \in 1..NSockets : sock[s].dev = Unbound}
<1>1. GetNewTCPindex = IF free = {} THEN 0 ELSE CHOOSE s \in free : \A t \in free : s <= t
  BY DEF GetNewTCPindex
<1>2. free \subseteq Nat /\ NSockets \in Nat
  BY TableAssumption
<1>3. CASE free = {}
  BY <1>1, <1>2, <1>3 DEF Sockets
<1>4. CASE free # {}
  <2>1. \E x \in free : \A y \in free : x <= y
    BY <1>2, <1>4, LeastNumber
  <2>2. GetNewTCPindex \in free
    BY <1>1, <1>4, <2>1
  <2>. QED BY <1>2, <2>2 DEF Sockets
<1>. QED BY <1>3, <1>4

LEMMA BoundFinite ==
  ASSUME TypeOK
  PROVE  /\ IsFiniteSet(Bound) /\ Cardinality(Bound) \in Nat
         /\ AllFree => Cardinality(Bound) = 0
         /\ (\A s \in Sockets : sock[s].dev # Unbound) => Cardinality(Bound) = NSockets
<1>1. IsFiniteSet(Sockets) /\ Cardinality(Sockets) = NSockets
  BY FS_Interval, TableAssumption DEF Sockets
<1>2. IsFiniteSet(Bound)
  BY <1>1, FS_Subset DEF Bound
<1>3. AllFree => Bound = {}
  BY DEF AllFree, Bound
<1>4. (\A s \in Sockets : sock[s].dev # Unbound) => Bound = Sockets
  BY DEF Bound
<1>. QED BY <1>1, <1>2, <1>3, <1>4, FS_CardinalityType, FS_EmptySet

-------------------------------------------------------------------------------
(* Every step keeps the types.                                               *)

LEMMA FlagSet ==
  ASSUME TypeOK, NEW f \in FlagNames, NEW b \in BOOLEAN
  PROVE  [flag EXCEPT ![f] = b] \in [FlagNames -> BOOLEAN]
BY TypesSplit

LEMMA Flags ==
  /\ {"reload", "deconstruct", "runSocket", "stop", "commRunning", "mainInit", "restart", "created"} = FlagNames
  /\ {"off", "display", "eth", "open", "tty", "launch", "waitmain", "loop", "leaving"} = CommPlaces
  /\ {"off", "run", "close", "pause"} = SocketPlaces
  /\ {"init", "ports", "ready", "go", "loop", "stopping"} = MainPlaces
BY DEF FlagNames, CommPlaces, SocketPlaces, MainPlaces

LEMMA EmptyList == << >> \in Seq(Names) /\ Len(<< >>) <= MaxDevices
<1>1. << >> \in Seq(Names) /\ Len(<< >>) = 0
  OBVIOUS
<1>. QED BY <1>1, TableAssumption

LEMMA CommMoves ==
  ASSUME TypeOK, comm.row # 0, NEW p \in CommPlaces
  PROVE  /\ [comm EXCEPT !.at = p] \in CommState /\ [comm EXCEPT !.at = p].row # 0
         /\ [comm EXCEPT !.row = comm.row + 1] \in CommState /\ [comm EXCEPT !.row = comm.row + 1].row # 0
         /\ [comm EXCEPT !.at = p, !.row = comm.row + 1] \in CommState
         /\ [comm EXCEPT !.at = p, !.row = comm.row + 1].row # 0
         /\ \A b \in BOOLEAN : /\ [comm EXCEPT !.at = p, !.row = 1, !.reload = b] \in CommState
                               /\ [comm EXCEPT !.at = p, !.row = 1, !.reload = b].row # 0
         /\ \A s \in 0..NSockets : /\ [comm EXCEPT !.at = p, !.s = s] \in CommState
                                   /\ [comm EXCEPT !.at = p, !.s = s].row # 0
<1>1. comm \in CommState /\ comm.row \in Nat
  BY TypesSplit DEF CommState
<1>2. PICK k \in Nat : k = comm.row + 1 /\ k # 0
  BY <1>1
<1>3. [comm EXCEPT !.at = p] \in CommState /\ [comm EXCEPT !.at = p].row # 0
  BY <1>1 DEF CommState
<1>4. [comm EXCEPT !.row = k] \in CommState /\ [comm EXCEPT !.row = k].row # 0
  BY <1>1, <1>2 DEF CommState
<1>5. [comm EXCEPT !.at = p, !.row = k] \in CommState /\ [comm EXCEPT !.at = p, !.row = k].row # 0
  BY <1>1, <1>2 DEF CommState
<1>6. ASSUME NEW b \in BOOLEAN
      PROVE  /\ [comm EXCEPT !.at = p, !.row = 1, !.reload = b] \in CommState
             /\ [comm EXCEPT !.at = p, !.row = 1, !.reload = b].row # 0
  <2>. DEFINE c == [comm EXCEPT !.at = p, !.row = 1, !.reload = b]
  <2>1. c \in CommState
    BY <1>1 DEF CommState
  <2>2. c.row = 1
    BY <1>1 DEF CommState
  <2>. QED BY <2>1, <2>2
<1>7. ASSUME NEW s \in 0..NSockets
      PROVE  [comm EXCEPT !.at = p, !.s = s] \in CommState /\ [comm EXCEPT !.at = p, !.s = s].row # 0
  BY <1>1 DEF CommState
<1>. QED BY <1>2, <1>3, <1>4, <1>5, <1>6, <1>7

LEMMA CommLoadsTyped ==
  ASSUME TypeOK, comm.row # 0, AddDisplay \/ AddRow \/ OpenRow \/ LoadTtyDevDesTable
  PROVE  TypeOK' /\ comm'.row # 0
<1>1. CASE AddDisplay
  <2>1. /\ designator' = IF RoomForDevice THEN Append(designator, Sys) ELSE designator
        /\ comm' = [comm EXCEPT !.at = "eth", !.row = 1, !.reload = FALSE]
        /\ table' = table /\ sock' = sock /\ com' = com /\ tableState' = tableState
        /\ socket' = socket /\ main' = main /\ flag' = flag /\ mail' = mail /\ count' = count
    BY <1>1 DEF AddDisplay
  <2>2. designator' \in Seq(Names) /\ Len(designator') <= MaxDevices
    <3>1. Sys \in Names
      BY DEF Names
    <3>. QED BY <2>1, <3>1, GrowsByOne, TypesSplit
  <2>3. comm' \in CommState /\ comm'.row # 0
    BY <2>1, CommMoves, Flags
  <2>. QED BY <2>1, <2>2, <2>3, TypesSplit DEF TypeOK, CommState
<1>2. CASE AddRow
  <2>1. /\ CommAt("eth") /\ comm.row <= Len(table)
        /\ table' = table /\ com' = com /\ tableState' = tableState
        /\ socket' = socket /\ main' = main /\ flag' = flag /\ mail' = mail /\ count' = count
    BY <1>2 DEF AddRow
  <2>2. table[comm.row] \in Rows /\ table[comm.row] \in Names
    <3>1. table \in Seq(Rows) /\ comm.row \in Nat /\ comm.row # 0
      BY TypesSplit, TableAssumption DEF CommState
    <3>. QED BY <2>1, <3>1 DEF Names
  <2>3. CASE ~RoomForDevice
    <3>1. comm' = [comm EXCEPT !.row = comm.row + 1] /\ designator' = designator /\ sock' = sock
      BY <1>2, <2>3 DEF AddRow
    <3>2. comm' \in CommState /\ comm'.row # 0
      BY <3>1, CommMoves, Flags
    <3>. QED BY <2>1, <3>1, <3>2, TypesSplit DEF TypeOK, CommState
  <2>4. CASE RoomForDevice
    <3>1. designator' = Append(designator, table[comm.row])
      BY <1>2, <2>4 DEF AddRow
    <3>2. designator' \in Seq(Names) /\ Len(designator') <= MaxDevices /\ NewIndex \in Devs
      BY <2>2, <2>4, <3>1, GrowsByOne
    <3>3. CASE FindsNoSocket(table[comm.row])
      <4>1. comm' = [comm EXCEPT !.row = comm.row + 1] /\ sock' = sock
        BY <1>2, <2>4, <3>3 DEF AddRow
      <4>2. comm' \in CommState /\ comm'.row # 0
        BY <4>1, CommMoves, Flags
      <4>. QED BY <2>1, <3>2, <4>1, <4>2, TypesSplit DEF TypeOK, CommState
    <3>4. CASE ~FindsNoSocket(table[comm.row])
      <4>1. /\ sock' = [sock EXCEPT ![GetNewTCPindex].dev = NewIndex,
                                    ![GetNewTCPindex].row = table[comm.row]]
            /\ comm' = [comm EXCEPT !.at = "open", !.s = GetNewTCPindex]
        BY <1>2, <2>4, <3>4 DEF AddRow
      <4>2. PICK g \in Sockets, k \in Devs, r \in Rows :
              g = GetNewTCPindex /\ k = NewIndex /\ r = table[comm.row] /\ g \in 0..NSockets
        BY <2>2, <3>2, <3>4, FirstFree DEF FindsNoSocket
      <4>3. comm' \in CommState /\ comm'.row # 0
        BY <4>1, <4>2, CommMoves, Flags
      <4>4. sock' = [sock EXCEPT ![g] = [sock[g] EXCEPT !.dev = k, !.row = r]]
        <5>1. sock' = [sock EXCEPT ![g].dev = k, ![g].row = r]
          BY <4>1, <4>2
        <5>. QED BY <5>1, TypesSplit
      <4>5. sock' \in [Sockets -> Sock]
        <5>1. [sock[g] EXCEPT !.dev = k, !.row = r] \in Sock
          BY SockTyped DEF Sock
        <5>. QED BY <4>4, <5>1, TypesSplit
      <4>. QED BY <2>1, <3>2, <4>3, <4>5, TypesSplit DEF TypeOK, CommState, Sock, Sockets, Devs
    <3>. QED BY <3>3, <3>4
  <2>. QED BY <2>3, <2>4
<1>3. CASE OpenRow
  <2>1. /\ comm' = [comm EXCEPT !.at = "eth", !.row = comm.row + 1]
        /\ table' = table /\ designator' = designator /\ com' = com /\ tableState' = tableState
        /\ socket' = socket /\ main' = main /\ flag' = flag /\ mail' = mail /\ count' = count
    BY <1>3 DEF OpenRow
  <2>2. PICK ok \in BOOLEAN : sock' = [sock EXCEPT ![comm.s].open = ok]
    BY <1>3 DEF OpenRow
  <2>3. sock' \in [Sockets -> Sock]
    <3>1. \A s \in Sockets : [sock[s] EXCEPT !.open = ok] \in Sock
      BY SockTyped DEF Sock
    <3>2. sock' = [s \in Sockets |-> IF s = comm.s THEN [sock[s] EXCEPT !.open = ok] ELSE sock[s]]
      BY <2>2, TypesSplit
    <3>. QED BY <3>1, <3>2, SockTyped
  <2>4. comm' \in CommState /\ comm'.row # 0
    BY <2>1, CommMoves, Flags
  <2>. QED BY <2>1, <2>3, <2>4, TypesSplit DEF TypeOK, CommState, Sock, Sockets, Devs
<1>4. CASE LoadTtyDevDesTable
  <2>1. /\ comm' = [comm EXCEPT !.at = IF comm.reload THEN "loop" ELSE "launch"]
        /\ \/ designator' = designator /\ com' = com
           \/ RoomForDevice /\ designator' = Append(designator, Com) /\ com' = NewIndex
        /\ table' = table /\ sock' = sock /\ tableState' = tableState
        /\ socket' = socket /\ main' = main /\ flag' = flag /\ mail' = mail /\ count' = count
    BY <1>4 DEF LoadTtyDevDesTable
  <2>2. designator' \in Seq(Names) /\ Len(designator') <= MaxDevices /\ com' \in Devs
    <3>1. Com \in Names
      BY DEF Names
    <3>. QED BY <2>1, <3>1, GrowsByOne, TypesSplit
  <2>3. comm' \in CommState /\ comm'.row # 0
    <3>1. comm' = [comm EXCEPT !.at = "loop"] \/ comm' = [comm EXCEPT !.at = "launch"]
      BY <2>1
    <3>. QED BY <3>1, CommMoves, Flags
  <2>. QED BY <2>1, <2>2, <2>3, TypesSplit DEF TypeOK, CommState, Devs
<1>. QED BY <1>1, <1>2, <1>3, <1>4

(* The steps of Comm that leave the tables alone.                            *)
LEMMA CommWalksTyped ==
  ASSUME TypeOK, comm.row # 0,
         RowsDone \/ Launch \/ MainIsInitialized \/ FirstPass \/ SeeRequest \/ AskSocketThread
         \/ SocketsDeconstructed \/ ReloadTables \/ LeaveLoop \/ CommHalted
  PROVE  TypeOK' /\ comm'.row # 0
<1>1. /\ table' = table /\ sock' = sock /\ com' = com /\ main' = main /\ count' = count /\ mail' = mail
  BY DEF RowsDone, Launch, MainIsInitialized, FirstPass, SeeRequest, AskSocketThread,
     SocketsDeconstructed, ReloadTables, LeaveLoop, CommHalted, Pass
<1>2. designator' = designator \/ designator' = << >>
  BY DEF RowsDone, Launch, MainIsInitialized, FirstPass, SeeRequest, AskSocketThread,
     SocketsDeconstructed, ReloadTables, LeaveLoop, CommHalted, Pass, Cleared
<1>3. tableState' \in TableStates
  BY TypesSplit DEF RowsDone, Launch, MainIsInitialized, FirstPass, SeeRequest, AskSocketThread,
     SocketsDeconstructed, ReloadTables, LeaveLoop, CommHalted, Pass, TableStates
<1>4. \/ flag' = flag
      \/ flag' = [flag EXCEPT !["reload"] = FALSE] \/ flag' = [flag EXCEPT !["runSocket"] = TRUE]
      \/ flag' = [flag EXCEPT !["commRunning"] = TRUE] \/ flag' = [flag EXCEPT !["deconstruct"] = TRUE]
      \/ flag' = [flag EXCEPT !["runSocket"] = FALSE] \/ flag' = [flag EXCEPT !["commRunning"] = FALSE]
  BY DEF RowsDone, Launch, MainIsInitialized, FirstPass, SeeRequest, AskSocketThread,
     SocketsDeconstructed, ReloadTables, LeaveLoop, CommHalted, Pass
<1>5. socket' = socket \/ socket' = [socket EXCEPT !.at = "run"]
  BY DEF RowsDone, Launch, MainIsInitialized, FirstPass, SeeRequest, AskSocketThread,
     SocketsDeconstructed, ReloadTables, LeaveLoop, CommHalted, Pass
<1>6. \/ comm' = comm \/ \E p \in CommPlaces : comm' = [comm EXCEPT !.at = p]
      \/ comm' = [comm EXCEPT !.at = "eth", !.row = 1, !.reload = TRUE]
  BY Flags DEF RowsDone, Launch, MainIsInitialized, FirstPass, SeeRequest, AskSocketThread,
     SocketsDeconstructed, ReloadTables, LeaveLoop, CommHalted, Pass
<1>7. designator' \in Seq(Names) /\ Len(designator') <= MaxDevices
  BY <1>2, TypesSplit, EmptyList
<1>8. flag' \in [FlagNames -> BOOLEAN]
  BY <1>4, FlagSet, Flags, TypesSplit
<1>9. socket' \in SocketState
  BY <1>5, Flags, TypesSplit DEF SocketState
<1>10. comm' \in CommState /\ comm'.row # 0
  BY <1>6, CommMoves, Flags, TypesSplit
<1>. QED BY <1>1, <1>3, <1>7, <1>8, <1>9, <1>10, TypesSplit DEF TypeOK, CommState, SocketState, TableStates

LEMMA SocketThreadTyped ==
  ASSUME TypeOK, comm.row # 0, SocketStep
  PROVE  TypeOK' /\ comm'.row # 0
<1>1. /\ table' = table /\ designator' = designator /\ com' = com /\ comm' = comm
      /\ tableState' = tableState /\ main' = main /\ count' = count
  BY DEF SocketStep, DeconstructSockets, ServeSockets, StartClosing, CloseSocket, AllClosed, Paused
<1>2. mail' = mail \/ mail' = NoMail
  BY DEF SocketStep, DeconstructSockets, ServeSockets, StartClosing, CloseSocket, AllClosed, Paused
<1>3. \/ flag' = flag \/ flag' = [flag EXCEPT !["deconstruct"] = FALSE]
      \/ flag' = [flag EXCEPT !["commRunning"] = FALSE]
  BY DEF SocketStep, DeconstructSockets, ServeSockets, StartClosing, CloseSocket, AllClosed, Paused
<1>4. mail' \in Entry
  <2>1. NoMail \in Entry
    BY TableAssumption DEF NoMail, Entry, Devs, Unbound
  <2>. QED BY <1>2, <2>1, TypesSplit
<1>5. flag' \in [FlagNames -> BOOLEAN]
  BY <1>3, FlagSet, Flags, TypesSplit
<1>6. socket' \in SocketState
  <2>1. socket \in SocketState /\ socket.s \in Nat /\ NSockets \in Nat
    BY TypesSplit, TableAssumption DEF SocketState
  <2>2. \/ socket' = socket
        \/ socket' = [at |-> "close", s |-> 1] \/ socket' = [at |-> "pause", s |-> 1]
        \/ socket' = [at |-> "run", s |-> 1] \/ socket' = [socket EXCEPT !.at = "run"]
        \/ socket.s <= NSockets /\ socket' = [socket EXCEPT !.s = socket.s + 1]
    BY DEF SocketStep, DeconstructSockets, ServeSockets, StartClosing, CloseSocket, AllClosed, Paused
  <2>3. 1 \in 1..(NSockets + 1) /\ (socket.s <= NSockets => socket.s + 1 \in 1..(NSockets + 1))
    BY <2>1
  <2>. QED BY <2>1, <2>2, <2>3, Flags DEF SocketState
<1>7. sock' \in [Sockets -> Sock]
  <2>1. CASE DeconstructSockets
    <3>1. sock' = [s \in Sockets |-> FreeSocket]
      BY <2>1 DEF DeconstructSockets, Deconstructed, Sockets
    <3>. QED BY <3>1, FreshSocket
  <2>2. CASE ServeSockets
    <3>1. PICK opened : sock' = [s \in Sockets |-> [sock[s] EXCEPT !.open = @ \/ s \in opened]]
      BY <2>2 DEF ServeSockets, Sockets
    <3>2. ASSUME NEW s \in Sockets
          PROVE  [sock[s] EXCEPT !.open = @ \/ s \in opened] \in Sock
      <4>1. (sock[s].open \/ s \in opened) \in BOOLEAN
        OBVIOUS
      <4>. QED BY <4>1, SockTyped DEF Sock
    <3>. QED BY <3>1, <3>2
  <2>3. CASE CloseSocket
    <3>. PICK k \in Nat : k = socket.s
      BY TypesSplit DEF SocketState
    <3>1. /\ socket.s <= NSockets
          /\ sock' = [sock EXCEPT ![socket.s] =
                        IF sock[socket.s].dev = Unbound THEN sock[socket.s]
                        ELSE IF sock[socket.s].open THEN [sock[socket.s] EXCEPT !.open = FALSE] ELSE FreeSocket]
      BY <2>3 DEF CloseSocket
    <3>2. k \in Sockets
      BY <3>1, TypesSplit, TableAssumption DEF SocketState, Sockets
    <3>3. [sock[k] EXCEPT !.open = FALSE] \in Sock /\ sock[k] \in Sock
      BY <3>2, SockTyped DEF Sock
    <3>4. \/ sock' = [sock EXCEPT ![k] = sock[k]] \/ sock' = [sock EXCEPT ![k] = FreeSocket]
          \/ sock' = [sock EXCEPT ![k] = [sock[k] EXCEPT !.open = FALSE]]
      BY <3>1
    <3>. QED BY <3>3, <3>4, FreshSocket, TypesSplit
  <2>4. CASE StartClosing \/ AllClosed \/ Paused
    BY <2>4, TypesSplit DEF StartClosing, AllClosed, Paused
  <2>. QED BY <2>1, <2>2, <2>3, <2>4 DEF SocketStep
<1>. QED BY <1>1, <1>4, <1>5, <1>6, <1>7, TypesSplit
         DEF TypeOK, SocketState, Sock, Sockets, Devs, Entry

LEMMA MainTyped ==
  ASSUME TypeOK, comm.row # 0,
         MainStep \/ StoreTables \/ Restart \/ \E name \in Mail : RouteMail(name)
  PROVE  TypeOK' /\ comm'.row # 0
<1>1. sock' = sock /\ tableState' = tableState /\ socket' = socket
  BY DEF MainStep, StartInit, InitializeComPorts, InitializationComplete, LetCommRun,
     StopCommunications, ClearDevices, StoreTables, Restart, RouteMail
<1>2. designator' = designator \/ designator' = << >>
  BY DEF MainStep, StartInit, InitializeComPorts, InitializationComplete, LetCommRun,
     StopCommunications, ClearDevices, StoreTables, Restart, RouteMail, Cleared
<1>3. com' = com \/ com' = Unbound
  BY DEF MainStep, StartInit, InitializeComPorts, InitializationComplete, LetCommRun,
     StopCommunications, ClearDevices, StoreTables, Restart, RouteMail
<1>4. comm' = comm \/ comm' = [comm EXCEPT !.at = "display"]
  BY DEF MainStep, StartInit, InitializeComPorts, InitializationComplete, LetCommRun,
     StopCommunications, ClearDevices, StoreTables, Restart, RouteMail
<1>5. main' \in MainPlaces
  BY TypesSplit, Flags DEF MainStep, StartInit, InitializeComPorts, InitializationComplete, LetCommRun,
     StopCommunications, ClearDevices, StoreTables, Restart, RouteMail, MainGoes
<1>6. table' \in Tables
  BY TypesSplit DEF MainStep, StartInit, InitializeComPorts, InitializationComplete, LetCommRun,
     StopCommunications, ClearDevices, StoreTables, Restart, RouteMail
<1>7. flag' \in [FlagNames -> BOOLEAN]
  <2>1. flag \in [FlagNames -> BOOLEAN]
    BY TypesSplit
  <2>2. \/ flag' = flag
        \/ flag' = [flag EXCEPT !["mainInit"] = FALSE, !["restart"] = FALSE]
        \/ flag' = [flag EXCEPT !["created"] = TRUE] \/ flag' = [flag EXCEPT !["mainInit"] = TRUE]
        \/ flag' = [flag EXCEPT !["stop"] = FALSE] \/ flag' = [flag EXCEPT !["stop"] = TRUE]
        \/ flag' = [flag EXCEPT !["reload"] = TRUE] \/ flag' = [flag EXCEPT !["restart"] = TRUE]
    BY DEF MainStep, StartInit, InitializeComPorts, InitializationComplete, LetCommRun,
       StopCommunications, ClearDevices, StoreTables, Restart, RouteMail, NotStopped
  <2>. QED BY <2>1, <2>2, Flags
<1>8. mail' \in Entry
  <2>1. CASE mail' = mail
    BY <2>1, TypesSplit
  <2>2. ASSUME NEW name \in Mail, RouteMail(name)
        PROVE  mail' \in Entry
    <3>1. mail' = [meant |-> name, dev |-> IndexOf(name)]
      BY <2>2 DEF RouteMail
    <3>. QED BY <3>1, IndexOfTyped, TableAssumption DEF Entry
  <2>3. MainStep \/ StoreTables \/ Restart => mail' = mail
    BY DEF MainStep, StartInit, InitializeComPorts, InitializationComplete, LetCommRun,
       StopCommunications, ClearDevices, StoreTables, Restart
  <2>. QED BY <2>1, <2>2, <2>3
<1>9. count' \in Counts
  <2>1. count \in Counts /\ count.reloads \in Nat /\ count.restarts \in Nat
        /\ count.reloads <= MaxReloads /\ count.restarts <= MaxRestarts
    BY TypesSplit, TableAssumption DEF Counts
  <2>2. \/ count' = count
        \/ count.reloads < MaxReloads /\ count' = [count EXCEPT !.reloads = count.reloads + 1]
        \/ count.restarts < MaxRestarts /\ count' = [count EXCEPT !.restarts = count.restarts + 1]
    BY DEF MainStep, StartInit, InitializeComPorts, InitializationComplete, LetCommRun,
       StopCommunications, ClearDevices, StoreTables, Restart, RouteMail
  <2>3. /\ count.reloads < MaxReloads => count.reloads + 1 \in 0..MaxReloads
        /\ count.restarts < MaxRestarts => count.restarts + 1 \in 0..MaxRestarts
    BY <2>1, TableAssumption
  <2>. QED BY <2>1, <2>2, <2>3 DEF Counts
<1>10. designator' \in Seq(Names) /\ Len(designator') <= MaxDevices
  BY <1>2, TypesSplit, EmptyList
<1>11. com' \in Devs
  BY <1>3, TypesSplit, TableAssumption DEF Devs, Unbound
<1>12. comm' \in CommState /\ comm'.row # 0
  BY <1>4, CommMoves, Flags, TypesSplit
<1>. QED BY <1>1, <1>5, <1>6, <1>7, <1>8, <1>9, <1>10, <1>11, <1>12, TypesSplit
         DEF TypeOK, CommState, Counts, Devs, Entry

LEMMA TypesKept ==
  ASSUME TypeOK, comm.row # 0, [Next]_vars
  PROVE  TypeOK' /\ comm'.row # 0
<1>1. CASE UNCHANGED vars
  BY <1>1 DEF vars, TypeOK
<1>2. CASE Next
  BY <1>2, CommLoadsTyped, CommWalksTyped, SocketThreadTyped, MainTyped DEF Next, CommStep
<1>. QED BY <1>1, <1>2

-------------------------------------------------------------------------------
(* The bindings as long as no restart is asked for.                          *)

AllBound == \A i \in Indices : NameAt(i) \in Rows \ Unusable => \E s \in Sockets : sock[s].dev = i

LEMMA Uniform == Complete <=> (Emptied => AllFree) /\ (~Emptied => AllBound)
BY DEF Complete, AllBound

LEMMA FreeIsBound ==
  ASSUME AllFree, \A s \in Sockets : sock[s].dev = Unbound => sock[s].row = NoName
  PROVE  Bindings
BY DEF AllFree, Bindings

(* A step that changes neither the list nor what the sockets are bound to.   *)
LEMMA BindingsStay ==
  ASSUME Bindings, designator' = designator,
         \A s \in Sockets : sock'[s].dev = sock[s].dev /\ sock'[s].row = sock[s].row
  PROVE  /\ Bindings' /\ Bound' = Bound /\ (AllFree => AllFree') /\ (AllBound => AllBound')
<1>1. Indices' = Indices /\ \A i : NameAt(i)' = NameAt(i)
  BY DEF Indices, NameAt
<1>2. Bindings'
  BY <1>1 DEF Bindings
<1>3. Bound' = Bound
  BY DEF Bound
<1>4. AllFree => AllFree'
  BY DEF AllFree
<1>5. AllBound => AllBound'
  BY <1>1 DEF AllBound
<1>. QED BY <1>2, <1>3, <1>4, <1>5

(* One entry more and no socket bound to it: harmless when it is no row of    *)
(* the Ethernet table that can be used.                                      *)
LEMMA OtherDeviceAdded ==
  ASSUME TypeOK, Bindings, NEW n \in {Sys, Com} \cup Unusable,
         designator' = Append(designator, n), sock' = sock
  PROVE  Bindings' /\ (AllBound => AllBound')
<1>1. n \in Names /\ n \notin Rows \ Unusable
  BY TableAssumption DEF Names
<1>2. /\ Indices' = Indices \cup {NewIndex}
      /\ \A i \in Indices : NameAt(i)' = NameAt(i)
      /\ \A i : i = NewIndex => NameAt(i)' = n
  BY <1>1, OneMore
<1>3. Bindings'
  BY <1>2 DEF Bindings
<1>4. AllBound => AllBound'
  BY <1>1, <1>2 DEF AllBound
<1>. QED BY <1>3, <1>4

(* A row and its socket: the socket was free, so the bindings stay distinct,  *)
(* and their number grows by one.                                            *)
LEMMA RowBound ==
  ASSUME TypeOK, Bindings, AllBound, RoomForDevice, NEW n \in Rows \ Unusable, NEW g \in Sockets,
         sock[g].dev = Unbound, designator' = Append(designator, n),
         \A s \in Sockets \ {g} : sock'[s].dev = sock[s].dev /\ sock'[s].row = sock[s].row,
         sock'[g].dev = NewIndex, sock'[g].row = n
  PROVE  Bindings' /\ AllBound' /\ Cardinality(Bound') = Cardinality(Bound) + 1
<1>1. n \in Names
  BY DEF Names
<1>2. /\ Indices' = Indices \cup {NewIndex}
      /\ \A i \in Indices : NameAt(i)' = NameAt(i)
      /\ \A i : i = NewIndex => NameAt(i)' = n
  BY <1>1, OneMore
<1>3. PICK k \in Devs : k = NewIndex /\ k # Unbound /\ k \notin Indices
  BY <1>1, GrowsByOne
<1>4. k \in Indices' /\ NameAt(k)' = n
  BY <1>2, <1>3
<1>5. Bindings'
  <2>1. \A s \in Sockets : sock'[s].dev = Unbound => sock'[s].row = NoName
    BY <1>3 DEF Bindings
  <2>2. ASSUME NEW s \in Sockets, sock'[s].dev # Unbound
        PROVE  (sock[s].dev \in Indices /\ sock[s].row = NameAt(sock[s].dev)
                /\ sock[s].row \in Rows \ Unusable)'
    <3>1. \E i \in Indices' : sock'[s].dev = i /\ sock'[s].row = NameAt(i)'
                                 /\ sock'[s].row \in Rows \ Unusable
      <4>1. CASE s = g
        BY <1>3, <1>4, <4>1
      <4>2. CASE s # g
        <5>1. /\ sock[s].dev \in Indices /\ sock[s].row = NameAt(sock[s].dev)
       /\ sock[s].row \in Rows \ Unusable
              /\ sock'[s].dev = sock[s].dev /\ sock'[s].row = sock[s].row
          BY <2>2, <4>2 DEF Bindings
        <5>2. PICK i \in Indices : i = sock[s].dev
          BY <5>1
        <5>3. i \in Indices' /\ NameAt(i)' = NameAt(i)
          BY <1>2
        <5>. QED BY <5>1, <5>2, <5>3
      <4>. QED BY <4>1, <4>2
    <3>. QED BY <3>1 DEF NameAt
  <2>3. ASSUME NEW s \in Sockets, NEW t \in Sockets, sock'[s].dev # Unbound, sock'[s].dev = sock'[t].dev
        PROVE  s = t
    BY <1>3, <2>3 DEF Bindings
  <2>. QED BY <2>1, <2>2, <2>3 DEF Bindings
<1>6. AllBound'
  <2>. SUFFICES ASSUME NEW i \in Indices', NameAt(i)' \in Rows \ Unusable
                PROVE  \E s \in Sockets : sock'[s].dev = i
    BY DEF AllBound
  <2>1. CASE i \in Indices
    <3>1. PICK s \in Sockets : sock[s].dev = i
      BY <1>2, <2>1 DEF AllBound
    <3>2. s # g
      BY <2>1, <3>1, Indexed
    <3>. QED BY <3>1, <3>2
  <2>2. CASE i = NewIndex
    BY <2>2
  <2>. QED BY <1>2, <2>1, <2>2
<1>7. Bound' = Bound \cup {g} /\ g \notin Bound
  BY <1>3 DEF Bound
<1>. QED BY <1>5, <1>6, <1>7, BoundFinite, FS_AddElement

(* The loads.                                                                *)
LEMMA LoadsKeepBindings ==
  ASSUME TypeOK, comm.row # 0, Undisturbed, SocketsSuffice,
         AddDisplay \/ AddRow \/ OpenRow \/ LoadTtyDevDesTable
  PROVE  Undisturbed'
<1>. USE DEF Undisturbed, CommAt
<1>0. comm.row \in Nat /\ comm \in CommState
  BY TypesSplit DEF CommState
<1>1. CASE AddDisplay
  <2>1. /\ comm.at = "display"
        /\ designator' = IF RoomForDevice THEN Append(designator, Sys) ELSE designator
        /\ comm' = [comm EXCEPT !.at = "eth", !.row = 1, !.reload = FALSE]
        /\ sock' = sock /\ tableState' = tableState /\ socket' = socket /\ main' = main /\ flag' = flag
    BY <1>1 DEF AddDisplay
  <2>2. comm'.at = "eth" /\ comm'.row = 1 /\ comm'.reload = FALSE
    BY <1>0, <2>1 DEF CommState
  <2>3. AllFree /\ tableState = "Loaded" /\ designator = << >> /\ AllBound
    <3>1. AllFree /\ tableState = "Loaded" /\ designator = << >>
      BY <2>1 DEF Course
    <3>2. Indices = {}
      BY <3>1 DEF Indices
    <3>. QED BY <3>1, <3>2 DEF AllBound
  <2>4. Bindings' /\ AllBound'
    <3>1. CASE designator' = Append(designator, Sys)
      BY <2>1, <2>3, <3>1, OtherDeviceAdded
    <3>2. CASE designator' = designator
      BY <2>1, <2>3, <3>2, BindingsStay
    <3>. QED BY <2>1, <3>1, <3>2
  <2>5. Complete'
    BY <2>2, <2>4 DEF Complete, AllBound, Emptied
  <2>6. Counted'
    <3>1. Bound' = Bound /\ Cardinality(Bound) = 0
      BY <2>1, <2>3, BoundFinite DEF Bound
    <3>. QED BY <2>2, <3>1 DEF Counted
  <2>7. Course'
    BY <2>1, <2>2, <2>3 DEF Course, SocketAt
  <2>. QED BY <2>4, <2>5, <2>6, <2>7
<1>2. CASE AddRow
  <2>1. /\ comm.at = "eth" /\ comm.row <= Len(table)
        /\ tableState' = tableState /\ socket' = socket /\ main' = main /\ flag' = flag
    BY <1>2 DEF AddRow
  <2>2. table[comm.row] \in Rows /\ comm.row <= NSockets
    <3>1. table \in Seq(Rows) /\ table \in Tables
      BY TypesSplit, TableAssumption
    <3>. QED BY <1>0, <2>1, <3>1, TableAssumption DEF SocketsSuffice
  <2>3. AllBound /\ Cardinality(Bound) < comm.row /\ Cardinality(Bound) \in Nat
    BY <2>1, BoundFinite, Uniform DEF Counted, Emptied
  <2>4. ASSUME comm'.at \in {"eth", "open"}, comm'.reload = comm.reload
        PROVE  Course'
    BY <2>1, <2>4 DEF Course, SocketAt
  <2>5. CASE ~RoomForDevice
    <3>1. comm' = [comm EXCEPT !.row = comm.row + 1] /\ designator' = designator /\ sock' = sock
      BY <1>2, <2>5 DEF AddRow
    <3>2. comm'.at = "eth" /\ comm'.row = comm.row + 1 /\ comm'.reload = comm.reload
      BY <1>0, <2>1, <3>1 DEF CommState
    <3>3. Bindings' /\ AllBound' /\ Bound' = Bound
      BY <2>3, <3>1, BindingsStay
    <3>4. Complete' /\ Counted'
      BY <1>0, <2>3, <3>2, <3>3 DEF Complete, AllBound, Emptied, Counted
    <3>. QED BY <2>4, <3>2, <3>3, <3>4
  <2>6. CASE RoomForDevice /\ table[comm.row] \in Unusable
    <3>1. /\ designator' = Append(designator, table[comm.row]) /\ sock' = sock
          /\ comm' = [comm EXCEPT !.row = comm.row + 1]
      BY <1>2, <2>6 DEF AddRow, FindsNoSocket
    <3>2. comm'.at = "eth" /\ comm'.row = comm.row + 1 /\ comm'.reload = comm.reload
      BY <1>0, <2>1, <3>1 DEF CommState
    <3>3. Bindings' /\ AllBound' /\ Bound' = Bound
      <4>1. PICK n \in {Sys, Com} \cup Unusable : designator' = Append(designator, n)
        BY <2>6, <3>1
      <4>. QED BY <2>3, <3>1, <4>1, OtherDeviceAdded DEF Bound
    <3>4. Complete' /\ Counted'
      BY <1>0, <2>3, <3>2, <3>3 DEF Complete, AllBound, Emptied, Counted
    <3>. QED BY <2>4, <3>2, <3>3, <3>4
  <2>7. CASE RoomForDevice /\ table[comm.row] \notin Unusable
    <3>1. GetNewTCPindex # 0
      <4>1. ~(\A s \in Sockets : sock[s].dev # Unbound)
        BY <1>0, <2>2, <2>3, BoundFinite, TableAssumption
      <4>. QED BY <4>1, FirstFree
    <3>2. /\ designator' = Append(designator, table[comm.row])
          /\ sock' = [sock EXCEPT ![GetNewTCPindex].dev = NewIndex,
                                  ![GetNewTCPindex].row = table[comm.row]]
          /\ comm' = [comm EXCEPT !.at = "open", !.s = GetNewTCPindex]
      BY <1>2, <2>7, <3>1 DEF AddRow, FindsNoSocket
    <3>3. PICK g \in Sockets, n \in Rows \ Unusable :
            g = GetNewTCPindex /\ n = table[comm.row] /\ sock[g].dev = Unbound
      BY <2>2, <2>7, <3>1, FirstFree
    <3>4. /\ \A s \in Sockets \ {g} : sock'[s].dev = sock[s].dev /\ sock'[s].row = sock[s].row
          /\ sock'[g].dev = NewIndex /\ sock'[g].row = n
      <4>1. sock \in [Sockets -> Sock] /\ sock[g] \in Sock
        BY TypesSplit
      <4>2. sock' = [sock EXCEPT ![g].dev = NewIndex, ![g].row = n]
        BY <3>2, <3>3
      <4>3. /\ \A s \in Sockets \ {g} : sock'[s] = sock[s]
            /\ sock'[g] = [sock[g] EXCEPT !.dev = NewIndex, !.row = n]
        BY <4>1, <4>2
      <4>. QED BY <4>1, <4>3 DEF Sock
    <3>5. Bindings' /\ AllBound' /\ Cardinality(Bound') = Cardinality(Bound) + 1
      BY <2>3, <2>7, <3>2, <3>3, <3>4, RowBound
    <3>6. comm'.at = "open" /\ comm'.row = comm.row /\ comm'.reload = comm.reload
      BY <1>0, <3>2 DEF CommState
    <3>7. Complete' /\ Counted'
      BY <1>0, <2>3, <3>5, <3>6 DEF Complete, AllBound, Emptied, Counted
    <3>. QED BY <2>4, <3>5, <3>6, <3>7
  <2>. QED BY <2>5, <2>6, <2>7
<1>3. CASE OpenRow
  <2>1. /\ comm.at = "open" /\ comm' = [comm EXCEPT !.at = "eth", !.row = comm.row + 1]
        /\ designator' = designator /\ tableState' = tableState
        /\ socket' = socket /\ main' = main /\ flag' = flag
    BY <1>3 DEF OpenRow
  <2>2. \A s \in Sockets : sock'[s].dev = sock[s].dev /\ sock'[s].row = sock[s].row
    <3>1. PICK ok \in BOOLEAN : sock' = [sock EXCEPT ![comm.s].open = ok]
      BY <1>3 DEF OpenRow
    <3>2. ASSUME NEW s \in Sockets
          PROVE  sock'[s] = sock[s] \/ sock'[s] = [sock[s] EXCEPT !.open = ok]
      BY <3>1, TypesSplit
    <3>3. ASSUME NEW s \in Sockets
          PROVE  [sock[s] EXCEPT !.open = ok].dev = sock[s].dev /\ [sock[s] EXCEPT !.open = ok].row = sock[s].row
      BY SockTyped DEF Sock
    <3>. QED BY <3>2, <3>3
  <2>3. comm'.at = "eth" /\ comm'.row = comm.row + 1 /\ comm'.reload = comm.reload
    BY <1>0, <2>1 DEF CommState
  <2>4. AllBound /\ Cardinality(Bound) <= comm.row /\ Cardinality(Bound) \in Nat
    BY <2>1, BoundFinite, Uniform DEF Counted, Emptied
  <2>5. Bindings' /\ AllBound' /\ Bound' = Bound
    BY <2>1, <2>2, <2>4, BindingsStay
  <2>6. Complete' /\ Counted'
    BY <1>0, <2>3, <2>4, <2>5 DEF Complete, AllBound, Emptied, Counted
  <2>7. Course'
    BY <2>1, <2>3 DEF Course, SocketAt
  <2>. QED BY <2>5, <2>6, <2>7
<1>4. CASE LoadTtyDevDesTable
  <2>1. /\ comm.at = "tty"
        /\ comm' = [comm EXCEPT !.at = IF comm.reload THEN "loop" ELSE "launch"]
        /\ designator' = designator \/ designator' = Append(designator, Com)
        /\ sock' = sock /\ tableState' = tableState
        /\ socket' = socket /\ main' = main /\ flag' = flag
    BY <1>4 DEF LoadTtyDevDesTable
  <2>2. comm'.at \in {"loop", "launch"}
    BY <1>0, <2>1 DEF CommState
  <2>3. AllBound /\ tableState = "Loaded"
    BY <2>1, Uniform DEF Course, Emptied
  <2>4. Bindings' /\ AllBound'
    <3>1. CASE designator' = Append(designator, Com)
      BY <2>1, <2>3, <3>1, OtherDeviceAdded
    <3>2. CASE designator' = designator
      BY <2>1, <2>3, <3>2, BindingsStay
    <3>. QED BY <2>1, <3>1, <3>2
  <2>5. Complete' /\ Counted'
    BY <2>1, <2>2, <2>3, <2>4 DEF Complete, AllBound, Emptied, Counted
  <2>6. Course'
    BY <2>1, <2>2, <2>3 DEF Course, SocketAt
  <2>. QED BY <2>4, <2>5, <2>6
<1>. QED BY <1>1, <1>2, <1>3, <1>4

(* The handshake and the other steps of Comm.                                *)
LEMMA FlagsRead ==
  ASSUME TypeOK, NEW f \in FlagNames, NEW b \in BOOLEAN
  PROVE  /\ [flag EXCEPT ![f] = b][f] = b
         /\ \A e \in FlagNames \ {f} : [flag EXCEPT ![f] = b][e] = flag[e]
BY TypesSplit

LEMMA CommKeepsBindings ==
  ASSUME TypeOK, Undisturbed,
         RowsDone \/ Launch \/ MainIsInitialized \/ FirstPass \/ SeeRequest \/ AskSocketThread
         \/ SocketsDeconstructed \/ ReloadTables \/ LeaveLoop \/ CommHalted
  PROVE  Undisturbed'
<1>. USE DEF Undisturbed, CommAt, SocketAt
<1>0. comm \in CommState /\ socket \in SocketState /\ flag \in [FlagNames -> BOOLEAN]
  BY TypesSplit
<1>1. ASSUME designator' = designator, sock' = sock, comm'.at \notin {"eth", "open"}, ~Emptied, ~Emptied'
      PROVE  Bindings' /\ Complete' /\ Counted'
  <2>1. Bindings' /\ AllBound'
    BY <1>1, Uniform, BindingsStay
  <2>. QED BY <1>1, <2>1 DEF Complete, AllBound, Counted
<1>2. CASE RowsDone
  <2>1. /\ comm.at = "eth" /\ comm' = [comm EXCEPT !.at = "tty"]
        /\ designator' = designator /\ sock' = sock /\ socket' = socket /\ main' = main
    BY <1>2 DEF RowsDone
  <2>2. comm'.at = "tty"
    BY <1>0, <2>1 DEF CommState
  <2>3. tableState' = "Loaded"
    BY <1>2, <2>1 DEF RowsDone, Course
  <2>4. \A f \in FlagNames \ {"reload"} : flag'[f] = flag[f]
    <3>1. flag' = flag \/ flag' = [flag EXCEPT !["reload"] = FALSE]
      BY <1>2 DEF RowsDone
    <3>. QED BY <3>1, TypesSplit, Flags
  <2>5. Bindings' /\ Complete' /\ Counted'
    BY <1>1, <2>1, <2>2 DEF Emptied
  <2>6. flag'["deconstruct"] = flag["deconstruct"] /\ flag'["stop"] = flag["stop"]
        /\ flag'["restart"] = flag["restart"] /\ flag'["created"] = flag["created"]
        /\ flag'["runSocket"] = flag["runSocket"]
    BY <2>4, Flags
  <2>7. Course'
    BY <2>1, <2>2, <2>3, <2>6 DEF Course
  <2>. QED BY <2>5, <2>7
<1>3. CASE Launch
  <2>1. /\ comm.at = "launch" /\ comm' = [comm EXCEPT !.at = "waitmain"]
        /\ flag' = [flag EXCEPT !["runSocket"] = TRUE]
        /\ socket' = IF socket.at = "off" THEN [socket EXCEPT !.at = "run"] ELSE socket
        /\ designator' = designator /\ sock' = sock /\ tableState' = tableState /\ main' = main
    BY <1>3 DEF Launch
  <2>2. comm'.at = "waitmain"
    BY <1>0, <2>1 DEF CommState
  <2>3. flag'["runSocket"] = TRUE /\ \A f \in FlagNames \ {"runSocket"} : flag'[f] = flag[f]
    BY <2>1, FlagsRead, Flags
  <2>4. socket'.at \in {"off", "run"}
    BY <1>0, <2>1 DEF SocketState, Course
  <2>5. Bindings' /\ Complete' /\ Counted'
    BY <1>1, <2>1, <2>2 DEF Emptied
  <2>6. flag'["deconstruct"] = flag["deconstruct"] /\ flag'["stop"] = flag["stop"]
        /\ flag'["restart"] = flag["restart"] /\ flag'["created"] = flag["created"]
    BY <2>3, Flags
  <2>7. Course'
    BY <2>1, <2>2, <2>3, <2>4, <2>6 DEF Course
  <2>. QED BY <2>5, <2>7
<1>4. CASE MainIsInitialized
  <2>1. /\ comm.at = "waitmain" /\ comm' = [comm EXCEPT !.at = "loop"]
        /\ flag' = flag /\ socket' = socket
        /\ designator' = designator /\ sock' = sock /\ tableState' = tableState /\ main' = main
    BY <1>4 DEF MainIsInitialized
  <2>2. comm'.at = "loop"
    BY <1>0, <2>1 DEF CommState
  <2>3. tableState = "Loaded"
    BY <2>1 DEF Course
  <2>4. Bindings' /\ Complete' /\ Counted'
    BY <1>1, <2>1, <2>2, <2>3 DEF Emptied
  <2>5. Course'
    BY <2>1, <2>2, <2>3 DEF Course
  <2>. QED BY <2>4, <2>5
<1>5. CASE FirstPass
  <2>1. /\ comm.at = "loop" /\ comm' = comm /\ flag' = [flag EXCEPT !["commRunning"] = TRUE]
        /\ socket' = socket
        /\ designator' = designator /\ sock' = sock /\ tableState' = tableState /\ main' = main
    BY <1>5 DEF FirstPass
  <2>2. \A f \in FlagNames \ {"commRunning"} : flag'[f] = flag[f]
    BY <2>1, FlagsRead, Flags
  <2>3. flag'["deconstruct"] = flag["deconstruct"] /\ flag'["stop"] = flag["stop"]
        /\ flag'["restart"] = flag["restart"] /\ flag'["created"] = flag["created"]
        /\ flag'["runSocket"] = flag["runSocket"]
    BY <2>2, Flags
  <2>4. Bindings' /\ Bound' = Bound /\ (AllFree => AllFree') /\ (AllBound => AllBound')
    BY <2>1, BindingsStay
  <2>5. Complete' /\ Counted'
    BY <2>1, <2>3, <2>4, Uniform DEF Complete, AllBound, Emptied, Counted
  <2>6. Course'
    BY <2>1, <2>3 DEF Course
  <2>. QED BY <2>4, <2>5, <2>6
<1>6. CASE SeeRequest
  <2>1. /\ comm.at = "loop" /\ comm' = comm /\ flag' = flag /\ socket' = socket
        /\ tableState = "Loaded" /\ tableState' = "ReloadRequest"
        /\ designator' = designator /\ sock' = sock /\ main' = main
    BY <1>6 DEF SeeRequest, Pass
  <2>2. Bindings' /\ Complete' /\ Counted'
    BY <1>1, <2>1 DEF Emptied
  <2>3. Course'
    BY <2>1 DEF Course
  <2>. QED BY <2>2, <2>3
<1>7. CASE AskSocketThread
  <2>1. /\ comm.at = "loop" /\ comm' = comm /\ flag' = [flag EXCEPT !["deconstruct"] = TRUE]
        /\ socket' = socket
        /\ tableState = "ReloadRequest" /\ tableState' = "WaitForSocketThread"
        /\ designator' = designator /\ sock' = sock /\ main' = main
    BY <1>7 DEF AskSocketThread, Pass
  <2>2. flag'["deconstruct"] = TRUE /\ \A f \in FlagNames \ {"deconstruct"} : flag'[f] = flag[f]
    BY <2>1, FlagsRead, Flags
  <2>3. flag'["stop"] = flag["stop"]
        /\ flag'["restart"] = flag["restart"] /\ flag'["created"] = flag["created"]
        /\ flag'["runSocket"] = flag["runSocket"]
    BY <2>2, Flags
  <2>4. Bindings' /\ Complete' /\ Counted'
    BY <1>1, <2>1, <2>2 DEF Emptied
  <2>5. Course'
    BY <2>1, <2>2, <2>3 DEF Course
  <2>. QED BY <2>4, <2>5
<1>8. CASE SocketsDeconstructed
  <2>1. /\ comm.at = "loop" /\ comm' = comm /\ flag' = flag /\ ~flag["deconstruct"] /\ socket' = socket
        /\ tableState = "WaitForSocketThread" /\ tableState' = "ReloadTables"
        /\ designator' = designator /\ sock' = sock /\ main' = main
    BY <1>8 DEF SocketsDeconstructed, Pass
  <2>2. Bindings' /\ Bound' = Bound /\ (AllFree => AllFree')
    BY <2>1, BindingsStay
  <2>3. Emptied /\ Emptied'
    BY <2>1 DEF Emptied
  <2>4. Complete' /\ Counted'
    BY <2>1, <2>2, <2>3 DEF Complete, Counted
  <2>5. Course'
    BY <2>1 DEF Course
  <2>. QED BY <2>2, <2>4, <2>5
<1>9. CASE ReloadTables
  <2>1. /\ comm.at = "loop" /\ tableState = "ReloadTables" /\ flag' = flag /\ socket' = socket
        /\ sock' = sock /\ main' = main
    BY <1>9 DEF ReloadTables, Pass
  <2>2. AllFree
    BY <2>1 DEF Complete, Emptied
  <2>3. getValidSocketCount = 0
    <3>1. {s \in 1..NSockets : sock[s].row # NoName} = {}
      BY <2>2 DEF AllFree, Bindings, Sockets
    <3>. QED BY <3>1, FS_EmptySet DEF getValidSocketCount
  <2>4. /\ designator' = << >> /\ comm' = [comm EXCEPT !.at = "eth", !.row = 1, !.reload = TRUE]
        /\ tableState' = tableState
    BY <1>9, <2>3 DEF ReloadTables, Cleared
  <2>5. comm'.at = "eth" /\ comm'.row = 1 /\ comm'.reload = TRUE
    BY <1>0, <2>4 DEF CommState
  <2>6. Indices' = {}
    BY <2>4 DEF Indices
  <2>7. Bindings' /\ Complete'
    BY <2>1, <2>2, <2>5, <2>6 DEF Bindings, AllFree, Complete, Emptied
  <2>8. Counted'
    <3>1. Bound' = Bound /\ Cardinality(Bound) = 0
      BY <2>1, <2>2, BoundFinite DEF Bound
    <3>. QED BY <2>5, <3>1 DEF Counted
  <2>9. Course'
    BY <2>1, <2>4, <2>5 DEF Course
  <2>. QED BY <2>7, <2>8, <2>9
<1>10. ~LeaveLoop /\ ~CommHalted
  BY DEF LeaveLoop, CommHalted, Course
<1>. QED BY <1>2, <1>3, <1>4, <1>5, <1>6, <1>7, <1>8, <1>9, <1>10

(* The Socket thread unbinds sockets only when it is asked to.               *)
LEMMA SocketsKeepBindings ==
  ASSUME TypeOK, Undisturbed, SocketStep
  PROVE  Undisturbed'
<1>. USE DEF Undisturbed, CommAt, SocketAt
<1>1. CASE DeconstructSockets
  <2>1. /\ flag["deconstruct"] /\ sock' = [s \in Sockets |-> FreeSocket]
        /\ flag' = [flag EXCEPT !["deconstruct"] = FALSE]
        /\ designator' = designator /\ comm' = comm /\ tableState' = tableState
        /\ socket' = socket /\ main' = main
    BY <1>1 DEF DeconstructSockets, Deconstructed, Sockets
  <2>2. flag'["deconstruct"] = FALSE /\ \A f \in FlagNames \ {"deconstruct"} : flag'[f] = flag[f]
    BY <2>1, FlagsRead, Flags
  <2>3. flag'["stop"] = flag["stop"]
        /\ flag'["restart"] = flag["restart"] /\ flag'["created"] = flag["created"]
        /\ flag'["runSocket"] = flag["runSocket"]
    BY <2>2, Flags
  <2>4. comm.at = "loop" /\ tableState = "WaitForSocketThread"
    BY <2>1 DEF Course
  <2>5. AllFree' /\ \A s \in Sockets : sock'[s].row = NoName
    BY <2>1, FreshSocket DEF AllFree
  <2>6. Bindings'
    BY <2>5 DEF Bindings, AllFree
  <2>7. Complete' /\ Counted'
    BY <2>1, <2>2, <2>4, <2>5 DEF Complete, Emptied, Counted
  <2>8. Course'
    BY <2>1, <2>2, <2>3, <2>4 DEF Course
  <2>. QED BY <2>6, <2>7, <2>8
<1>2. CASE ServeSockets
  <2>1. /\ flag' = flag /\ designator' = designator /\ comm' = comm /\ tableState' = tableState
        /\ socket' = socket /\ main' = main
    BY <1>2 DEF ServeSockets
  <2>2. \A s \in Sockets : sock'[s].dev = sock[s].dev /\ sock'[s].row = sock[s].row
    <3>1. PICK opened : sock' = [s \in Sockets |-> [sock[s] EXCEPT !.open = @ \/ s \in opened]]
      BY <1>2 DEF ServeSockets, Sockets
    <3>2. ASSUME NEW s \in Sockets
          PROVE  [sock[s] EXCEPT !.open = @ \/ s \in opened].dev = sock[s].dev
                 /\ [sock[s] EXCEPT !.open = @ \/ s \in opened].row = sock[s].row
      BY SockTyped DEF Sock
    <3>. QED BY <3>1, <3>2
  <2>3. Bindings' /\ Bound' = Bound /\ (AllFree => AllFree') /\ (AllBound => AllBound')
    BY <2>1, <2>2, BindingsStay
  <2>4. Complete' /\ Counted'
    BY <2>1, <2>3, Uniform DEF Complete, AllBound, Emptied, Counted
  <2>5. Course'
    <3>1. AllFree => AllFree'
      BY <2>3
    <3>. QED BY <2>1, <3>1 DEF Course
  <2>. QED BY <2>3, <2>4, <2>5
<1>3. ~StartClosing /\ ~CloseSocket /\ ~AllClosed /\ ~Paused
  BY DEF StartClosing, CloseSocket, AllClosed, Paused, Course
<1>. QED BY <1>1, <1>2, <1>3 DEF SocketStep

(* main comes this way once, before Comm exists, and stops nothing.          *)
LEMMA MainKeepsBindings ==
  ASSUME TypeOK, Undisturbed, count'.restarts = 0,
         MainStep \/ StoreTables \/ Restart \/ \E name \in Mail : RouteMail(name)
  PROVE  Undisturbed'
<1>. USE DEF Undisturbed, CommAt, SocketAt
<1>0. comm \in CommState /\ count \in Counts
  BY TypesSplit
<1>1. ~StopCommunications /\ ~ClearDevices /\ ~Restart
  <2>1. ~StopCommunications /\ ~ClearDevices
    BY DEF StopCommunications, ClearDevices, MainGoes, Course
  <2>2. Restart => count'.restarts # 0
    <3>1. Restart => count' = [count EXCEPT !.restarts = count.restarts + 1]
      BY DEF Restart
    <3>2. count.restarts + 1 # 0
      BY <1>0, TableAssumption DEF Counts
    <3>. QED BY <1>0, <3>1, <3>2 DEF Counts
  <2>. QED BY <2>1, <2>2
<1>2. sock' = sock /\ designator' = designator /\ tableState' = tableState /\ socket' = socket
  BY <1>1 DEF MainStep, StartInit, InitializeComPorts, InitializationComplete, LetCommRun,
     StoreTables, RouteMail
<1>3. Bindings' /\ Bound' = Bound /\ (AllFree => AllFree') /\ (AllBound => AllBound')
  BY <1>2, BindingsStay
<1>4. ASSUME comm' = comm, flag'["deconstruct"] = flag["deconstruct"]
      PROVE  Complete' /\ Counted'
  BY <1>2, <1>3, <1>4, Uniform DEF Complete, AllBound, Emptied, Counted
<1>5. CASE StartInit
  <2>1. main = "init" /\ main' = "ports" /\ comm' = comm
        /\ flag' = [flag EXCEPT !["mainInit"] = FALSE, !["restart"] = FALSE]
    BY <1>5 DEF StartInit, MainGoes
  <2>2. flag'["deconstruct"] = flag["deconstruct"] /\ flag'["stop"] = flag["stop"]
        /\ flag'["restart"] = FALSE /\ flag'["created"] = flag["created"]
        /\ flag'["runSocket"] = flag["runSocket"]
    BY <2>1, TypesSplit, Flags
  <2>3. Course'
    BY <1>2, <1>3, <2>1, <2>2 DEF Course
  <2>. QED BY <1>3, <1>4, <2>1, <2>2, <2>3
<1>6. CASE InitializeComPorts
  <2>1. main = "ports" /\ main' = "ready" /\ flag' = [flag EXCEPT !["created"] = TRUE]
        /\ comm' = IF flag["created"] THEN comm ELSE [comm EXCEPT !.at = "display"]
    BY <1>6 DEF InitializeComPorts, MainGoes
  <2>2. flag'["deconstruct"] = flag["deconstruct"] /\ flag'["stop"] = flag["stop"]
        /\ flag'["restart"] = flag["restart"] /\ flag'["created"] = TRUE
        /\ flag'["runSocket"] = flag["runSocket"]
    BY <2>1, TypesSplit, Flags
  <2>3. comm.at = "off" /\ comm'.at = "display" /\ ~flag["created"]
    BY <1>0, <2>1 DEF Course, CommState
  <2>4. tableState = "Loaded" /\ designator = << >> /\ AllFree
    BY <2>3 DEF Course
  <2>5. Indices = {}
    BY <2>4 DEF Indices
  <2>6. AllBound
    BY <2>5 DEF AllBound
  <2>7. Complete' /\ Counted'
    BY <1>2, <1>3, <2>3, <2>6 DEF Complete, AllBound, Emptied, Counted
  <2>8. Course'
    BY <1>2, <1>3, <2>1, <2>2, <2>3, <2>4 DEF Course
  <2>. QED BY <1>3, <2>7, <2>8
<1>7. CASE InitializationComplete \/ LetCommRun
  <2>1. /\ \/ main = "ready" /\ main' = "go"
           \/ main = "go" /\ main' = "loop"
        /\ comm' = comm
        /\ \/ flag' = [flag EXCEPT !["mainInit"] = TRUE]
           \/ flag' = [flag EXCEPT !["stop"] = FALSE]
    BY <1>7 DEF InitializationComplete, LetCommRun, MainGoes, NotStopped
  <2>2. flag'["deconstruct"] = flag["deconstruct"] /\ (flag'["stop"] => flag["stop"])
        /\ flag'["restart"] = flag["restart"] /\ flag'["created"] = flag["created"]
        /\ flag'["runSocket"] = flag["runSocket"]
    BY <2>1, TypesSplit, Flags
  <2>3. Course'
    BY <1>2, <1>3, <2>1, <2>2 DEF Course
  <2>. QED BY <1>3, <1>4, <2>1, <2>2, <2>3
<1>8. CASE StoreTables \/ \E name \in Mail : RouteMail(name)
  <2>1. main' = main /\ comm' = comm /\ (flag' = flag \/ flag' = [flag EXCEPT !["reload"] = TRUE])
    BY <1>8 DEF StoreTables, RouteMail
  <2>2. flag'["deconstruct"] = flag["deconstruct"] /\ flag'["stop"] = flag["stop"]
        /\ flag'["restart"] = flag["restart"] /\ flag'["created"] = flag["created"]
        /\ flag'["runSocket"] = flag["runSocket"]
    BY <2>1, TypesSplit, Flags
  <2>3. Course'
    BY <1>2, <1>3, <2>1, <2>2 DEF Course
  <2>. QED BY <1>3, <1>4, <2>1, <2>2, <2>3
<1>. QED BY <1>1, <1>5, <1>6, <1>7, <1>8 DEF MainStep

LEMMA RestartsGrow ==
  ASSUME TypeOK, [Next]_vars, count'.restarts = 0
  PROVE  count.restarts = 0
<1>1. count \in Counts /\ count.restarts \in Nat
  BY TypesSplit, TableAssumption DEF Counts
<1>2. \/ count' = count \/ count' = [count EXCEPT !.reloads = count.reloads + 1]
      \/ count' = [count EXCEPT !.restarts = count.restarts + 1]
  BY DEF vars, Next, CommStep, AddDisplay, AddRow, OpenRow, RowsDone, LoadTtyDevDesTable, Launch,
     MainIsInitialized, FirstPass, SeeRequest, AskSocketThread, SocketsDeconstructed, ReloadTables,
     LeaveLoop, CommHalted, Pass, SocketStep, DeconstructSockets, ServeSockets, StartClosing,
     CloseSocket, AllClosed, Paused, MainStep, StartInit, InitializeComPorts,
     InitializationComplete, LetCommRun, StopCommunications, ClearDevices, StoreTables, Restart,
     RouteMail
<1>. QED BY <1>1, <1>2 DEF Counts

LEMMA FirstInvariant == Init => IInv
<1>. SUFFICES ASSUME Init PROVE IInv
  OBVIOUS
<1>1. /\ table \in Tables /\ designator = << >> /\ sock = [s \in Sockets |-> FreeSocket]
      /\ com = Unbound /\ comm = [at |-> "off", row |-> 1, reload |-> FALSE, s |-> 0]
      /\ tableState = "Loaded" /\ socket = [at |-> "off", s |-> 1] /\ main = "init"
      /\ flag = [f \in FlagNames |-> f = "restart"] /\ mail = NoMail
      /\ count = [reloads |-> 0, restarts |-> 0]
  BY DEF Init, Sockets
<1>2. TypeOK /\ comm.row # 0
  <2>1. comm \in CommState /\ comm.row = 1 /\ socket \in SocketState
    BY <1>1, Flags, TableAssumption DEF CommState, SocketState
  <2>2. sock \in [Sockets -> Sock]
    BY <1>1, FreshSocket
  <2>3. flag \in [FlagNames -> BOOLEAN]
    BY <1>1
  <2>4. mail \in Entry /\ com \in Devs /\ count \in Counts
    BY <1>1, TableAssumption DEF Entry, NoMail, Devs, Unbound, Counts
  <2>5. tableState \in TableStates /\ main \in MainPlaces
    BY <1>1, Flags DEF TableStates
  <2>. QED BY <1>1, <2>1, <2>2, <2>3, <2>4, <2>5, EmptyList, TypesSplit
<1>3. AllFree /\ \A s \in Sockets : sock[s].row = NoName
  BY <1>1, FreshSocket DEF AllFree
<1>4. Indices = {}
  BY <1>1 DEF Indices
<1>5. Bindings /\ Complete /\ Counted
  BY <1>1, <1>3, <1>4 DEF Bindings, AllFree, Complete, Emptied, Counted, CommAt
<1>6. Course
  <2>1. /\ flag["stop"] = FALSE /\ flag["created"] = FALSE /\ flag["deconstruct"] = FALSE
    BY <1>1, Flags
  <2>. QED BY <1>1, <1>3, <2>1 DEF Course, CommAt, SocketAt
<1>. QED BY <1>2, <1>5, <1>6 DEF IInv, Undisturbed

LEMMA NextKeeps ==
  ASSUME SocketsSuffice, IInv, [Next]_vars
  PROVE  IInv'
<1>1. TypeOK' /\ comm'.row # 0
  BY TypesKept DEF IInv
<1>2. ASSUME count'.restarts = 0
      PROVE  Undisturbed'
  <2>1. TypeOK /\ comm.row # 0 /\ Undisturbed
    BY <1>2, RestartsGrow DEF IInv
  <2>2. CASE UNCHANGED vars
    BY <2>1, <2>2 DEF vars, Undisturbed, Bindings, Complete, Emptied, Counted, Course, AllFree, Bound,
       Indices, NameAt, CommAt, SocketAt
  <2>3. CASE Next
    BY <1>2, <2>1, <2>3, LoadsKeepBindings, CommKeepsBindings, SocketsKeepBindings, MainKeepsBindings
       DEF Next, CommStep
  <2>. QED BY <2>2, <2>3
<1>. QED BY <1>1, <1>2 DEF IInv

(* Every variable keeps its type: no index outside the device list is ever    *)
(* stored in a socket, a serial port or a message, and no count overflows,    *)
(* with any number of restarts in the middle of a reload.                     *)
THEOREM TypeCorrectness == Spec => []TypeOK
<1>. DEFINE T == TypeOK /\ comm.row # 0
<1>1. Init => T
  BY FirstInvariant DEF IInv
<1>2. T /\ [Next]_vars => T'
  BY TypesKept
<1>3. T => TypeOK
  OBVIOUS
<1>. HIDE DEF T
<1>. QED BY <1>1, <1>2, <1>3, PTL DEF Spec

(* The bindings through every step of a load and of the handshake.            *)
THEOREM Invariance == ASSUME SocketsSuffice PROVE Spec => []IInv
<1>1. Init => IInv
  BY FirstInvariant
<1>2. ASSUME IInv, [Next]_vars PROVE IInv'
  BY <1>2, NextKeeps
<1>. QED BY <1>1, <1>2, PTL DEF Spec

(* Once a reload is over every Ethernet designator of the list whose row can  *)
(* be used has exactly one socket, opened for it, and no other socket is      *)
(* bound, for every content of the table that the sockets suffice for.        *)
(* A row may come twice: each of its entries has a socket of its own.                                 *)
THEOREM BoundExactlyOnce == ASSUME SocketsSuffice PROVE Spec => []BoundOnce
<1>1. IInv => BoundOnce
  <2>. SUFFICES ASSUME IInv, Settled, count.restarts = 0
                PROVE  /\ \A i \in Indices : NameAt(i) \in Rows \ Unusable =>
                            \E s \in 1..NSockets : /\ sock[s].dev = i /\ sock[s].row = NameAt(i)
                                                   /\ \A t \in 1..NSockets : sock[t].dev = i => t = s
                       /\ \A s \in 1..NSockets : sock[s].dev # Unbound =>
                            sock[s].dev \in Indices /\ NameAt(sock[s].dev) \in Rows \ Unusable
    BY DEF BoundOnce
  <2>1. TypeOK /\ Bindings /\ AllBound
    BY Uniform DEF IInv, Undisturbed, Settled, Emptied
  <2>2. ASSUME NEW i \in Indices, NameAt(i) \in Rows \ Unusable
        PROVE  \E s \in 1..NSockets : /\ sock[s].dev = i /\ sock[s].row = NameAt(i)
                                      /\ \A t \in 1..NSockets : sock[t].dev = i => t = s
    <3>1. NameAt(i) \in Rows \ Unusable /\ i # Unbound
      BY <2>1, <2>2, Indexed DEF Names
    <3>2. PICK s \in Sockets : sock[s].dev = i
      BY <2>1, <3>1 DEF AllBound
    <3>3. sock[s].row = NameAt(i) /\ \A t \in Sockets : sock[t].dev = i => t = s
      BY <2>1, <3>1, <3>2 DEF Bindings
    <3>. QED BY <3>2, <3>3 DEF Sockets
  <2>3. \A s \in 1..NSockets : sock[s].dev # Unbound =>
          sock[s].dev \in Indices /\ NameAt(sock[s].dev) \in Rows \ Unusable
    BY <2>1 DEF Bindings, Sockets
  <2>. QED BY <2>2, <2>3
<1>. QED BY <1>1, Invariance, PTL
=================================================================================

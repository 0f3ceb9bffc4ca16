------------------------------ MODULE TableStore ------------------------------
(* The table of wireless devices between memory and the SQL server.           *)
(*                                                                            *)
(* The Comm thread adds a row for a device it has not heard of and counts its *)
(* messages (processMSGinput); the Main thread pushes rows whose state is     *)
(* Added or Modified to the server and forgets rows the server no longer has  *)
(* (CheckForDBupdates, PushUpdatesToDB).  Nothing is locked, and the cursor   *)
(* "dit" with which Main walks over the rows is a member of the table that    *)
(* StoreUpdate and the listings of the console and the web pages move too.    *)
(*                                                                            *)
(* Of the columns of a row only the index is modelled; of the others, whether *)
(* the server holds them as they are in memory ("same"), and whether what     *)
(* Main has read of them still is (main.current).  Rows are numbered by their *)
(* ID, in the order of the map.                                               *)
EXTENDS Integers, FiniteSets, FiniteSetsExt

CONSTANTS NumRows,      \* devices
          AutoAddRows,  \* AutoAddRows of the table
          MaxRowCount,  \* MAXROWCOUNT: rows read from the server at once
          Counters,     \* columns a message counts in: fld_countFm, fld_countFmD
          MaxMessages,  \* bound: messages from devices
          MaxMishaps    \* bound: statements refused by the server, moves of the
                        \* cursor by listings, rows an operator removes there

ASSUME TableAssumption ==
  /\ {NumRows, MaxRowCount, Counters} \subseteq Nat \ {0} /\ AutoAddRows \in BOOLEAN
  /\ {MaxMessages, MaxMishaps} \subseteq Nat

VARIABLES
  rows,     \* memory: state and index column of each row
  db,       \* server: the rows it has, by their index column
  same,     \* rows whose other columns are the same in memory and on the server
  dit,      \* the cursor of the table
  main,     \* Main: where it is, the row it marked as stored, the index column it
            \* read, whether the columns it read are as it read them; history: late,
            \* the cursor was moved or the row filled since the mark, and moved, the
            \* cursor was moved since the push began
  index,    \* Main: the IDs the server returned
  toDelete, \* Main: RowsToDelete
  comm,     \* Comm: where it is, the device it serves, the calls of the count left
  left,     \* what remains of each bound
  doubt,    \* history: rows whose last statement failed or may not hold what the row holds
  removed,  \* history: rows the operator removed
  fresh     \* history: rows flagged Added while Main pushes

vars == <<rows, db, same, dit, main, index, toDelete, comm, left, doubt, removed, fresh>>

ID == 1..NumRows
End == NumRows + 1
\* A key that no device has: what an empty index column is written as.
Zero == 0

\* "Undefined" is any value but the four of the enumeration: the state of a new
\* datarow is not initialised.
States == {"Unchanged", "Added", "Deleted", "Modified", "Undefined"}
Absent == [state |-> "Absent", key |-> Zero]
Present == {r \in ID : rows[r] # Absent}
InState(s) == {r \in ID : rows[r].state = s}

\* The cursor at the first row, and after row r.
RowAfter(r) == Min({q \in Present : q > r} \cup {End})
FirstID == 1                                           \* mutant
Begin == RowAfter(0)
\* Beyond the end the increment leads anywhere.
After(r) == IF r = End THEN Present \cup {End} ELSE {RowAfter(r)}

\* What is read of the rows ids of the server.
FirstRows(ids) ==
  IF Cardinality(ids) <= MaxRowCount THEN {ids}
  ELSE {part \in SUBSET ids : Cardinality(part) = MaxRowCount}

Idle == [pc |-> "idle", row |-> Zero, key |-> Zero, current |-> FALSE, late |-> FALSE, moved |-> FALSE]
Done == [pc |-> "idle", row |-> Zero, calls |-> 0]

Init ==
  /\ db \in SUBSET ID
  /\ \E known \in FirstRows(db) :
       /\ rows = [r \in ID |-> IF r \in known THEN [state |-> "Unchanged", key |-> r] ELSE Absent]
       /\ same = known
  /\ dit = End
  /\ main = Idle
  /\ index = {} /\ toDelete = {}
  /\ comm = Done
  /\ left = [messages |-> MaxMessages, mishaps |-> MaxMishaps]
  /\ doubt = {} /\ removed = {} /\ fresh = {}

--------------------------------------------------------------------------------
(* Comm: one message from a device (processMSGinput).                         *)

Mishap == left.mishaps > 0 /\ left' = [left EXCEPT !.mishaps = @ - 1]
\* What Main does not notice: the cursor is moved, a column of row r is stored.
Moved(m) == [m EXCEPT !.late = m.row # Zero, !.moved = m.pc # "idle"]
Outdated(m, r) == [m EXCEPT !.current = @ /\ m.row # r]

AtComm(p) == comm.pc = p
AtMain(p) == main.pc = p
CommTo(p) == comm' = [comm EXCEPT !.pc = p]

\* rows[r] of the map: a row that is not there is made, with empty columns.
NewRow(r, key) == {[rows EXCEPT ![r] = [state |-> s, key |-> key]] : s \in States}
Access(r) == IF r \in Present THEN {rows} ELSE NewRow(r, Zero)

\* AddNewRow writes the index column, which makes the row, ...
IndexRow(r) ==
  rows' \in NewRow(r, r) /\ comm' = [comm EXCEPT !.pc = "add", !.row = r]

\* ... flags it, ...
AddNewRow ==
  /\ AtComm("add") /\ CommTo("fill")
  /\ fresh' = IF AtMain("idle") THEN fresh ELSE fresh \cup {comm.row}
  /\ \E now \in Access(comm.row) : rows' = [now EXCEPT ![comm.row].state = "Added"]
  /\ UNCHANGED <<db, same, dit, main, index, toDelete, left, doubt, removed>>

\* ... and gives the other columns their defaults, which flags nothing: a row
\* that Main took in between is in doubt.
FillRow ==
  /\ AtComm("fill") /\ CommTo(IF comm.calls = 0 THEN "handle" ELSE "store")
  /\ rows' \in Access(comm.row) /\ same' = same \ {comm.row}
  /\ LET r == comm.row
         late == rows[r].state # "Added"
     IN  /\ doubt' = IF late THEN doubt \cup {r} ELSE doubt
         /\ main' = [Outdated(main, r) EXCEPT !.late = @ \/ (late /\ main.row = r)]
  /\ UNCHANGED <<db, dit, index, toDelete, left, removed, fresh>>

\* A message from a device; those of two formats add it.
Message ==
  /\ AtComm("idle") /\ left.messages > 0
  /\ left' = [left EXCEPT !.messages = @ - 1]
  /\ \E r \in ID :
       \/ r \notin Present /\ AutoAddRows /\ IndexRow(r)
       \/ comm' = [comm EXCEPT !.pc = "handle", !.row = r] /\ UNCHANGED rows
  /\ UNCHANGED <<db, same, dit, main, index, toDelete, doubt, removed, fresh>>

\* A column is stored first, then the state of the row is tested.
NeverMarked(r) == {rows}                               \* mutant
Marked(r) ==
  {[now EXCEPT ![r].state = IF @ = "Unchanged" THEN "Modified" ELSE @] : now \in Access(r)}

\* The site manager stores the signal strength of a WMX data message; StoreUpdate
\* finds the row with the table's cursor.
StoreUpdate ==
  /\ AtComm("handle")
  /\ LET r == comm.row
         storing == r \in Present /\ rows[r].state # "Deleted"
     IN  /\ dit' = IF r \in Present THEN r ELSE End
         /\ same' = IF storing THEN same \ {r} ELSE same
         /\ main' = Moved(IF storing THEN Outdated(main, r) ELSE main)
         /\ CommTo(IF storing THEN "mark" ELSE "count")
  /\ UNCHANGED <<rows, db, index, toDelete, left, doubt, removed, fresh>>

\* A message of the channel (WMX_FR_WNC) ends with the site manager; any other
\* is counted when its row is there: an AddToItem for each counter, a StoreTime.
NewMessageIn ==
  /\ \/ AtComm("handle") /\ comm' = Done
     \/ /\ comm.pc \in {"handle", "count"}
        /\ comm' = IF comm.row \in Present THEN [comm EXCEPT !.pc = "test", !.calls = Counters + 1] ELSE Done
  /\ UNCHANGED <<rows, db, same, dit, main, index, toDelete, left, doubt, removed, fresh>>

NextCall ==
  IF comm.calls = 1 THEN Done
  ELSE [comm EXCEPT !.pc = IF comm.calls = 2 THEN "store" ELSE "test", !.calls = @ - 1]

\* AddToItem adds a row that Main has erased again; StoreTime does not look.
AddToItem ==
  /\ AtComm("test")
  /\ IF comm.row \in Present THEN CommTo("store") /\ UNCHANGED rows
     ELSE IF AutoAddRows THEN IndexRow(comm.row)
     ELSE comm' = NextCall /\ UNCHANGED rows
  /\ UNCHANGED <<db, same, dit, main, index, toDelete, left, doubt, removed, fresh>>

StoreItem ==
  /\ AtComm("store") /\ rows' \in Access(comm.row)
  /\ IF rows'[comm.row].state = "Deleted"
     THEN comm' = NextCall /\ UNCHANGED <<same, main>>
     ELSE CommTo("mark") /\ same' = same \ {comm.row} /\ main' = Outdated(main, comm.row)
  /\ UNCHANGED <<db, dit, index, toDelete, left, doubt, removed, fresh>>

Mark ==
  /\ AtComm("mark")
  /\ rows' \in Marked(comm.row)
  /\ comm' = IF comm.calls = 0 THEN [comm EXCEPT !.pc = "count"] ELSE NextCall
  /\ UNCHANGED <<db, same, dit, main, index, toDelete, left, doubt, removed, fresh>>

\* The rest of a message that was begun.
GoOn == AddNewRow \/ FillRow \/ StoreUpdate \/ NewMessageIn \/ AddToItem \/ StoreItem \/ Mark
Comm == Message \/ GoOn

--------------------------------------------------------------------------------
(* Main: PushUpdatesToDB.                                                     *)

Goto(p) == main' = [main EXCEPT !.pc = p]
GotoAfresh(p) == main' = [Idle EXCEPT !.pc = p, !.moved = main.moved]
EndPush == main' = Idle /\ index' = {} /\ fresh' = {}

OnlyAdded == InState("Added") # {}                     \* mutant
PushDue == InState("Added") \cup InState("Modified") # {}

\* Every dbPushInterval seconds; without a connection nothing is done.
StartPush ==
  /\ AtMain("idle") /\ PushDue /\ Goto("adding") /\ dit' = Begin
  /\ UNCHANGED <<rows, db, same, index, toDelete, comm, left, doubt, removed, fresh>>

\* The two passes over the rows: new ones, then modified ones.
Wanted == IF AtMain("adding") THEN "Added" ELSE "Modified"

WalkOn ==
  /\ main.pc \in {"adding", "updating"} /\ dit # End /\ rows[dit].state # Wanted
  /\ dit' = RowAfter(dit)
  /\ UNCHANGED <<rows, db, same, main, index, toDelete, comm, left, doubt, removed, fresh>>

\* The row is tested and marked through the cursor, marked as stored before its
\* columns are read.
FindRow ==
  /\ main.pc \in {"adding", "updating"} /\ dit # End /\ rows[dit].state = Wanted
  /\ Goto(IF AtMain("adding") THEN "added" ELSE "modified")
  /\ UNCHANGED <<rows, db, same, dit, index, toDelete, comm, left, doubt, removed, fresh>>

TakeRow ==
  /\ main.pc \in {"added", "modified"} /\ dit # End
  /\ rows' = [rows EXCEPT ![dit].state = "Unchanged"]
  /\ main' = [main EXCEPT !.pc = IF AtMain("added") THEN "insert" ELSE "update", !.row = dit]
  /\ UNCHANGED <<db, same, dit, index, toDelete, comm, left, doubt, removed, fresh>>

EndOfPass ==
  /\ main.pc \in {"adding", "updating"} /\ dit = End
  /\ IF AtMain("adding") THEN Goto("updating") /\ dit' = Begin
                         ELSE Goto("listing") /\ UNCHANGED dit
  /\ UNCHANGED <<rows, db, same, index, toDelete, comm, left, doubt, removed, fresh>>

\* The columns are read through the cursor, the index column first for an INSERT
\* and last for an UPDATE.
ReadFirst ==
  /\ main.pc \in {"insert", "update"} /\ dit # End
  /\ main' = IF AtMain("insert") THEN [main EXCEPT !.pc = "inserting", !.key = rows[dit].key]
             ELSE [main EXCEPT !.pc = "executing", !.current = (dit = main.row)]
  /\ UNCHANGED <<rows, db, same, dit, index, toDelete, comm, left, doubt, removed, fresh>>

\* What a statement that was carried out, or refused, says of the rows.
Judge(accepted, key) ==
  doubt' = IF accepted /\ ~main.late THEN doubt \ {main.row}
           ELSE doubt \cup ({main.row, key} \ {Zero})
Written(key, asItIs) == same' = IF asItIs THEN same \cup {key} ELSE same \ {key}

Insert ==
  /\ AtMain("inserting") /\ dit # End
  /\ LET key == main.key
     IN  \/ /\ key \notin db /\ db' = db \cup {key}
            /\ Written(key, dit = key) /\ removed' = removed \ {key}
            /\ Judge(TRUE, key) /\ UNCHANGED left
         \/ /\ key \in db                        \* a second row with that index
            /\ Judge(FALSE, key) /\ UNCHANGED <<db, same, removed, left>>
         \/ Mishap /\ Judge(FALSE, key) /\ UNCHANGED <<db, same, removed>>
  /\ dit' = RowAfter(dit) /\ GotoAfresh("adding")
  /\ UNCHANGED <<rows, index, toDelete, comm, fresh>>

Update ==
  /\ AtMain("executing") /\ dit # End
  /\ LET key == rows[dit].key
     IN  \/ /\ key \in db /\ Written(key, main.current /\ key = main.row)
            /\ Judge(TRUE, key) /\ UNCHANGED left
         \/ /\ key \notin db                     \* of no row: nobody looks
            /\ Judge(FALSE, key) /\ UNCHANGED <<same, left>>
         \/ Mishap /\ Judge(FALSE, key) /\ UNCHANGED same
  /\ dit' = RowAfter(dit) /\ GotoAfresh("updating")
  /\ UNCHANGED <<rows, db, index, toDelete, comm, removed, fresh>>

\* The cursor was moved behind the last row: what is read there makes a statement
\* that means nothing, or ends the program.
ReadBeyond ==
  /\ main.pc \in {"added", "insert", "inserting", "modified", "update", "executing"} /\ dit = End
  /\ Judge(FALSE, main.row)
  /\ \/ GotoAfresh("stopped") /\ UNCHANGED dit
     \/ /\ dit' \in After(dit)
        /\ GotoAfresh(IF main.pc \in {"added", "insert", "inserting"} THEN "adding" ELSE "updating")
  /\ UNCHANGED <<rows, db, same, index, toDelete, comm, left, removed, fresh>>

EmptyListCounts(ids) == TRUE                           \* mutant
\* GetIndexList fails, or returns no row: then nothing is deleted.
Listed(ids) == ids # {}

GetIndexList ==
  /\ AtMain("listing")
  /\ \E ids \in FirstRows(db) \cup {{}} :
       IF Listed(ids)
       THEN index' = ids /\ dit' = Begin /\ Goto("scanning") /\ UNCHANGED fresh
       ELSE EndPush /\ UNCHANGED dit
  /\ UNCHANGED <<rows, db, same, toDelete, comm, left, doubt, removed>>

Scan ==
  /\ AtMain("scanning")
  /\ IF dit # End
     THEN /\ toDelete' = IF dit \in index THEN toDelete ELSE toDelete \cup {dit}
          /\ dit' = RowAfter(dit) /\ UNCHANGED <<main, index, fresh>>
     ELSE /\ IF toDelete = {} THEN EndPush ELSE Goto("deleting") /\ UNCHANGED <<index, fresh>>
          /\ UNCHANGED <<dit, toDelete>>
  /\ UNCHANGED <<rows, db, same, comm, left, doubt, removed>>

DeleteRow ==
  /\ AtMain("deleting")
  /\ LET r == Max(toDelete)
     IN  /\ rows' = [rows EXCEPT ![r] = Absent] /\ same' = same \ {r}
         /\ doubt' = doubt \ {r} /\ removed' = removed \ {r}
         /\ toDelete' = toDelete \ {r}
         /\ IF toDelete = {r} THEN EndPush ELSE UNCHANGED <<main, index, fresh>>
  /\ UNCHANGED <<db, dit, comm, left>>

Main == StartPush \/ WalkOn \/ FindRow \/ TakeRow \/ EndOfPass \/ ReadFirst \/ Insert \/ Update
        \/ ReadBeyond \/ GetIndexList \/ Scan \/ DeleteRow

--------------------------------------------------------------------------------
(* The others: a listing on the console or a web page, and the operator of    *)
(* the server.                                                                *)

Listing ==
  /\ Mishap /\ dit' \in Present \cup {End} /\ main' = Moved(main)
  /\ UNCHANGED <<rows, db, same, index, toDelete, comm, doubt, removed, fresh>>

OperatorRemoves ==
  /\ Mishap
  /\ \E r \in db \ {Zero} :
       db' = db \ {r} /\ same' = same \ {r} /\ removed' = removed \cup {r}
  /\ UNCHANGED <<rows, dit, main, index, toDelete, comm, doubt, fresh>>

Running == main.pc # "stopped"
Next == Running /\ (Comm \/ Main \/ Listing \/ OperatorRemoves)
Spec == Init /\ [][Next]_vars
\* Both threads keep looping; the others owe nothing.
FairSpec == Spec /\ WF_vars(Running /\ Main) /\ WF_vars(Running /\ GoOn)

--------------------------------------------------------------------------------
Row == [state : States, key : ID \cup {Zero}] \cup {Absent}

\* Types; while Main looks for rows to forget, the cursor of the table stands on
\* a row that exists or at the end (database.cpp:380-388).
TypeOK ==
  /\ rows \in [ID -> Row] /\ db \subseteq ID \cup {Zero} /\ same \subseteq ID \cup {Zero}
  /\ dit \in ID \cup {End}
  /\ main.row \in ID \cup {Zero} /\ comm.row \in ID \cup {Zero}
  /\ index \subseteq ID \cup {Zero} /\ toDelete \subseteq ID
  /\ (UNION {doubt, removed, fresh}) \subseteq ID
  /\ AtMain("scanning") => dit = End \/ dit \in Present

\* Comm has made the row of r and not flagged it yet.
Adding(r) == AtComm("add") /\ comm.row = r

\* Comm, or Main, is between two steps that belong together.
Underway(r) ==
  \/ Adding(r)
  \/ comm.row = r /\ AtComm("mark")
  \/ main.row = r /\ main.pc \in {"insert", "inserting", "update", "executing"}

\* A row that says Unchanged holds what the server holds, whichever store came
\* between the mark, the reading of the columns and the statement - unless the
\* server refused the statement or lacks the row, the cursor was moved while the
\* statement was written, AddNewRow filled the row after Main had taken it, or
\* the row is one that came back empty (database.cpp:288, 335; datatable.cpp:128,
\* 306-309).
UnchangedIsStored ==
  \A r \in InState("Unchanged") :
    rows[r].key = r /\ r \in db \ doubt /\ ~Underway(r) => r \in same

\* A row and its counts disappear from memory only when the server's list lacks
\* it for a reason: an operator removed it, its INSERT failed, it was added while
\* the push was already running or is just being added, the list ended before it
\* at MAXROWCOUNT, the cursor was moved during the push, or it is a row that came
\* back empty (database.cpp:375-397, 655-658).
RemovalExplained ==
  [][\A r \in Present : rows'[r] = Absent =>
        \/ r \in removed \cup doubt \cup fresh
        \/ r \in db /\ Cardinality(index) = MaxRowCount
        \/ main.moved \/ rows[r].key = Zero \/ Adding(r)]_vars

\* Every change is pushed in the end: no row stays Added or Modified once the
\* devices have fallen silent (mainsubs1.cpp:596-598).
Settles == <>[](Running => InState("Added") \cup InState("Modified") = {})
================================================================================

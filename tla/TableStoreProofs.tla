--------------------------- MODULE TableStoreProofs ---------------------------
(* The table of wireless devices, for any number of rows, of messages, of      *)
(* refused statements and of moves of the cursor.                              *)
(*                                                                             *)
(* Neither property is inductive: that an Unchanged row is stored rests on     *)
(* what Main holds between reading the row and the answer of the server, that  *)
(* a removal is explained rests on the pass over the new rows having left none *)
(* behind when the server's list was read.  IInv adds these.                   *)
EXTENDS TableStore, TLAPS, FiniteSetTheorems, WellFoundedInduction

(* Main has marked a row as stored and is writing it to the server.          *)
Writing == main.pc \in {"insert", "inserting", "update", "executing"}

MainPcs == {"idle", "adding", "added", "insert", "inserting", "updating", "modified", "update",
            "executing", "listing", "scanning", "deleting", "stopped"}
MainType == [pc : MainPcs, row : ID \cup {Zero}, key : ID \cup {Zero},
             current : BOOLEAN, late : BOOLEAN, moved : BOOLEAN]
CommType == [pc : {"idle", "add", "fill", "handle", "count", "test", "store", "mark"},
             row : ID \cup {Zero}, calls : Nat]

Shapes ==
  /\ main \in MainType /\ comm \in CommType /\ left \in [messages : Nat, mishaps : Nat]
  /\ comm.pc # "idle" => comm.row \in ID
  /\ comm.pc \in {"test", "store"} => comm.calls # 0
  /\ \A r \in ID : rows[r].key \in {r, Zero}
  /\ Writing => main.row \in Present
  /\ Writing /\ rows[main.row].state = "Added" => main.row \in fresh
  /\ ~Writing => main.row = Zero /\ ~main.late

CursorStands ==
  /\ main.pc \notin {"idle", "deleting", "stopped"} => dit \in Present \cup {End}
  /\ Writing /\ (~main.late \/ ~main.moved) => dit = main.row
  /\ main.pc \in {"added", "modified"} /\ ~main.moved => dit # End
  /\ main.pc = "inserting" /\ ~main.late => main.key = rows[main.row].key

(* What Main read for an UPDATE is the row, unless Comm has stored since.    *)
Marking(r) == comm.row = r /\ AtComm("mark")
ReadIsCurrent ==
  main.pc = "executing" /\ ~main.late /\ rows[main.row].state = "Unchanged"
    /\ ~Marking(main.row) => main.current

(* A row the server lacks is still to be inserted, or lacks for a reason.    *)
InsertedOrAdded ==
  \A r \in Present \ (removed \cup doubt) : rows[r].key = r =>
    r \in db \/ rows[r].state = "Added" \/ Adding(r) \/ (main.row = r /\ Writing)

(* The pass over the new rows leaves none behind.                            *)
PassLeavesNone ==
  ~main.moved =>
    \A r \in Present \ fresh : rows[r].state = "Added" /\ rows[r].key = r =>
      \/ Adding(r) \/ main.pc \in {"idle", "stopped"}
      \/ main.pc \in {"adding", "added", "insert", "inserting"} /\ dit <= r

Explained(r) ==
  \/ r \in removed \cup doubt \cup fresh
  \/ r \in db /\ Cardinality(index) = MaxRowCount
  \/ main.moved \/ rows[r].key = Zero \/ Adding(r)

DeletesExplained ==
  /\ main.pc = "scanning" => \A r \in Present \ index : Explained(r)
  /\ main.pc = "deleting" => toDelete # {}
  /\ \A r \in toDelete \cap Present : Explained(r)
  /\ main.pc \notin {"scanning", "deleting"} => toDelete = {}

IInv ==
  /\ TypeOK /\ Shapes /\ CursorStands
  /\ UnchangedIsStored /\ ReadIsCurrent
  /\ InsertedOrAdded /\ PassLeavesNone /\ DeletesExplained

-----------------------------------------------------------------------------
(* The walk over the rows.                                                   *)

(* A set of numbers has a smallest one: the order of Nat is well-founded.    *)
LEMMA LeastNumber ==
  ASSUME NEW S, S \subseteq Nat, S # {}
  PROVE  \E x \in S : \A y \in S : x <= y
<1>1. IsWellFoundedOn(OpToRel(<, Nat), Nat)
  BY NatLessThanWellFounded
<1>2. PICK x \in S : \A y \in S : <<y, x>> \notin OpToRel(<, Nat)
  BY <1>1, WFMin
<1>3. \A y \in S : ~(y < x)
  BY <1>2 DEF OpToRel
<1>4. \A y \in S : x <= y
  <2> TAKE y \in S
  <2>1. x \in Nat /\ y \in Nat /\ ~(y < x)
    BY <1>3
  <2> QED BY <2>1
<1> QED BY <1>4

LEMMA Numbers ==
  /\ NumRows \in Nat \ {0} /\ Counters \in Nat \ {0} /\ MaxRowCount \in Nat \ {0}
  /\ MaxMessages \in Nat /\ MaxMishaps \in Nat
  /\ ID = 1..NumRows /\ End = NumRows + 1 /\ Zero = 0 /\ Zero \notin ID /\ End \notin ID
  /\ AutoAddRows \in BOOLEAN
BY TableAssumption DEF ID, End, Zero

(* The cursor after row r stands on the next row that exists, or at the end. *)
LEMMA NextRow ==
  ASSUME NEW r \in Int
  PROVE  /\ RowAfter(r) \in Present \cup {End}
         /\ \A q \in Present : q > r => RowAfter(r) <= q
         /\ RowAfter(r) <= End
<1> DEFINE S == {q \in Present : q > r} \cup {End}
<1>1. Present \subseteq ID
  BY DEF Present
<1>2. S \subseteq Nat /\ S # {} /\ \A q \in S : q <= End
  <2>1. \A q \in Present : q \in Nat /\ q <= End
    BY <1>1, Numbers
  <2>2. End \in S /\ End \in Nat
    BY Numbers
  <2> QED BY <2>1, <2>2, Numbers
<1>3. \E x \in S : \A y \in S : x <= y
  BY <1>2, LeastNumber
<1>4. RowAfter(r) = CHOOSE x \in S : \A y \in S : x <= y
  BY DEF RowAfter, Min
<1> HIDE DEF S
<1>5. RowAfter(r) \in S /\ \A y \in S : RowAfter(r) <= y
  BY <1>3, <1>4
<1>6. RowAfter(r) <= End
  BY <1>2, <1>5
<1> QED BY <1>5, <1>6 DEF S

(* The last of the rows to delete is one of them.                            *)
LEMMA LastToDelete ==
  ASSUME toDelete \subseteq ID, toDelete # {}
  PROVE  Max(toDelete) \in toDelete
<1> DEFINE S == {End - q : q \in toDelete}
<1>1. S \subseteq Nat /\ S # {}
  <2>1. \A q \in toDelete : End - q \in Nat
    <3> TAKE q \in toDelete
    <3>1. q \in 1..NumRows
      BY Numbers
    <3> QED BY <3>1, Numbers
  <2>2. PICK q \in toDelete : TRUE
    OBVIOUS
  <2>3. End - q \in S
    BY <2>2
  <2> QED BY <2>1, <2>3
<1>2. PICK x \in S : \A y \in S : x <= y
  BY <1>1, LeastNumber
<1>3. PICK m \in toDelete : x = End - m
  BY <1>2
<1>4. \A q \in toDelete : m >= q
  <2> TAKE q \in toDelete
  <2>1. x <= End - q
    BY <1>2
  <2>2. m \in Int /\ q \in Int /\ End \in Int
    BY Numbers
  <2> QED BY <1>3, <2>1, <2>2
<1> QED BY <1>4 DEF Max

(* The rows, by their state and key.                                         *)
LEMMA RowFacts ==
  ASSUME TypeOK
  PROVE  /\ Present \subseteq ID /\ rows \in [ID -> Row]
         /\ \A r \in ID : r \in Present <=> rows[r].state # "Absent"
         /\ \A r \in ID : rows[r].key \in ID \cup {Zero} /\ rows[r].state \in States \cup {"Absent"}
         /\ \A r \in Present : rows[r] = [state |-> rows[r].state, key |-> rows[r].key]
         /\ End \notin Present /\ Zero \notin Present
         /\ \A r \in Present : r < End /\ r \in Nat /\ r > 0
<1>1. \A x \in Row : /\ x = Absent <=> x.state = "Absent"
                     /\ x.key \in ID \cup {Zero} /\ x.state \in States \cup {"Absent"}
                     /\ x # Absent => x = [state |-> x.state, key |-> x.key]
  BY DEF Row, Absent, States
<1>2. Present \subseteq ID /\ rows \in [ID -> Row]
  BY DEF Present, TypeOK
<1>3. \A r \in ID : rows[r] \in Row
  BY <1>2
<1>4. \A r \in ID : r < End /\ r \in Nat /\ r > 0
  BY Numbers
<1> QED BY <1>1, <1>2, <1>3, <1>4, Numbers DEF Present

LEMMA RowFactsNext ==
  ASSUME rows' \in [ID -> Row]
  PROVE  /\ Present' \subseteq ID
         /\ \A r \in ID : r \in Present' <=> rows'[r].state # "Absent"
<1>1. \A x \in Row : x = Absent <=> x.state = "Absent"
  BY DEF Row, Absent, States
<1> QED BY <1>1 DEF Present

LEMMA ThreeSets ==
  ASSUME NEW A, NEW B, NEW C, NEW S
  PROVE  (UNION {A, B, C}) \subseteq S <=> A \subseteq S /\ B \subseteq S /\ C \subseteq S
OBVIOUS

(* A row that is made, and a row that is accessed.                           *)
LEMMA MadeRow ==
  ASSUME TypeOK, NEW r \in ID, NEW key \in ID \cup {Zero}, NEW now \in NewRow(r, key)
  PROVE  /\ now \in [ID -> Row] /\ now[r].state \in States /\ now[r].key = key
         /\ \A q \in ID \ {r} : now[q] = rows[q]
<1>1. PICK s \in States : now = [rows EXCEPT ![r] = [state |-> s, key |-> key]]
  BY DEF NewRow
<1>2. [state |-> s, key |-> key] \in Row
  BY DEF Row
<1> QED BY <1>1, <1>2 DEF TypeOK

LEMMA Accessed ==
  ASSUME TypeOK, NEW r \in ID, NEW now \in Access(r)
  PROVE  /\ now \in [ID -> Row] /\ now[r].state \in States
         /\ \A q \in ID \ {r} : now[q] = rows[q]
         /\ r \in Present => now = rows
         /\ r \notin Present => now[r].key = Zero
<1>1. CASE r \in Present
  BY <1>1, RowFacts DEF Access
<1>2. CASE r \notin Present
  <2>1. now \in NewRow(r, Zero)
    BY <1>2 DEF Access
  <2> QED BY <1>2, <2>1, MadeRow
<1> QED BY <1>1, <1>2

LEMMA Restated ==
  ASSUME NEW now \in [ID -> Row], NEW r \in ID, NEW s \in States, now[r].state \in States
  PROVE  LET then == [now EXCEPT ![r].state = s]
         IN  /\ then \in [ID -> Row] /\ then[r].state = s /\ then[r].key = now[r].key
             /\ \A q \in ID \ {r} : then[q] = now[q]
<1>1. now[r] \in [state : States, key : ID \cup {Zero}]
  BY DEF Row, Absent, States
<1>2. [now[r] EXCEPT !.state = s] \in Row
  BY <1>1 DEF Row
<1> QED BY <1>1, <1>2

LEMMA InitIInv == Init => IInv
<1> SUFFICES ASSUME Init PROVE IInv
  OBVIOUS
<1> USE Numbers DEF Init, Writing, AtMain, AtComm, Done, Idle
<1>1. PICK known \in FirstRows(db) :
        /\ rows = [r \in ID |-> IF r \in known THEN [state |-> "Unchanged", key |-> r] ELSE Absent]
        /\ same = known
  OBVIOUS
<1>2. known \subseteq db /\ db \subseteq ID
  BY DEF FirstRows
<1>3. \A r \in ID : /\ rows[r] \in Row /\ rows[r].key \in {r, Zero}
                    /\ rows[r].state \in {"Unchanged", "Absent"}
                    /\ rows[r].state = "Unchanged" => r \in same /\ r \in db
                    /\ r \in Present => rows[r].state = "Unchanged"
  BY <1>1, <1>2 DEF Row, Absent, States, Present
<1>4. TypeOK
  <2>1. rows \in [ID -> Row]
    BY <1>1, <1>3
  <2> QED BY <1>1, <1>2, <2>1, ThreeSets DEF TypeOK
<1>5. Shapes
  BY <1>3 DEF Shapes, MainType, MainPcs, CommType
<1>6. CursorStands /\ ReadIsCurrent
  BY DEF CursorStands, ReadIsCurrent
<1>7. UnchangedIsStored
  BY <1>3 DEF UnchangedIsStored, InState
<1>8. InsertedOrAdded /\ PassLeavesNone
  <2>1. \A r \in Present : r \in ID /\ r \in db /\ rows[r].state # "Added"
    BY <1>3 DEF Present
  <2> QED BY <2>1 DEF InsertedOrAdded, PassLeavesNone
<1>9. DeletesExplained
  BY DEF DeletesExplained
<1> QED BY <1>4, <1>5, <1>6, <1>7, <1>8, <1>9 DEF IInv


-----------------------------------------------------------------------------
(* Comm.  Its steps store in one row, whatever Main is doing with it.        *)

(* What a step of Comm that serves device r leaves of the others, ...        *)
LeavesAlone(r) ==
  /\ db' = db /\ index' = index /\ toDelete' = toDelete /\ removed' = removed
  /\ rows' \in [ID -> Row] /\ \A q \in ID \ {r} : rows'[q] = rows[q]
  /\ same \ {r} \subseteq same' /\ same' \subseteq same
  /\ doubt \subseteq doubt' /\ doubt' \subseteq doubt \cup {r}
  /\ fresh \subseteq fresh' /\ fresh' \subseteq fresh \cup {r}
  /\ left' \in [messages : Nat, mishaps : Nat]
  /\ comm' \in CommType /\ (comm'.pc # "idle" => comm'.row \in ID)
  /\ comm'.pc \in {"test", "store"} => comm'.calls # 0
  /\ \A q \in ID \ {r} : ~Adding(q) /\ ~Adding(q)' /\ ~Marking(q) /\ ~Marking(q)'

(* ... what Main may notice of it, ...                                       *)
Unnoticed(r) ==
  /\ main' \in MainType /\ main'.pc = main.pc /\ main'.row = main.row /\ main'.key = main.key
  /\ main.row = Zero => ~main'.late
  /\ main.late => main'.late
  /\ main.pc # "idle" /\ main.moved => main'.moved
  /\ main.row # r => main'.current = main.current
  /\ \/ dit' = dit
     \/ /\ dit' \in Present \cup {End}
        /\ main.row # Zero => main'.late
        /\ main.pc # "idle" => main'.moved

(* ... and how it changes its row: one that is made is empty or still being  *)
(* added, and one that is stored in is marked, being marked, or in doubt.    *)
Changes(r) ==
  /\ r \in Present => rows'[r].state \in States /\ rows'[r].key = rows[r].key
  /\ r \notin Present => \/ rows'[r] = rows[r]
                         \/ rows'[r].key = Zero
                         \/ rows'[r].key = r /\ Adding(r)'
  /\ r \in Present /\ rows'[r].state = "Added" =>
       rows[r].state = "Added" \/ r \in fresh' \/ main.pc = "idle"
  /\ r \in Present /\ (rows[r].state = "Added" \/ Adding(r)) => rows'[r].state = "Added"
  /\ Adding(r) => r \in fresh' \/ main.pc = "idle"
  /\ rows'[r].state = "Unchanged" /\ rows'[r].key = r /\ r \notin doubt' /\ ~Adding(r)' /\ ~Marking(r)' =>
       rows'[r] = rows[r] /\ same' = same /\ ~Adding(r) /\ ~Marking(r)
  /\ r \in Present /\ main.row = r /\ ~main'.late /\ rows'[r].state = "Unchanged" /\ ~Marking(r)' =>
       rows'[r] = rows[r] /\ main'.current = main.current /\ ~Marking(r)

LEMMA CommKeeps ==
  ASSUME IInv, NEW r \in ID, LeavesAlone(r), Unnoticed(r), Changes(r)
  PROVE  IInv'
<1> USE DEF IInv, Writing, AtMain, AtComm
<1>1. /\ \A q \in ID \ {r} : rows'[q] = rows[q]
      /\ db' = db /\ index' = index /\ toDelete' = toDelete /\ removed' = removed
      /\ rows' \in [ID -> Row]
  BY DEF LeavesAlone
<1>2. /\ main'.pc = main.pc /\ main'.row = main.row /\ main'.key = main.key
  BY DEF Unnoticed
<1>3. /\ Present \subseteq ID /\ Present' \subseteq ID /\ Zero \notin Present /\ End \notin Present
      /\ \A q \in ID : q \in Present <=> rows[q].state # "Absent"
      /\ \A q \in ID : q \in Present' <=> rows'[q].state # "Absent"
  BY <1>1, RowFacts, RowFactsNext
<1>4. Present \subseteq Present' /\ Present' \subseteq Present \cup {r}
  BY <1>1, <1>3 DEF Changes, States
<1>5. \A q \in Present : rows'[q].key = rows[q].key
  BY <1>1, <1>3 DEF Changes
<1>6. TypeOK'
  <2>1. doubt' \subseteq ID /\ removed' \subseteq ID /\ fresh' \subseteq ID
    BY ThreeSets DEF LeavesAlone, TypeOK
  <2>2. (UNION {doubt, removed, fresh})' \subseteq ID
    BY <2>1, ThreeSets
  <2>3. dit' \in ID \cup {End} /\ (main.pc = "scanning" => dit' = End \/ dit' \in Present')
    BY <1>3, <1>4 DEF Unnoticed, TypeOK
  <2>4. comm'.row \in ID \cup {Zero} /\ same' \subseteq ID \cup {Zero}
    BY DEF LeavesAlone, CommType, TypeOK
  <2> QED BY <1>1, <1>2, <2>2, <2>3, <2>4 DEF TypeOK
<1>7. Shapes'
  <2>1. \A q \in ID : rows'[q].key \in {q, Zero}
    BY <1>1, <1>3 DEF Shapes, Changes
  <2>2. Writing' => main'.row \in Present'
    BY <1>2, <1>4 DEF Shapes
  <2>3. Writing' /\ rows'[main'.row].state = "Added" => main'.row \in fresh'
    <3> SUFFICES ASSUME Writing, rows'[main.row].state = "Added" PROVE main.row \in fresh'
      BY <1>2
    <3>1. main.row \in Present /\ (rows[main.row].state = "Added" => main.row \in fresh)
      BY DEF Shapes
    <3>2. main.row # r => rows'[main.row] = rows[main.row]
      BY <1>1, <1>3, <3>1
    <3> QED BY <3>1, <3>2 DEF Changes, LeavesAlone
  <2>4. ~Writing' => main'.row = Zero /\ ~main'.late
    BY <1>2 DEF Shapes, Unnoticed
  <2> QED BY <2>1, <2>2, <2>3, <2>4 DEF Shapes, LeavesAlone, Unnoticed
<1>8. CursorStands'
  <2>1. main.pc # "idle" /\ ~main'.moved => dit' = dit /\ ~main.moved
    BY DEF Unnoticed
  <2>2. Writing /\ ~main'.late => dit' = dit /\ ~main.late
    BY <1>3 DEF Shapes, Unnoticed
  <2>3. main'.pc \notin {"idle", "deleting", "stopped"} => dit' \in Present' \cup {End}
    BY <1>2, <1>4 DEF CursorStands, Unnoticed
  <2>4. Writing' /\ (~main'.late \/ ~main'.moved) => dit' = main'.row
    BY <1>2, <2>1, <2>2 DEF CursorStands
  <2>5. main'.pc \in {"added", "modified"} /\ ~main'.moved => dit' # End'
    BY <1>2, <2>1 DEF CursorStands, End
  <2>6. main'.pc = "inserting" /\ ~main'.late => main'.key = rows'[main'.row].key
    BY <1>2, <1>5, <2>2 DEF CursorStands, Shapes
  <2> QED BY <2>3, <2>4, <2>5, <2>6 DEF CursorStands, End
<1>9. UnchangedIsStored'
  <2> SUFFICES ASSUME NEW q \in ID, rows'[q].state = "Unchanged", rows'[q].key = q,
                      q \in db', q \notin doubt', ~Underway(q)'
               PROVE  q \in same'
    BY DEF UnchangedIsStored, InState
  <2>1. CASE q # r
    <3>1. rows'[q] = rows[q] /\ q \notin doubt /\ ~Underway(q)
      BY <1>1, <1>2, <2>1 DEF LeavesAlone, Underway, Marking
    <3>2. q \in same
      BY <1>1, <3>1 DEF UnchangedIsStored, InState
    <3> QED BY <2>1, <3>2 DEF LeavesAlone
  <2>2. CASE q = r
    <3>1. ~Adding(r)' /\ ~Marking(r)'
      BY <2>2 DEF Underway, Marking
    <3>2. rows'[r] = rows[r] /\ same' = same /\ ~Adding(r) /\ ~Marking(r)
      BY <2>2, <3>1 DEF Changes
    <3>3. ~Underway(r) /\ r \notin doubt
      BY <1>2, <2>2, <3>2 DEF Underway, Marking, LeavesAlone
    <3> QED BY <1>1, <2>2, <3>2, <3>3 DEF UnchangedIsStored, InState
  <2> QED BY <2>1, <2>2
<1>10. ReadIsCurrent'
  <2> SUFFICES ASSUME main.pc = "executing", ~main'.late, rows'[main.row].state = "Unchanged",
                      ~Marking(main.row)'
               PROVE  main'.current
    BY <1>2 DEF ReadIsCurrent
  <2>1. main.row \in Present /\ ~main.late
    BY DEF Shapes, Unnoticed
  <2>2. rows'[main.row] = rows[main.row] /\ main'.current = main.current /\ ~Marking(main.row)
    <3>1. CASE main.row = r
      BY <1>2, <2>1, <3>1 DEF Changes
    <3>2. CASE main.row # r
      BY <1>1, <1>3, <2>1, <3>2 DEF LeavesAlone, Unnoticed
    <3> QED BY <3>1, <3>2
  <2> QED BY <2>1, <2>2 DEF ReadIsCurrent
<1>11. InsertedOrAdded'
  <2> SUFFICES ASSUME NEW q \in Present', q \notin removed' \cup doubt', rows'[q].key = q
               PROVE  q \in db' \/ rows'[q].state = "Added" \/ Adding(q)' \/ (main'.row = q /\ Writing')
    BY DEF InsertedOrAdded
  <2>1. q \notin removed \cup doubt /\ q \in ID
    BY <1>1, <1>3 DEF LeavesAlone
  <2>2. CASE q \notin Present
    <3>1. q = r
      BY <1>4, <2>2
    <3>2. rows'[r] # rows[r] /\ rows'[r].key # Zero
      BY <1>3, <2>1, <2>2, <3>1, Numbers
    <3> QED BY <2>2, <3>1, <3>2 DEF Changes
  <2>3. CASE q \in Present
    <3>1. q \in db \/ rows[q].state = "Added" \/ Adding(q) \/ (main.row = q /\ Writing)
      BY <1>5, <2>1, <2>3 DEF InsertedOrAdded
    <3>2. rows[q].state = "Added" \/ Adding(q) => rows'[q].state = "Added"
      BY <1>1, <2>1, <2>3 DEF Changes, LeavesAlone
    <3> QED BY <1>1, <1>2, <3>1, <3>2
  <2> QED BY <2>2, <2>3
<1>12. PassLeavesNone'
  <2> SUFFICES ASSUME ~main'.moved, NEW q \in Present', q \notin fresh', rows'[q].state = "Added",
                      rows'[q].key = q
               PROVE  \/ Adding(q)' \/ main.pc \in {"idle", "stopped"}
                      \/ main.pc \in {"adding", "added", "insert", "inserting"} /\ dit' <= q
    BY <1>2 DEF PassLeavesNone
  <2> SUFFICES ASSUME main.pc # "idle"
               PROVE  \/ Adding(q)' \/ main.pc = "stopped"
                      \/ main.pc \in {"adding", "added", "insert", "inserting"} /\ dit' <= q
    OBVIOUS
  <2>1. ~main.moved /\ dit' = dit /\ q \in ID /\ q \notin fresh
    BY <1>3 DEF Unnoticed, LeavesAlone
  <2>2. CASE q \notin Present
    <3>1. q = r
      BY <1>4, <2>2
    <3>2. rows'[r] # rows[r] /\ rows'[r].key # Zero
      BY <1>3, <2>1, <2>2, <3>1, Numbers
    <3> QED BY <2>2, <3>1, <3>2 DEF Changes
  <2>3. CASE q \in Present
    <3>1. rows[q].state = "Added" /\ ~Adding(q)
      BY <1>1, <2>1, <2>3 DEF Changes, LeavesAlone
    <3>2. rows[q].key = q
      BY <1>5, <2>3
    <3> QED BY <2>1, <2>3, <3>1, <3>2 DEF PassLeavesNone
  <2> QED BY <2>2, <2>3
<1>13. DeletesExplained'
  <2>1. ASSUME NEW q \in Present', q \in Present => Explained(q), main.pc # "idle"
        PROVE  Explained(q)'
    <3>1. CASE q \notin Present
      <4>1. q = r /\ rows'[r] # rows[r]
        BY <1>3, <1>4, <3>1
      <4> QED BY <3>1, <4>1, Numbers DEF Changes, Explained
    <3>2. CASE q \in Present
      <4>1. Adding(q) => q \in fresh'
        BY <1>3, <2>1, <3>2 DEF Changes, LeavesAlone
      <4>2. rows[q].key = rows'[q].key /\ (main.moved => main'.moved)
        BY <1>5, <2>1, <3>2 DEF Unnoticed
      <4>3. doubt \subseteq doubt' /\ fresh \subseteq fresh'
        BY DEF LeavesAlone
      <4> QED BY <1>1, <2>1, <3>2, <4>1, <4>2, <4>3 DEF Explained
    <3> QED BY <3>1, <3>2
  <2>2. main'.pc = "scanning" => \A q \in Present' \ index' : Explained(q)'
    BY <1>1, <1>2, <2>1 DEF DeletesExplained
  <2>3. \A q \in toDelete' \cap Present' : Explained(q)'
    <3> SUFFICES ASSUME NEW q \in toDelete' \cap Present' PROVE Explained(q)'
      OBVIOUS
    <3>1. main.pc \in {"scanning", "deleting"} /\ (q \in Present => Explained(q))
      BY <1>1 DEF DeletesExplained
    <3> QED BY <2>1, <3>1
  <2> QED BY <1>1, <1>2, <2>2, <2>3 DEF DeletesExplained
<1> QED BY <1>6, <1>7, <1>8, <1>9, <1>10, <1>11, <1>12, <1>13

LEMMA RecordFacts ==
  ASSUME IInv
  PROVE  /\ main = [pc |-> main.pc, row |-> main.row, key |-> main.key, current |-> main.current,
                    late |-> main.late, moved |-> main.moved]
         /\ {main.current, main.late, main.moved} \subseteq BOOLEAN /\ main \in MainType
         /\ comm = [pc |-> comm.pc, row |-> comm.row, calls |-> comm.calls] /\ comm \in CommType
         /\ comm.pc # "idle" => comm.row \in ID
BY DEF IInv, Shapes, MainType, CommType

(* Comm goes on with the device it serves, or begins with one.               *)
LEMMA Serving ==
  ASSUME IInv, NEW r \in ID, comm.pc = "idle" \/ comm.row = r,
         comm'.row = r \/ comm'.pc = "idle"
  PROVE  \A q \in ID \ {r} : ~Adding(q) /\ ~Adding(q)' /\ ~Marking(q) /\ ~Marking(q)'
BY DEF Adding, Marking, AtComm

(* Where Comm goes to.                                                       *)
LEMMA Goes ==
  ASSUME IInv, NEW r \in ID, comm.row = r
  PROVE  /\ \A p \in {"add", "fill", "handle", "count", "test", "store", "mark"} :
              LET then == [comm EXCEPT !.pc = p]
              IN  then \in CommType /\ then.pc = p /\ then.row = r /\ then.calls = comm.calls
         /\ comm.calls # 0 =>
              /\ NextCall \in CommType /\ NextCall.pc \in {"idle", "test", "store"}
              /\ NextCall.pc = "idle" \/ (NextCall.row = r /\ NextCall.calls # 0)
         /\ Done \in CommType /\ Done.pc = "idle"
<1>1. comm \in CommType /\ comm = [pc |-> comm.pc, row |-> comm.row, calls |-> comm.calls]
  BY RecordFacts
<1>2. Done \in CommType /\ Done.pc = "idle"
  BY DEF Done, CommType
<1>3. ASSUME NEW p \in {"add", "fill", "handle", "count", "test", "store", "mark"}
      PROVE  LET then == [comm EXCEPT !.pc = p]
             IN  then \in CommType /\ then.pc = p /\ then.row = r /\ then.calls = comm.calls
  BY <1>1 DEF CommType
<1>4. ASSUME comm.calls # 0
      PROVE  /\ NextCall \in CommType /\ NextCall.pc \in {"idle", "test", "store"}
             /\ NextCall.pc = "idle" \/ (NextCall.row = r /\ NextCall.calls # 0)
  <2>1. CASE comm.calls = 1
    BY <1>2, <2>1 DEF NextCall
  <2>2. CASE comm.calls # 1
    <3>1. comm.calls - 1 \in Nat /\ comm.calls - 1 # 0
      BY <1>1, <1>4, <2>2 DEF CommType
    <3>2. PICK p \in {"test", "store"} : NextCall = [comm EXCEPT !.pc = p, !.calls = @ - 1]
      BY <2>2 DEF NextCall
    <3> QED BY <1>1, <3>1, <3>2 DEF CommType
  <2> QED BY <2>1, <2>2
<1> QED BY <1>2, <1>3, <1>4

LEMMA MainAlone ==
  ASSUME IInv, NEW r \in ID, main' = main, dit' = dit
  PROVE  Unnoticed(r)
BY RecordFacts, RowFacts DEF Unnoticed, IInv, Shapes, Writing

LEMMA RowOutdated ==
  ASSUME IInv, NEW r \in ID, main' = Outdated(main, r)
  PROVE  /\ main' \in MainType /\ main'.pc = main.pc /\ main'.row = main.row /\ main'.key = main.key
         /\ main'.late = main.late /\ main'.moved = main.moved
         /\ main.row # r => main'.current = main.current
<1> DEFINE c == main.current /\ main.row # r
<1>1. main' = [main EXCEPT !.current = c]
  BY DEF Outdated
<1>2. c \in BOOLEAN /\ (main.row # r => c = main.current)
  BY RecordFacts
<1> HIDE DEF c
<1> QED BY <1>1, <1>2, RecordFacts DEF MainType

LEMMA MessageKeeps == IInv /\ Message => IInv'
<1> SUFFICES ASSUME IInv, Message PROVE IInv'
  OBVIOUS
<1> USE DEF IInv, AtMain, AtComm
<1>1. /\ AtComm("idle") /\ left.messages > 0
      /\ left' = [left EXCEPT !.messages = @ - 1]
      /\ db' = db /\ same' = same /\ dit' = dit /\ main' = main /\ index' = index
      /\ toDelete' = toDelete /\ doubt' = doubt /\ removed' = removed /\ fresh' = fresh
  BY DEF Message
<1>2. PICK r \in ID :
        \/ r \notin Present /\ AutoAddRows /\ IndexRow(r)
        \/ comm' = [comm EXCEPT !.pc = "handle", !.row = r] /\ rows' = rows
  BY DEF Message
<1>3. /\ rows' \in [ID -> Row] /\ \A q \in ID \ {r} : rows'[q] = rows[q]
      /\ \/ rows' = rows
         \/ r \notin Present /\ rows'[r].key = r /\ Adding(r)'
  <2>1. CASE IndexRow(r) /\ r \notin Present
    <3>1. Adding(r)'
      BY <1>1, <2>1, RecordFacts DEF IndexRow, Adding
    <3>2. rows' \in NewRow(r, r)
      BY <2>1 DEF IndexRow
    <3> QED BY <2>1, <3>1, <3>2, MadeRow
  <2>2. CASE rows' = rows
    BY <2>2 DEF TypeOK
  <2> QED BY <1>2, <2>1, <2>2
<1>4. comm' \in CommType /\ comm'.row = r /\ comm'.pc \in {"add", "handle"}
  BY <1>2, RecordFacts DEF IndexRow, CommType
<1>5. left' \in [messages : Nat, mishaps : Nat]
  <2>1. left \in [messages : Nat, mishaps : Nat] /\ left.messages - 1 \in Nat
    BY <1>1 DEF Shapes
  <2> QED BY <1>1, <2>1
<1>6. LeavesAlone(r)
  BY <1>1, <1>3, <1>4, <1>5, Serving DEF LeavesAlone, TypeOK
<1>7. Unnoticed(r)
  BY <1>1, MainAlone
<1>8. Changes(r)
  <2>1. ~Adding(r) /\ ~Marking(r)
    BY <1>1 DEF Adding, Marking
  <2>2. r \in Present => rows' = rows
    BY <1>3
  <2>3. r \in Present => rows[r].state \in States
    BY RowFacts
  <2> QED BY <1>1, <1>3, <2>1, <2>2, <2>3 DEF Changes
<1> QED BY <1>6, <1>7, <1>8, CommKeeps

LEMMA AddNewRowKeeps == IInv /\ AddNewRow => IInv'
<1> SUFFICES ASSUME IInv, AddNewRow PROVE IInv'
  OBVIOUS
<1> USE DEF IInv, AtMain, AtComm
<1>1. PICK r \in ID : r = comm.row
  BY DEF AddNewRow, Shapes
<1>2. /\ comm.pc = "add" /\ comm' = [comm EXCEPT !.pc = "fill"]
      /\ fresh' = IF main.pc = "idle" THEN fresh ELSE fresh \cup {r}
      /\ db' = db /\ same' = same /\ dit' = dit /\ main' = main /\ index' = index
      /\ toDelete' = toDelete /\ left' = left /\ doubt' = doubt /\ removed' = removed
  BY <1>1 DEF AddNewRow, CommTo
<1>3. PICK now \in Access(r) : rows' = [now EXCEPT ![r].state = "Added"]
  BY <1>1 DEF AddNewRow
<1>4. /\ rows' \in [ID -> Row] /\ \A q \in ID \ {r} : rows'[q] = rows[q]
      /\ rows'[r].state = "Added" /\ rows'[r].key = now[r].key
      /\ r \in Present => rows'[r].key = rows[r].key
      /\ r \notin Present => rows'[r].key = Zero
  <2>1. /\ now \in [ID -> Row] /\ now[r].state \in States
        /\ \A q \in ID \ {r} : now[q] = rows[q]
        /\ r \in Present => now = rows
        /\ r \notin Present => now[r].key = Zero
    BY <1>1, Accessed
  <2>2. "Added" \in States
    BY DEF States
  <2> QED BY <1>1, <1>3, <2>1, <2>2, Restated
<1>5. comm' \in CommType /\ comm'.row = r /\ comm'.pc = "fill"
  BY <1>1, <1>2, Goes
<1>6. LeavesAlone(r)
  BY <1>1, <1>2, <1>4, <1>5, Serving DEF LeavesAlone, TypeOK, Shapes
<1>7. Unnoticed(r)
  BY <1>1, <1>2, MainAlone
<1>8. Changes(r)
  <2>1. r \in fresh' \/ main.pc = "idle"
    BY <1>2
  <2> QED BY <1>4, <2>1 DEF Changes, States
<1> QED BY <1>1, <1>6, <1>7, <1>8, CommKeeps

LEMMA FillRowKeeps == IInv /\ FillRow => IInv'
<1> SUFFICES ASSUME IInv, FillRow PROVE IInv'
  OBVIOUS
<1> USE DEF IInv, AtMain, AtComm
<1>1. PICK r \in ID : r = comm.row
  BY DEF FillRow, Shapes
<1> DEFINE late == rows[r].state # "Added"
<1>2. /\ comm.pc = "fill"
      /\ \E p \in {"handle", "store"} : comm' = [comm EXCEPT !.pc = p] /\ (p = "store" => comm.calls # 0)
      /\ rows' \in Access(r) /\ same' = same \ {r}
      /\ doubt' = (IF late THEN doubt \cup {r} ELSE doubt)
      /\ main' = [Outdated(main, r) EXCEPT !.late = @ \/ (late /\ main.row = r)]
      /\ db' = db /\ dit' = dit /\ index' = index
      /\ toDelete' = toDelete /\ left' = left /\ removed' = removed /\ fresh' = fresh
  BY <1>1 DEF FillRow, CommTo
<1> HIDE DEF late
<1>3. /\ rows' \in [ID -> Row] /\ rows'[r].state \in States
      /\ \A q \in ID \ {r} : rows'[q] = rows[q]
      /\ r \in Present => rows' = rows
      /\ r \notin Present => rows'[r].key = Zero
  BY <1>1, <1>2, Accessed
<1>4. /\ comm' \in CommType /\ comm'.row = r /\ comm'.pc \in {"handle", "store"}
      /\ comm'.pc = "store" => comm'.calls # 0
  BY <1>1, <1>2, Goes
<1>5. LeavesAlone(r)
  BY <1>1, <1>2, <1>3, <1>4, Serving DEF LeavesAlone, TypeOK, Shapes
<1>6. /\ main' \in MainType /\ main'.pc = main.pc /\ main'.row = main.row /\ main'.key = main.key
      /\ main'.late = (main.late \/ (late /\ main.row = r)) /\ main'.moved = main.moved
      /\ main.row # r => main'.current = main.current
  <2> DEFINE c == main.current /\ main.row # r
             l == main.late \/ (late /\ main.row = r)
  <2>1. main' = [main EXCEPT !.current = c, !.late = l]
    BY <1>2, RecordFacts DEF Outdated
  <2>2. c \in BOOLEAN /\ l \in BOOLEAN /\ (main.row # r => c = main.current)
    BY RecordFacts
  <2> HIDE DEF c
  <2>3. /\ main' \in MainType /\ main'.pc = main.pc /\ main'.row = main.row /\ main'.key = main.key
        /\ main'.moved = main.moved /\ main'.current = c
    <3> HIDE DEF l
    <3> QED BY <2>1, <2>2, RecordFacts DEF MainType
  <2>4. main'.late = l
    <3> HIDE DEF l
    <3> QED BY <2>1, RecordFacts
  <2> QED BY <2>2, <2>3, <2>4
<1>7. Unnoticed(r)
  BY <1>2, <1>6, RowFacts, Numbers DEF Unnoticed, Shapes, Writing
<1>8. Changes(r)
  <2>1. ~Adding(r) /\ ~Marking(r) /\ ~Adding(r)' /\ ~Marking(r)'
    BY <1>2, <1>4 DEF Adding, Marking
  <2>2. rows'[r].state = "Unchanged" /\ rows'[r].key = r => late /\ r \in Present
    BY <1>1, <1>3, Numbers DEF late
  <2>3. r \in Present => rows[r].state \in States
    BY RowFacts
  <2>4. late => r \in doubt' /\ (main.row = r => main'.late)
    BY <1>2, <1>6
  <2>5. r \in Present /\ rows'[r].state = "Unchanged" => late
    BY <1>3 DEF late
  <2> QED BY <1>3, <2>1, <2>2, <2>3, <2>4, <2>5 DEF Changes
<1> QED BY <1>1, <1>5, <1>7, <1>8, CommKeeps

LEMMA StoreUpdateKeeps == IInv /\ StoreUpdate => IInv'
<1> SUFFICES ASSUME IInv, StoreUpdate PROVE IInv'
  OBVIOUS
<1> USE DEF IInv, AtMain, AtComm
<1>1. PICK r \in ID : r = comm.row
  BY DEF StoreUpdate, Shapes
<1> DEFINE storing == r \in Present /\ rows[r].state # "Deleted"
<1>2. /\ comm.pc = "handle"
      /\ comm' = [comm EXCEPT !.pc = IF storing THEN "mark" ELSE "count"]
      /\ dit' = (IF r \in Present THEN r ELSE End)
      /\ same' = (IF storing THEN same \ {r} ELSE same)
      /\ main' = Moved(IF storing THEN Outdated(main, r) ELSE main)
      /\ rows' = rows /\ db' = db /\ index' = index /\ doubt' = doubt
      /\ toDelete' = toDelete /\ left' = left /\ removed' = removed /\ fresh' = fresh
  BY <1>1 DEF StoreUpdate, CommTo
<1>3. comm' \in CommType /\ comm'.row = r /\ comm'.pc = IF storing THEN "mark" ELSE "count"
  <2>1. \A p \in {"mark", "count"} : LET then == [comm EXCEPT !.pc = p]
                                     IN  then \in CommType /\ then.pc = p /\ then.row = r
    BY <1>1, Goes
  <2> QED BY <1>2, <2>1
<1>4. LeavesAlone(r)
  BY <1>1, <1>2, <1>3, Serving DEF LeavesAlone, TypeOK, Shapes
<1>5. /\ main' \in MainType /\ main'.pc = main.pc /\ main'.row = main.row /\ main'.key = main.key
      /\ main'.late = (main.row # Zero) /\ main'.moved = (main.pc # "idle")
      /\ main.row # r => main'.current = main.current
      /\ ~storing => main'.current = main.current
  <2> DEFINE c == IF storing THEN main.current /\ main.row # r ELSE main.current
             l == main.row # Zero
             m == main.pc # "idle"
  <2>1. main' = [main EXCEPT !.current = c, !.late = l, !.moved = m]
    <3>1. CASE storing
      BY <1>2, <3>1, RecordFacts DEF Outdated, Moved
    <3>2. CASE ~storing
      BY <1>2, <3>2, RecordFacts DEF Moved
    <3> QED BY <3>1, <3>2
  <2>2. c \in BOOLEAN /\ l \in BOOLEAN /\ m \in BOOLEAN /\ (main.row # r \/ ~storing => c = main.current)
    BY RecordFacts
  <2> HIDE DEF c, l, m
  <2>3. /\ main' \in MainType /\ main'.pc = main.pc /\ main'.row = main.row /\ main'.key = main.key
        /\ main'.moved = m /\ main'.late = l /\ main'.current = c
    BY <2>1, <2>2, RecordFacts DEF MainType
  <2> QED BY <2>2, <2>3 DEF l, m
<1>6. Unnoticed(r)
  <2>1. dit' \in Present \cup {End}
    BY <1>2
  <2>2. main.late => main.row # Zero
    BY RowFacts DEF Shapes, Writing
  <2> QED BY <1>5, <2>1, <2>2 DEF Unnoticed
<1>7. Changes(r)
  <2>1. ~Adding(r) /\ ~Marking(r) /\ ~Adding(r)'
    BY <1>2, <1>3 DEF Adding, Marking
  <2>2. storing => Marking(r)'
    BY <1>3 DEF Marking
  <2>3. r \in Present => rows[r].state \in States
    BY RowFacts
  <2>4. ~storing => same' = same /\ main'.current = main.current
    BY <1>2, <1>5
  <2> HIDE DEF storing
  <2> QED BY <1>2, <2>1, <2>2, <2>3, <2>4 DEF Changes
<1> QED BY <1>1, <1>4, <1>6, <1>7, CommKeeps

LEMMA NewMessageInKeeps == IInv /\ NewMessageIn => IInv'
<1> SUFFICES ASSUME IInv, NewMessageIn PROVE IInv'
  OBVIOUS
<1> USE DEF IInv, AtMain, AtComm
<1>1. PICK r \in ID : r = comm.row
  BY DEF NewMessageIn, Shapes
<1>2. /\ comm.pc \in {"handle", "count"}
      /\ \/ comm' = Done
         \/ comm' = [comm EXCEPT !.pc = "test", !.calls = Counters + 1]
      /\ rows' = rows /\ db' = db /\ same' = same /\ dit' = dit /\ main' = main /\ index' = index
      /\ toDelete' = toDelete /\ left' = left /\ doubt' = doubt /\ removed' = removed /\ fresh' = fresh
  BY DEF NewMessageIn
<1>3. /\ comm' \in CommType /\ comm'.pc \in {"idle", "test"}
      /\ comm'.pc = "test" => comm'.row = r /\ comm'.calls # 0
  <2>1. Counters + 1 \in Nat /\ Counters + 1 # 0
    BY Numbers
  <2> QED BY <1>1, <1>2, <2>1, RecordFacts, Goes DEF CommType
<1>4. LeavesAlone(r)
  BY <1>1, <1>2, <1>3, Serving DEF LeavesAlone, TypeOK, Shapes
<1>5. Unnoticed(r)
  BY <1>2, MainAlone
<1>6. Changes(r)
  <2>1. ~Adding(r) /\ ~Marking(r) /\ (r \in Present => rows[r].state \in States)
    BY <1>2, RowFacts DEF Adding, Marking
  <2> QED BY <1>2, <2>1 DEF Changes
<1> QED BY <1>4, <1>5, <1>6, CommKeeps

LEMMA AddToItemKeeps == IInv /\ AddToItem => IInv'
<1> SUFFICES ASSUME IInv, AddToItem PROVE IInv'
  OBVIOUS
<1> USE DEF IInv, AtMain, AtComm
<1>1. PICK r \in ID : r = comm.row
  BY DEF AddToItem, Shapes
<1>2. /\ comm.pc = "test" /\ comm.calls # 0
      /\ \/ comm' = [comm EXCEPT !.pc = "store"] /\ rows' = rows
         \/ r \notin Present /\ IndexRow(r)
         \/ comm' = NextCall /\ rows' = rows
      /\ db' = db /\ same' = same /\ dit' = dit /\ main' = main /\ index' = index
      /\ toDelete' = toDelete /\ left' = left /\ doubt' = doubt /\ removed' = removed /\ fresh' = fresh
  BY <1>1 DEF AddToItem, CommTo, Shapes
<1>3. /\ rows' \in [ID -> Row] /\ \A q \in ID \ {r} : rows'[q] = rows[q]
      /\ \/ rows' = rows
         \/ r \notin Present /\ rows'[r].key = r /\ Adding(r)'
      /\ comm' \in CommType /\ (comm'.row = r \/ comm'.pc = "idle")
      /\ comm'.pc \in {"test", "store"} => comm'.calls # 0
  <2>1. CASE r \notin Present /\ IndexRow(r)
    <3>1. comm' = [comm EXCEPT !.pc = "add", !.row = r] /\ rows' \in NewRow(r, r)
      BY <2>1 DEF IndexRow
    <3>2. comm' \in CommType /\ comm'.row = r /\ comm'.pc = "add"
      BY <3>1, RecordFacts DEF CommType
    <3> QED BY <2>1, <3>1, <3>2, MadeRow DEF Adding
  <2>2. CASE comm' = [comm EXCEPT !.pc = "store"] /\ rows' = rows
    BY <1>1, <1>2, <2>2, Goes DEF TypeOK
  <2>3. CASE comm' = NextCall /\ rows' = rows
    BY <1>1, <1>2, <2>3, Goes DEF TypeOK
  <2> QED BY <1>2, <2>1, <2>2, <2>3
<1>4. LeavesAlone(r)
  <2>1. comm'.pc # "idle" => comm'.row \in ID
    BY <1>3
  <2> QED BY <1>1, <1>2, <1>3, <2>1, Serving DEF LeavesAlone, TypeOK, Shapes
<1>5. Unnoticed(r)
  BY <1>2, MainAlone
<1>6. Changes(r)
  <2>1. ~Adding(r) /\ ~Marking(r) /\ (r \in Present => rows[r].state \in States)
    BY <1>2, RowFacts DEF Adding, Marking
  <2> QED BY <1>2, <1>3, <2>1 DEF Changes
<1> QED BY <1>4, <1>5, <1>6, CommKeeps

LEMMA StoreItemKeeps == IInv /\ StoreItem => IInv'
<1> SUFFICES ASSUME IInv, StoreItem PROVE IInv'
  OBVIOUS
<1> USE DEF IInv, AtMain, AtComm
<1>1. PICK r \in ID : r = comm.row
  BY DEF StoreItem, Shapes
<1>2. /\ comm.pc = "store" /\ comm.calls # 0 /\ rows' \in Access(r)
      /\ \/ /\ rows'[r].state = "Deleted" /\ comm' = NextCall /\ same' = same /\ main' = main
         \/ /\ comm' = [comm EXCEPT !.pc = "mark"] /\ same' = same \ {r}
            /\ main' = Outdated(main, r)
      /\ db' = db /\ dit' = dit /\ index' = index
      /\ toDelete' = toDelete /\ left' = left /\ doubt' = doubt /\ removed' = removed /\ fresh' = fresh
  BY <1>1 DEF StoreItem, CommTo, Shapes
<1>3. /\ rows' \in [ID -> Row] /\ rows'[r].state \in States
      /\ \A q \in ID \ {r} : rows'[q] = rows[q]
      /\ r \in Present => rows' = rows
      /\ r \notin Present => rows'[r].key = Zero
  BY <1>2, Accessed
<1>4. /\ comm' \in CommType /\ (comm'.row = r \/ comm'.pc = "idle")
      /\ comm'.pc \in {"test", "store"} => comm'.calls # 0
      /\ comm'.pc # "add" /\ (rows'[r].state # "Deleted" => Marking(r)')
  <2>1. CASE comm' = NextCall /\ rows'[r].state = "Deleted"
    BY <1>1, <1>2, <2>1, Goes
  <2>2. CASE comm' = [comm EXCEPT !.pc = "mark"]
    <3>1. comm' \in CommType /\ comm'.row = r /\ comm'.pc = "mark"
      BY <1>1, <2>2, Goes
    <3> QED BY <3>1 DEF Marking
  <2> QED BY <1>2, <2>1, <2>2
<1>5. LeavesAlone(r)
  <2>1. comm'.pc # "idle" => comm'.row \in ID
    BY <1>4
  <2> QED BY <1>1, <1>2, <1>3, <1>4, <2>1, Serving DEF LeavesAlone, TypeOK, Shapes
<1>6. Unnoticed(r)
  <2>1. CASE main' = main
    BY <1>2, <2>1, MainAlone
  <2>2. CASE main' = Outdated(main, r)
    <3>1. main.row = Zero => ~main.late
      BY RowFacts DEF Shapes, Writing
    <3> QED BY <1>2, <2>2, <3>1, RowOutdated DEF Unnoticed
  <2> QED BY <1>2, <2>1, <2>2
<1>7. Changes(r)
  <2>1. ~Adding(r) /\ ~Marking(r) /\ ~Adding(r)'
    BY <1>2, <1>4 DEF Adding, Marking
  <2>2. rows'[r].state # "Deleted" => Marking(r)'
    BY <1>4
  <2> QED BY <1>3, <2>1, <2>2, Numbers DEF Changes
<1> QED BY <1>5, <1>6, <1>7, CommKeeps

LEMMA MarkKeeps == IInv /\ Mark => IInv'
<1> SUFFICES ASSUME IInv, Mark PROVE IInv'
  OBVIOUS
<1> USE DEF IInv, AtMain, AtComm
<1>1. PICK r \in ID : r = comm.row
  BY DEF Mark, Shapes
<1>2. /\ comm.pc = "mark"
      /\ comm' = IF comm.calls = 0 THEN [comm EXCEPT !.pc = "count"] ELSE NextCall
      /\ db' = db /\ same' = same /\ dit' = dit /\ main' = main /\ index' = index
      /\ toDelete' = toDelete /\ left' = left /\ doubt' = doubt /\ removed' = removed /\ fresh' = fresh
  BY DEF Mark
<1>3. PICK now \in Access(r) :
        rows' = [now EXCEPT ![r].state = IF @ = "Unchanged" THEN "Modified" ELSE @]
  BY <1>1 DEF Mark, Marked
<1>4. /\ now \in [ID -> Row] /\ now[r].state \in States
      /\ \A q \in ID \ {r} : now[q] = rows[q]
      /\ r \in Present => now = rows
      /\ r \notin Present => now[r].key = Zero
  BY <1>3, Accessed
<1>5. /\ rows' \in [ID -> Row] /\ rows'[r].key = now[r].key
      /\ rows'[r].state = IF now[r].state = "Unchanged" THEN "Modified" ELSE now[r].state
      /\ \A q \in ID \ {r} : rows'[q] = rows[q]
  <2> DEFINE s == IF now[r].state = "Unchanged" THEN "Modified" ELSE now[r].state
  <2>1. s \in States /\ rows' = [now EXCEPT ![r].state = s]
    BY <1>3, <1>4 DEF States
  <2> HIDE DEF s
  <2>2. rows' \in [ID -> Row] /\ rows'[r].state = s /\ rows'[r].key = now[r].key
        /\ \A q \in ID \ {r} : rows'[q] = now[q]
    BY <1>4, <2>1, Restated
  <2> QED BY <1>4, <2>2 DEF s
<1>6. /\ comm' \in CommType /\ (comm'.row = r \/ comm'.pc = "idle")
      /\ comm'.pc \in {"test", "store"} => comm'.calls # 0
      /\ comm'.pc \notin {"add", "mark"}
  BY <1>1, <1>2, Goes
<1>7. LeavesAlone(r)
  <2>1. comm'.pc # "idle" => comm'.row \in ID
    BY <1>6
  <2> QED BY <1>1, <1>2, <1>5, <1>6, <2>1, Serving DEF LeavesAlone, TypeOK, Shapes
<1>8. Unnoticed(r)
  BY <1>2, MainAlone
<1>9. Changes(r)
  <2>1. ~Adding(r) /\ ~Adding(r)'
    BY <1>2, <1>6 DEF Adding
  <2>2. rows'[r].state \in States /\ rows'[r].state # "Unchanged"
    BY <1>4, <1>5 DEF States
  <2>3. r \in Present => rows'[r].key = rows[r].key
    BY <1>4, <1>5
  <2>4. r \notin Present => rows'[r].key = Zero
    BY <1>4, <1>5
  <2>5. r \in Present => (rows'[r].state = "Added" <=> rows[r].state = "Added")
    BY <1>4, <1>5
  <2> QED BY <2>1, <2>2, <2>3, <2>4, <2>5 DEF Changes
<1> QED BY <1>7, <1>8, <1>9, CommKeeps

-----------------------------------------------------------------------------
(* Main.  Some of its steps change no row and tell the server nothing.       *)

Quiet ==
  /\ rows' = rows /\ db' = db /\ same' = same /\ comm' = comm /\ left' = left
  /\ doubt' = doubt /\ removed' = removed
  /\ main' \in MainType /\ main'.row = main.row /\ main'.late = main.late
  /\ Writing' <=> Writing
  /\ fresh' = fresh \/ (fresh' = {} /\ main'.pc = "idle")
  /\ dit' \in ID \cup {End} /\ (main'.pc = "scanning" => dit' \in Present \cup {End})
  /\ index' \subseteq ID \cup {Zero} /\ toDelete' \subseteq ID

LEMMA QuietKeeps ==
  ASSUME IInv, Quiet, CursorStands', ReadIsCurrent', PassLeavesNone', DeletesExplained'
  PROVE  IInv'
<1> USE DEF IInv, AtMain, AtComm
<1>1. /\ rows' = rows /\ db' = db /\ same' = same /\ comm' = comm /\ left' = left
      /\ doubt' = doubt /\ removed' = removed /\ main'.row = main.row
      /\ Writing' <=> Writing
      /\ fresh' \subseteq fresh /\ (Writing' => fresh' = fresh)
  BY DEF Quiet, Writing
<1>2. Present' = Present
  BY <1>1 DEF Present
<1>3. TypeOK'
  <2>1. (UNION {doubt, removed, fresh})' \subseteq ID
    BY <1>1, ThreeSets DEF TypeOK
  <2> QED BY <1>1, <1>2, <2>1 DEF TypeOK, Quiet
<1>4. Shapes'
  BY <1>1, <1>2 DEF Shapes, Quiet
<1>5. UnchangedIsStored'
  <2>1. \A q \in ID : Underway(q) => Underway(q)'
    BY <1>1 DEF Underway, Adding, Writing
  <2> QED BY <1>1, <2>1 DEF UnchangedIsStored, InState
<1>6. InsertedOrAdded'
  BY <1>1, <1>2 DEF InsertedOrAdded, Adding
<1> QED BY <1>3, <1>4, <1>5, <1>6

(* Where Main goes to.                                                       *)
LEMMA MainGoes ==
  ASSUME IInv
  PROVE  /\ \A p \in MainPcs : LET then == [main EXCEPT !.pc = p]
                               IN  /\ then \in MainType /\ then.pc = p /\ then.row = main.row
                                   /\ then.key = main.key /\ then.late = main.late
                                   /\ then.current = main.current /\ then.moved = main.moved
         /\ \A p \in MainPcs : LET then == [Idle EXCEPT !.pc = p, !.moved = main.moved]
                               IN  /\ then \in MainType /\ then.pc = p /\ then.row = Zero
                                   /\ then.late = FALSE /\ then.moved = main.moved
         /\ Idle \in MainType /\ Idle.pc = "idle" /\ Idle.row = Zero /\ Idle.late = FALSE
<1>1. main \in MainType /\ main.moved \in BOOLEAN
  BY RecordFacts
<1>2. Idle \in MainType
  BY DEF Idle, MainType, MainPcs
<1>3. ASSUME NEW p \in MainPcs
      PROVE  LET then == [main EXCEPT !.pc = p]
             IN  /\ then \in MainType /\ then.pc = p /\ then.row = main.row
                 /\ then.key = main.key /\ then.late = main.late
                 /\ then.current = main.current /\ then.moved = main.moved
  BY <1>1 DEF MainType
<1>4. ASSUME NEW p \in MainPcs
      PROVE  LET then == [Idle EXCEPT !.pc = p, !.moved = main.moved]
             IN  /\ then \in MainType /\ then.pc = p /\ then.row = Zero
                 /\ then.late = FALSE /\ then.moved = main.moved
  <2> DEFINE m == main.moved
  <2>1. m \in BOOLEAN
    BY <1>1
  <2> HIDE DEF m
  <2>2. LET then == [Idle EXCEPT !.pc = p, !.moved = m]
        IN  /\ then \in MainType /\ then.pc = p /\ then.row = Zero
            /\ then.late = FALSE /\ then.moved = m
    BY <2>1, <1>2 DEF Idle, MainType
  <2> QED BY <2>2 DEF m
<1> QED BY <1>2, <1>3, <1>4 DEF Idle

(* The cursor stands on a row or at the end while Main pushes.               *)
LEMMA CursorFacts ==
  ASSUME IInv
  PROVE  /\ dit \in ID \cup {End}
         /\ main.pc \notin {"idle", "deleting", "stopped"} /\ dit # End =>
              /\ dit \in Present /\ dit \in ID /\ dit \in Int
              /\ RowAfter(dit) \in Present \cup {End} /\ RowAfter(dit) \in ID \cup {End}
              /\ \A q \in Present : q > dit => RowAfter(dit) <= q
         /\ Begin \in Present \cup {End} /\ Begin \in ID \cup {End}
         /\ \A q \in Present : Begin <= q
         /\ \A q \in Present : ~(End <= q) /\ q \in Int
<1>1. Present \subseteq ID /\ \A q \in Present : q < End /\ q \in Nat /\ q > 0
  BY RowFacts DEF IInv
<1>2. Begin \in Present \cup {End} /\ \A q \in Present : q > 0 => Begin <= q
  BY NextRow DEF Begin
<1>3. dit \in Present => /\ RowAfter(dit) \in Present \cup {End}
                         /\ \A q \in Present : q > dit => RowAfter(dit) <= q
  <2>1. dit \in Present => dit \in Int
    BY <1>1
  <2> QED BY <2>1, NextRow
<1>4. \A q \in Present : ~(End <= q) /\ q \in Int
  <2> TAKE q \in Present
  <2>1. q < End /\ q \in Int /\ End \in Int
    BY <1>1, Numbers
  <2> QED BY <2>1
<1> QED BY <1>1, <1>2, <1>3, <1>4 DEF IInv, CursorStands, TypeOK

LEMMA StartPushKeeps == IInv /\ StartPush => IInv'
<1> SUFFICES ASSUME IInv, StartPush PROVE IInv'
  OBVIOUS
<1> USE DEF IInv, AtMain, AtComm
<1>1. /\ main.pc = "idle" /\ main' = [main EXCEPT !.pc = "adding"] /\ dit' = Begin
      /\ rows' = rows /\ db' = db /\ same' = same /\ index' = index /\ toDelete' = toDelete
      /\ comm' = comm /\ left' = left /\ doubt' = doubt /\ removed' = removed /\ fresh' = fresh
  BY DEF StartPush, Goto
<1>2. /\ main' \in MainType /\ main'.pc = "adding" /\ main'.row = main.row
      /\ main'.late = main.late
  BY <1>1, MainGoes DEF MainPcs
<1>3. Present' = Present
  BY <1>1 DEF Present
<1>4. Quiet
  BY <1>1, <1>2, CursorFacts DEF Quiet, Writing, TypeOK
<1>5. CursorStands' /\ ReadIsCurrent'
  BY <1>1, <1>2, <1>3, CursorFacts DEF CursorStands, ReadIsCurrent, Writing, End
<1>6. PassLeavesNone'
  BY <1>1, <1>2, <1>3, CursorFacts DEF PassLeavesNone
<1>7. DeletesExplained'
  BY <1>1, <1>2 DEF DeletesExplained
<1> QED BY <1>4, <1>5, <1>6, <1>7, QuietKeeps

LEMMA WalkOnKeeps == IInv /\ WalkOn => IInv'
<1> SUFFICES ASSUME IInv, WalkOn PROVE IInv'
  OBVIOUS
<1> USE DEF IInv, AtMain, AtComm
<1>1. /\ main.pc \in {"adding", "updating"} /\ dit # End /\ main' = main
      /\ main.pc = "adding" => rows[dit].state # "Added"
      /\ dit' = RowAfter(dit)
      /\ rows' = rows /\ db' = db /\ same' = same /\ index' = index /\ toDelete' = toDelete
      /\ comm' = comm /\ left' = left /\ doubt' = doubt /\ removed' = removed /\ fresh' = fresh
  BY DEF WalkOn, Wanted
<1>2. Present' = Present
  BY <1>1 DEF Present
<1>3. Quiet
  BY <1>1, CursorFacts, RecordFacts DEF Quiet, Writing, TypeOK
<1>4. CursorStands' /\ ReadIsCurrent'
  BY <1>1, <1>2, CursorFacts DEF CursorStands, ReadIsCurrent, Writing, End
<1>5. PassLeavesNone'
  <2> SUFFICES ASSUME ~main.moved, NEW q \in Present, q \notin fresh, rows[q].state = "Added",
                      rows[q].key = q, ~Adding(q)
               PROVE  main.pc = "adding" /\ RowAfter(dit) <= q
    BY <1>1, <1>2 DEF PassLeavesNone, Adding
  <2>1. main.pc = "adding" /\ dit <= q
    BY <1>1 DEF PassLeavesNone
  <2>2. q # dit /\ q \in Int /\ dit \in Int
    BY <1>1, <2>1, CursorFacts
  <2> QED BY <1>1, <2>1, <2>2, CursorFacts
<1>6. DeletesExplained'
  BY <1>1 DEF DeletesExplained
<1> QED BY <1>3, <1>4, <1>5, <1>6, QuietKeeps

LEMMA FindRowKeeps == IInv /\ FindRow => IInv'
<1> SUFFICES ASSUME IInv, FindRow PROVE IInv'
  OBVIOUS
<1> USE DEF IInv, AtMain, AtComm
<1>1. /\ main.pc \in {"adding", "updating"} /\ dit # End /\ dit' = dit
      /\ main' = [main EXCEPT !.pc = IF main.pc = "adding" THEN "added" ELSE "modified"]
      /\ rows' = rows /\ db' = db /\ same' = same /\ index' = index /\ toDelete' = toDelete
      /\ comm' = comm /\ left' = left /\ doubt' = doubt /\ removed' = removed /\ fresh' = fresh
  BY DEF FindRow, Goto
<1>2. /\ main' \in MainType /\ main'.row = main.row /\ main'.late = main.late
      /\ main'.moved = main.moved
      /\ main'.pc = IF main.pc = "adding" THEN "added" ELSE "modified"
  BY <1>1, MainGoes DEF MainPcs
<1>3. Present' = Present
  BY <1>1 DEF Present
<1>4. Quiet
  BY <1>1, <1>2, CursorFacts DEF Quiet, Writing, TypeOK
<1>5. CursorStands' /\ ReadIsCurrent'
  BY <1>1, <1>2, <1>3, CursorFacts DEF CursorStands, ReadIsCurrent, Writing, End
<1>6. PassLeavesNone'
  BY <1>1, <1>2, <1>3 DEF PassLeavesNone, Adding
<1>7. DeletesExplained'
  BY <1>1, <1>2 DEF DeletesExplained
<1> QED BY <1>4, <1>5, <1>6, <1>7, QuietKeeps

LEMMA EndOfPassKeeps == IInv /\ EndOfPass => IInv'
<1> SUFFICES ASSUME IInv, EndOfPass PROVE IInv'
  OBVIOUS
<1> USE DEF IInv, AtMain, AtComm
<1>1. /\ main.pc \in {"adding", "updating"} /\ dit = End
      /\ \E p \in {"updating", "listing"} : main' = [main EXCEPT !.pc = p]
      /\ dit' \in {Begin, dit}
      /\ rows' = rows /\ db' = db /\ same' = same /\ index' = index /\ toDelete' = toDelete
      /\ comm' = comm /\ left' = left /\ doubt' = doubt /\ removed' = removed /\ fresh' = fresh
  BY DEF EndOfPass, Goto
<1>2. /\ main' \in MainType /\ main'.row = main.row /\ main'.late = main.late
      /\ main'.moved = main.moved /\ main'.pc \in {"updating", "listing"}
  BY <1>1, MainGoes DEF MainPcs
<1>3. Present' = Present
  BY <1>1 DEF Present
<1>4. Quiet
  BY <1>1, <1>2, CursorFacts DEF Quiet, Writing, TypeOK
<1>5. CursorStands' /\ ReadIsCurrent'
  BY <1>1, <1>2, <1>3, CursorFacts DEF CursorStands, ReadIsCurrent, Writing, End
<1>6. PassLeavesNone'
  <2> SUFFICES ASSUME ~main.moved, NEW q \in Present, q \notin fresh, rows[q].state = "Added",
                      rows[q].key = q
               PROVE  Adding(q)
    BY <1>1, <1>2, <1>3 DEF PassLeavesNone, Adding
  <2> QED BY <1>1, CursorFacts DEF PassLeavesNone
<1>7. DeletesExplained'
  BY <1>1, <1>2 DEF DeletesExplained
<1> QED BY <1>4, <1>5, <1>6, <1>7, QuietKeeps

LEMMA ReadFirstKeeps == IInv /\ ReadFirst => IInv'
<1> SUFFICES ASSUME IInv, ReadFirst PROVE IInv'
  OBVIOUS
<1> USE DEF IInv, AtMain, AtComm
<1>1. /\ main.pc \in {"insert", "update"} /\ dit # End /\ dit' = dit
      /\ \/ main.pc = "insert" /\ main' = [main EXCEPT !.pc = "inserting", !.key = rows[dit].key]
         \/ main.pc = "update" /\ main' = [main EXCEPT !.pc = "executing", !.current = (dit = main.row)]
      /\ rows' = rows /\ db' = db /\ same' = same /\ index' = index /\ toDelete' = toDelete
      /\ comm' = comm /\ left' = left /\ doubt' = doubt /\ removed' = removed /\ fresh' = fresh
  BY DEF ReadFirst
<1>2. /\ main' \in MainType /\ main'.row = main.row /\ main'.late = main.late
      /\ main'.moved = main.moved
      /\ main'.pc = IF main.pc = "insert" THEN "inserting" ELSE "executing"
      /\ main.pc = "insert" => main'.key = rows[dit].key
      /\ main.pc = "update" /\ dit = main.row => main'.current
  <2>1. rows[dit].key \in ID \cup {Zero}
    BY <1>1, CursorFacts, RowFacts
  <2>2. CASE main.pc = "insert"
    BY <1>1, <2>1, <2>2, RecordFacts DEF MainType, MainPcs
  <2>3. CASE main.pc = "update"
    <3> DEFINE c == dit = main.row
    <3>1. c \in BOOLEAN /\ main' = [main EXCEPT !.pc = "executing", !.current = c]
      BY <1>1, <2>3
    <3> HIDE DEF c
    <3>2. /\ main' \in MainType /\ main'.row = main.row /\ main'.late = main.late
          /\ main'.moved = main.moved /\ main'.pc = "executing" /\ main'.current = c
      BY <3>1, RecordFacts DEF MainType, MainPcs
    <3> QED BY <2>3, <3>2 DEF c
  <2> QED BY <1>1, <2>2, <2>3
<1>3. Present' = Present
  BY <1>1 DEF Present
<1>4. Quiet
  BY <1>1, <1>2, CursorFacts DEF Quiet, Writing, TypeOK
<1>5. CursorStands' /\ ReadIsCurrent'
  BY <1>1, <1>2, <1>3, CursorFacts DEF CursorStands, ReadIsCurrent, Writing, End
<1>6. PassLeavesNone'
  BY <1>1, <1>2, <1>3 DEF PassLeavesNone, Adding
<1>7. DeletesExplained'
  BY <1>1, <1>2 DEF DeletesExplained
<1> QED BY <1>4, <1>5, <1>6, <1>7, QuietKeeps

(* A row the server's list lacks is explained when the list is read.         *)
LEMMA MissingIsExplained ==
  ASSUME IInv, main.pc = "listing", NEW ids \in FirstRows(db), NEW q \in Present, q \notin ids
  PROVE  \/ q \in removed \cup doubt \cup fresh
         \/ q \in db /\ Cardinality(ids) = MaxRowCount
         \/ main.moved \/ rows[q].key = Zero \/ Adding(q)
<1> USE DEF IInv
<1>1. CASE q \in db
  BY <1>1 DEF FirstRows
<1>2. CASE q \notin db
  <2> SUFFICES ASSUME q \notin removed \cup doubt \cup fresh, ~main.moved, rows[q].key # Zero,
                      ~Adding(q)
               PROVE  FALSE
    OBVIOUS
  <2>1. rows[q].key = q
    BY RowFacts DEF Shapes
  <2>2. rows[q].state = "Added"
    BY <1>2, <2>1 DEF InsertedOrAdded, Writing
  <2> QED BY <2>1, <2>2 DEF PassLeavesNone
<1> QED BY <1>1, <1>2

LEMMA GetIndexListKeeps == IInv /\ GetIndexList => IInv'
<1> SUFFICES ASSUME IInv, GetIndexList PROVE IInv'
  OBVIOUS
<1> USE DEF IInv, AtMain, AtComm
<1>1. /\ main.pc = "listing"
      /\ rows' = rows /\ db' = db /\ same' = same /\ toDelete' = toDelete
      /\ comm' = comm /\ left' = left /\ doubt' = doubt /\ removed' = removed
  BY DEF GetIndexList
<1>2. Present' = Present /\ toDelete = {} /\ main.row = Zero /\ main.late = FALSE /\ ~Writing
  BY <1>1, RecordFacts DEF Present, DeletesExplained, Shapes, Writing
<1>3. PICK ids \in FirstRows(db) \cup {{}} :
        IF Listed(ids)
        THEN index' = ids /\ dit' = Begin /\ main' = [main EXCEPT !.pc = "scanning"] /\ fresh' = fresh
        ELSE main' = Idle /\ index' = {} /\ fresh' = {} /\ dit' = dit
  BY DEF GetIndexList, EndPush, Goto
<1>4. CASE Listed(ids)
  <2>1. /\ main' \in MainType /\ main'.pc = "scanning" /\ main'.row = Zero /\ main'.late = FALSE
        /\ main'.moved = main.moved
    <3>1. main' = [main EXCEPT !.pc = "scanning"] /\ "scanning" \in MainPcs
      BY <1>3, <1>4 DEF MainPcs
    <3> QED BY <1>2, <3>1, MainGoes
  <2>2. ids \in FirstRows(db) /\ ids \subseteq ID \cup {Zero}
    BY <1>4 DEF Listed, FirstRows, TypeOK
  <2>3. Quiet
    <3>1. ~Writing' /\ toDelete' \subseteq ID
      BY <1>1, <2>1 DEF Writing, TypeOK
    <3>2. dit' \in Present \cup {End} /\ dit' \in ID \cup {End} /\ index' = ids /\ fresh' = fresh
      BY <1>3, <1>4, CursorFacts
    <3> QED BY <1>1, <1>2, <2>1, <2>2, <3>1, <3>2 DEF Quiet
  <2>4. CursorStands' /\ ReadIsCurrent'
    BY <1>2, <1>3, <1>4, <2>1, CursorFacts DEF CursorStands, ReadIsCurrent, Writing, End
  <2>5. PassLeavesNone'
    BY <1>1, <1>2, <1>3, <1>4, <2>1 DEF PassLeavesNone, Adding
  <2>6. DeletesExplained'
    <3>1. \A q \in Present' \ index' : Explained(q)'
      BY <1>1, <1>2, <1>3, <1>4, <2>1, <2>2, MissingIsExplained DEF Explained, Adding
    <3> QED BY <1>1, <1>2, <2>1, <3>1 DEF DeletesExplained
  <2> QED BY <2>3, <2>4, <2>5, <2>6, QuietKeeps
<1>5. CASE ~Listed(ids)
  <2>1. main' \in MainType /\ main'.pc = "idle" /\ main'.row = Zero /\ main'.late = FALSE
    BY <1>3, <1>5, MainGoes
  <2>2. Quiet
    <3>1. ~Writing' /\ toDelete' \subseteq ID
      BY <1>1, <2>1 DEF Writing, TypeOK
    <3>2. dit' \in ID \cup {End} /\ index' = {} /\ fresh' = {}
      BY <1>3, <1>5, CursorFacts
    <3> QED BY <1>1, <1>2, <2>1, <3>1, <3>2 DEF Quiet
  <2>3. CursorStands' /\ ReadIsCurrent'
    BY <2>1 DEF CursorStands, ReadIsCurrent, Writing
  <2>4. PassLeavesNone' /\ DeletesExplained'
    BY <1>1, <1>2, <2>1 DEF PassLeavesNone, DeletesExplained
  <2> QED BY <2>2, <2>3, <2>4, QuietKeeps
<1> QED BY <1>4, <1>5

LEMMA ScanKeeps == IInv /\ Scan => IInv'
<1> SUFFICES ASSUME IInv, Scan PROVE IInv'
  OBVIOUS
<1> USE DEF IInv, AtMain, AtComm
<1>1. /\ main.pc = "scanning"
      /\ rows' = rows /\ db' = db /\ same' = same
      /\ comm' = comm /\ left' = left /\ doubt' = doubt /\ removed' = removed
  BY DEF Scan
<1>2. Present' = Present /\ main.row = Zero /\ main.late = FALSE /\ ~Writing
  BY <1>1, RecordFacts DEF Present, Shapes, Writing
<1>3. CASE dit # End
  <2>1. /\ toDelete' = (IF dit \in index THEN toDelete ELSE toDelete \cup {dit})
        /\ dit' = RowAfter(dit) /\ main' = main /\ index' = index /\ fresh' = fresh
    BY <1>3 DEF Scan
  <2>2. Quiet
    BY <1>1, <1>2, <1>3, <2>1, CursorFacts, RecordFacts DEF Quiet, Writing, TypeOK
  <2>3. CursorStands' /\ ReadIsCurrent'
    BY <1>1, <1>2, <1>3, <2>1, CursorFacts DEF CursorStands, ReadIsCurrent, Writing, End
  <2>4. PassLeavesNone'
    BY <1>1, <1>2, <2>1 DEF PassLeavesNone, Adding
  <2>5. DeletesExplained'
    <3>1. \A q \in Present : Explained(q)' <=> Explained(q)
      BY <1>1, <2>1 DEF Explained, Adding
    <3>2. \A q \in toDelete' \cap Present : q \in toDelete \/ q \notin index
      BY <2>1
    <3> QED BY <1>1, <1>2, <2>1, <3>1, <3>2 DEF DeletesExplained
  <2> QED BY <2>2, <2>3, <2>4, <2>5, QuietKeeps
<1>4. CASE dit = End /\ toDelete = {}
  <2>1. /\ main' = Idle /\ index' = {} /\ fresh' = {} /\ dit' = dit /\ toDelete' = toDelete
    BY <1>4 DEF Scan, EndPush
  <2>2. main' \in MainType /\ main'.pc = "idle" /\ main'.row = Zero /\ main'.late = FALSE
    BY <2>1, MainGoes
  <2>3. Quiet
    <3>1. ~Writing' /\ toDelete' \subseteq ID /\ index' \subseteq ID \cup {Zero}
      BY <2>1, <2>2 DEF Writing, TypeOK
    <3>2. dit' \in ID \cup {End}
      BY <2>1, CursorFacts
    <3> QED BY <1>1, <1>2, <2>1, <2>2, <3>1, <3>2 DEF Quiet
  <2>4. CursorStands' /\ ReadIsCurrent'
    BY <2>2 DEF CursorStands, ReadIsCurrent, Writing
  <2>5. PassLeavesNone' /\ DeletesExplained'
    BY <1>4, <2>1, <2>2 DEF PassLeavesNone, DeletesExplained
  <2> QED BY <2>3, <2>4, <2>5, QuietKeeps
<1>5. CASE dit = End /\ toDelete # {}
  <2>1. /\ main' = [main EXCEPT !.pc = "deleting"] /\ index' = index /\ fresh' = fresh
        /\ dit' = dit /\ toDelete' = toDelete
    BY <1>5 DEF Scan, Goto
  <2>2. /\ main' \in MainType /\ main'.pc = "deleting" /\ main'.row = Zero /\ main'.late = FALSE
        /\ main'.moved = main.moved
    BY <1>2, <2>1, MainGoes DEF MainPcs
  <2>3. Quiet
    BY <1>1, <1>2, <2>1, <2>2, CursorFacts DEF Quiet, Writing, TypeOK
  <2>4. CursorStands' /\ ReadIsCurrent'
    BY <2>2 DEF CursorStands, ReadIsCurrent, Writing
  <2>5. PassLeavesNone'
    BY <1>1, <1>2, <2>1, <2>2 DEF PassLeavesNone, Adding
  <2>6. DeletesExplained'
    <3>1. \A q \in Present : Explained(q)' <=> Explained(q)
      BY <1>1, <2>1, <2>2 DEF Explained, Adding
    <3> QED BY <1>2, <1>5, <2>1, <2>2, <3>1 DEF DeletesExplained
  <2> QED BY <2>3, <2>4, <2>5, <2>6, QuietKeeps
<1> QED BY <1>3, <1>4, <1>5

LEMMA DeleteRowKeeps == IInv /\ DeleteRow => IInv'
<1> SUFFICES ASSUME IInv, DeleteRow PROVE IInv'
  OBVIOUS
<1> USE DEF IInv, AtMain, AtComm
<1>1. main.pc = "deleting" /\ main.row = Zero /\ ~main.late
  BY DEF DeleteRow, Shapes, Writing
<1>2. PICK r \in toDelete : r = Max(toDelete)
  BY <1>1, LastToDelete DEF DeletesExplained, TypeOK
<1>3. r \in ID
  BY <1>2 DEF TypeOK
<1>4. /\ rows' = [rows EXCEPT ![r] = Absent] /\ same' = same \ {r}
      /\ doubt' = doubt \ {r} /\ removed' = removed \ {r} /\ toDelete' = toDelete \ {r}
      /\ db' = db /\ dit' = dit /\ comm' = comm /\ left' = left
      /\ \/ toDelete' = {} /\ main' = Idle /\ index' = {} /\ fresh' = {}
         \/ toDelete' # {} /\ main' = main /\ index' = index /\ fresh' = fresh
  BY <1>2 DEF DeleteRow, EndPush
<1>5. /\ main' \in MainType /\ main'.row = Zero /\ ~main'.late
      /\ \/ main'.pc = "idle" /\ toDelete' = {}
         \/ main'.pc = "deleting" /\ toDelete' # {}
  BY <1>1, <1>4, MainGoes, RecordFacts
<1>6. /\ rows' \in [ID -> Row] /\ rows'[r] = Absent /\ \A q \in ID \ {r} : rows'[q] = rows[q]
      /\ Present' = Present \ {r} /\ Present \subseteq ID
  <2>1. rows' \in [ID -> Row] /\ rows'[r] = Absent /\ \A q \in ID \ {r} : rows'[q] = rows[q]
    BY <1>3, <1>4 DEF TypeOK, Row
  <2> QED BY <2>1 DEF Present
<1>7. TypeOK'
  <2>1. doubt' \subseteq ID /\ removed' \subseteq ID /\ fresh' \subseteq ID
    BY <1>4, ThreeSets DEF TypeOK
  <2>2. (UNION {doubt, removed, fresh})' \subseteq ID
    BY <2>1, ThreeSets
  <2> QED BY <1>4, <1>5, <1>6, <2>2 DEF TypeOK
<1>8. Shapes'
  <2>1. \A q \in ID : rows'[q].key \in {q, Zero}
    BY <1>6 DEF Shapes, Absent
  <2> QED BY <1>4, <1>5, <2>1 DEF Shapes, Writing
<1>9. CursorStands' /\ ReadIsCurrent'
  BY <1>5 DEF CursorStands, ReadIsCurrent, Writing
<1>10. UnchangedIsStored'
  <2>1. rows'[r].state # "Unchanged"
    BY <1>6 DEF Absent
  <2>2. \A q \in ID : Underway(q) => Underway(q)'
    BY <1>1, <1>4 DEF Underway, Adding
  <2> QED BY <1>4, <1>6, <2>1, <2>2 DEF UnchangedIsStored, InState
<1>11. InsertedOrAdded'
  BY <1>1, <1>4, <1>6 DEF InsertedOrAdded, Adding, Writing
<1>12. PassLeavesNone'
  <2>1. main'.pc = "deleting" => main' = main /\ fresh' = fresh
    BY <1>4, MainGoes
  <2> QED BY <1>1, <1>4, <1>5, <1>6, <2>1 DEF PassLeavesNone, Adding
<1>13. DeletesExplained'
  <2>1. toDelete' # {} => \A q \in Present' : Explained(q) => Explained(q)'
    BY <1>4, <1>6 DEF Explained, Adding
  <2> QED BY <1>4, <1>5, <1>6, <2>1 DEF DeletesExplained
<1> QED BY <1>7, <1>8, <1>9, <1>10, <1>11, <1>12, <1>13

LEMMA TakeRowKeeps == IInv /\ TakeRow => IInv'
<1> SUFFICES ASSUME IInv, TakeRow PROVE IInv'
  OBVIOUS
<1> USE DEF IInv, AtMain, AtComm
<1>1. /\ main.pc \in {"added", "modified"} /\ dit # End
      /\ rows' = [rows EXCEPT ![dit].state = "Unchanged"]
      /\ main' = [main EXCEPT !.pc = IF main.pc = "added" THEN "insert" ELSE "update", !.row = dit]
      /\ db' = db /\ same' = same /\ dit' = dit /\ index' = index /\ toDelete' = toDelete
      /\ comm' = comm /\ left' = left /\ doubt' = doubt /\ removed' = removed /\ fresh' = fresh
  BY DEF TakeRow
<1>2. PICK r \in Present : r = dit
  BY <1>1, CursorFacts
<1>3. r \in ID /\ Present \subseteq ID /\ rows[r].state \in States
  BY RowFacts
<1>4. /\ rows' \in [ID -> Row] /\ rows'[r].state = "Unchanged" /\ rows'[r].key = rows[r].key
      /\ \A q \in ID \ {r} : rows'[q] = rows[q]
  <2>1. rows' = [rows EXCEPT ![r].state = "Unchanged"] /\ rows \in [ID -> Row]
    BY <1>1, <1>2 DEF TypeOK
  <2>2. "Unchanged" \in States
    BY DEF States
  <2> QED BY <1>3, <2>1, <2>2, Restated
<1>5. Present' = Present
  <2>1. \A q \in ID : q \in Present' <=> q \in Present
    BY <1>3, <1>4, RowFacts, RowFactsNext
  <2> QED BY <1>3, <1>4, <2>1, RowFactsNext
<1>6. main.row = Zero /\ ~main.late
  BY <1>1 DEF Shapes, Writing
<1>7. /\ main' \in MainType /\ main'.row = r /\ main'.late = main.late /\ main'.moved = main.moved
      /\ main'.pc = IF main.pc = "added" THEN "insert" ELSE "update"
  <2>1. PICK p \in {"insert", "update"} :
          p = (IF main.pc = "added" THEN "insert" ELSE "update")
    OBVIOUS
  <2>2. main' = [main EXCEPT !.pc = p, !.row = r]
    BY <1>1, <1>2, <2>1
  <2> QED BY <1>3, <2>1, <2>2, RecordFacts DEF MainType, MainPcs
<1>8. TypeOK'
  <2>1. (UNION {doubt, removed, fresh})' \subseteq ID
    BY <1>1, ThreeSets DEF TypeOK
  <2> QED BY <1>1, <1>3, <1>4, <1>5, <1>7, <2>1 DEF TypeOK
<1>9. Shapes'
  <2>1. \A q \in ID : rows'[q].key \in {q, Zero}
    BY <1>4 DEF Shapes
  <2> QED BY <1>1, <1>4, <1>5, <1>7, <2>1 DEF Shapes, Writing
<1>10. CursorStands' /\ ReadIsCurrent'
  BY <1>1, <1>2, <1>5, <1>7 DEF CursorStands, ReadIsCurrent, Writing
<1>11. UnchangedIsStored'
  <2> SUFFICES ASSUME NEW q \in ID, rows'[q].state = "Unchanged", rows'[q].key = q,
                      q \in db, q \notin doubt, ~Underway(q)'
               PROVE  q \in same
    BY <1>1 DEF UnchangedIsStored, InState
  <2>1. q # r
    BY <1>1, <1>7 DEF Underway
  <2>2. rows[q] = rows'[q] /\ ~Underway(q)
    BY <1>1, <1>4, <1>6, <2>1, Numbers DEF Underway, Adding
  <2> QED BY <2>2 DEF UnchangedIsStored, InState
<1>12. InsertedOrAdded'
  <2> SUFFICES ASSUME NEW q \in Present, q \notin removed \cup doubt, rows'[q].key = q, q # r
               PROVE  q \in db \/ rows'[q].state = "Added" \/ Adding(q)'
    BY <1>1, <1>5, <1>7 DEF InsertedOrAdded, Writing
  <2> QED BY <1>1, <1>3, <1>4, <1>6, Numbers DEF InsertedOrAdded, Adding
<1>13. PassLeavesNone'
  <2> SUFFICES ASSUME ~main.moved, NEW q \in Present, q \notin fresh, rows'[q].state = "Added",
                      rows'[q].key = q, ~Adding(q)'
               PROVE  main'.pc = "insert" /\ dit <= q
    BY <1>1, <1>5, <1>7 DEF PassLeavesNone
  <2>1. q # r /\ rows'[q] = rows[q] /\ ~Adding(q)
    BY <1>1, <1>3, <1>4 DEF Adding
  <2> QED BY <1>1, <1>7, <2>1 DEF PassLeavesNone
<1>14. DeletesExplained'
  BY <1>1, <1>7 DEF DeletesExplained
<1> QED BY <1>8, <1>9, <1>10, <1>11, <1>12, <1>13, <1>14

LEMMA StatementFacts ==
  ASSUME IInv, Writing
  PROVE  /\ main.row \in Present /\ main.row \in ID /\ main.row # Zero
         /\ rows[main.row].key \in {main.row, Zero}
         /\ toDelete = {} /\ main.moved \in BOOLEAN /\ main.late \in BOOLEAN
         /\ ~main.moved => dit = main.row
BY RowFacts, RecordFacts DEF IInv, Shapes, CursorStands, DeletesExplained, Writing

(* What becomes of the invariant when a statement has been carried out or    *)
(* refused; what it says of the rows, the server and the doubts is left.     *)
LEMMA StatementKeeps ==
  ASSUME IInv, Writing, NEW p \in {"adding", "updating", "stopped"},
         main' = [Idle EXCEPT !.pc = p, !.moved = main.moved],
         rows' = rows, comm' = comm, index' = index, toDelete' = toDelete, fresh' = fresh,
         left' \in [messages : Nat, mishaps : Nat],
         db' \subseteq ID \cup {Zero}, same' \subseteq ID \cup {Zero},
         doubt' \subseteq ID, removed' \subseteq ID, dit' \in Present \cup {End},
         UnchangedIsStored', InsertedOrAdded', PassLeavesNone'
  PROVE  IInv'
<1> USE DEF IInv, AtMain, AtComm
<1>1. main' \in MainType /\ main'.pc = p /\ main'.row = Zero /\ main'.late = FALSE
  <2>1. p \in MainPcs
    BY DEF MainPcs
  <2> QED BY <2>1, MainGoes
<1>2. Present' = Present /\ Present \subseteq ID
  BY DEF Present
<1>3. TypeOK'
  <2>1. (UNION {doubt, removed, fresh})' \subseteq ID
    BY ThreeSets DEF TypeOK
  <2>2. dit' \in ID \cup {End}
    BY <1>2
  <2> QED BY <1>1, <1>2, <2>1, <2>2 DEF TypeOK
<1>4. Shapes'
  BY <1>1 DEF Shapes, Writing
<1>5. CursorStands' /\ ReadIsCurrent'
  BY <1>1, <1>2 DEF CursorStands, ReadIsCurrent, Writing, End
<1>6. DeletesExplained'
  BY <1>1, StatementFacts DEF DeletesExplained
<1> QED BY <1>3, <1>4, <1>5, <1>6

(* What a statement says of the rows.                                        *)
LEMMA JudgeFacts ==
  ASSUME IInv, Writing, NEW accepted \in BOOLEAN, NEW key \in ID \cup {Zero}, Judge(accepted, key)
  PROVE  /\ doubt' \subseteq ID
         /\ \A q \in ID : q # main.row /\ q \notin doubt' => q \notin doubt
         /\ main.late \/ ~accepted => main.row \in doubt' /\ (key # Zero => key \in doubt')
<1>1. doubt \subseteq ID /\ main.row \in ID /\ main.row # Zero
  BY ThreeSets, StatementFacts DEF IInv, TypeOK
<1>2. CASE accepted /\ ~main.late
  BY <1>1, <1>2 DEF Judge
<1>3. CASE main.late \/ ~accepted
  BY <1>1, <1>3 DEF Judge
<1> QED BY <1>2, <1>3

(* Rows of which nothing was said are as they were.                          *)
LEMMA Untouched ==
  ASSUME IInv, Writing, rows' = rows, comm' = comm, NEW q \in ID, q # main.row
  PROVE  /\ rows[q].state = "Unchanged" /\ rows[q].key = q /\ q \in db /\ q \notin doubt
              /\ ~Underway(q)' => q \in same
         /\ q \in Present /\ q \notin removed \cup doubt /\ rows[q].key = q =>
              q \in db \/ rows[q].state = "Added" \/ Adding(q)'
<1>1. Adding(q)' <=> Adding(q)
  BY DEF Adding, AtComm
<1>2. ~Underway(q)' => ~Underway(q)
  BY <1>1 DEF Underway, AtComm
<1> QED BY <1>1, <1>2 DEF IInv, UnchangedIsStored, InState, InsertedOrAdded

LEMMA MishapLeft ==
  ASSUME IInv, Mishap \/ left' = left
  PROVE  left' \in [messages : Nat, mishaps : Nat]
<1>1. left \in [messages : Nat, mishaps : Nat]
  BY DEF IInv, Shapes
<1>2. CASE Mishap
  <2>1. left.mishaps > 0 /\ left' = [left EXCEPT !.mishaps = @ - 1]
    BY <1>2 DEF Mishap
  <2>2. left.mishaps - 1 \in Nat
    BY <1>1, <2>1
  <2> QED BY <1>1, <2>1, <2>2
<1> QED BY <1>1, <1>2

LEMMA InsertKeeps == IInv /\ Insert => IInv'
<1> SUFFICES ASSUME IInv, Insert PROVE IInv'
  OBVIOUS
<1> USE DEF IInv, AtMain, AtComm
<1>1. PICK r \in ID, key \in ID \cup {Zero} : r = main.row /\ key = main.key
  <2>1. main.row \in ID /\ main.key \in ID \cup {Zero}
    BY StatementFacts, RecordFacts DEF Insert, Writing, MainType
  <2> QED BY <2>1
<1>2. /\ main.pc = "inserting" /\ Writing /\ dit # End /\ dit' = RowAfter(dit)
      /\ main' = [Idle EXCEPT !.pc = "adding", !.moved = main.moved]
      /\ rows' = rows /\ comm' = comm /\ index' = index /\ toDelete' = toDelete /\ fresh' = fresh
  BY DEF Insert, GotoAfresh, Writing
<1>3. \/ /\ key \notin db /\ db' = db \cup {key} /\ removed' = removed \ {key} /\ left' = left
         /\ same' = (IF dit = key THEN same \cup {key} ELSE same \ {key}) /\ Judge(TRUE, key)
      \/ /\ db' = db /\ same' = same /\ removed' = removed /\ Judge(FALSE, key)
         /\ Mishap \/ left' = left
  BY <1>1 DEF Insert, Written
<1>4. /\ left' \in [messages : Nat, mishaps : Nat]
      /\ db' \subseteq ID \cup {Zero} /\ same' \subseteq ID \cup {Zero} /\ removed' \subseteq ID
      /\ dit' \in Present \cup {End} /\ Present' = Present
  <2>1. removed \subseteq ID
    BY ThreeSets DEF TypeOK
  <2> QED BY <1>2, <1>3, <2>1, CursorFacts, MishapLeft DEF TypeOK, Present
<1>5. r # Zero /\ r \in Present /\ (~main.late => dit = r /\ key = rows[r].key)
  BY <1>1, <1>2, StatementFacts DEF CursorStands
<1>6. /\ doubt' \subseteq ID
      /\ \A q \in ID : q # r /\ q \notin doubt' => q \notin doubt
      /\ main.late => r \in doubt' /\ (key # Zero => key \in doubt')
  BY <1>1, <1>2, <1>3, JudgeFacts
<1>7. UnchangedIsStored' /\ InsertedOrAdded'
  <2>1. CASE db' = db /\ same' = same /\ removed' = removed /\ Judge(FALSE, key)
    <3>1. r \in doubt'
      BY <1>1, <1>2, <2>1, JudgeFacts
    <3>2. UnchangedIsStored'
      BY <1>1, <1>2, <1>6, <2>1, <3>1, Untouched DEF UnchangedIsStored, InState
    <3>3. InsertedOrAdded'
      BY <1>1, <1>2, <1>4, <1>6, <2>1, <3>1, RowFacts, Untouched DEF InsertedOrAdded
    <3> QED BY <3>2, <3>3
  <2>2. CASE /\ db' = db \cup {key} /\ removed' = removed \ {key}
             /\ same' = (IF dit = key THEN same \cup {key} ELSE same \ {key})
    <3>1. ASSUME NEW q \in ID, q \notin doubt', rows[q].key = q
          PROVE  q = key => q \in db' /\ q \in same'
      <4> SUFFICES ASSUME q = key PROVE q \in same'
        BY <2>2
      <4>1. ~main.late /\ key # Zero
        BY <1>6, <3>1, Numbers
      <4>2. dit = key
        BY <1>1, <1>2, <1>5, <4>1, StatementFacts
      <4> QED BY <2>2, <4>2
    <3>2. ASSUME NEW q \in ID, q \notin doubt', rows[q].key = q, q # key
          PROVE  q # r
      BY <1>5, <1>6, <3>2
    <3>3. UnchangedIsStored'
      <4> SUFFICES ASSUME NEW q \in ID, rows[q].state = "Unchanged", rows[q].key = q,
                          q \in db', q \notin doubt', ~Underway(q)'
                   PROVE  q \in same'
        BY <1>2 DEF UnchangedIsStored, InState
      <4>1. CASE q = key
        BY <3>1, <4>1
      <4>2. CASE q # key
        <5>1. q # r /\ q \in db /\ q \notin doubt
          BY <1>6, <2>2, <3>2, <4>2
        <5>2. q \in same
          BY <1>1, <1>2, <5>1, Untouched
        <5> QED BY <2>2, <4>2, <5>2
      <4> QED BY <4>1, <4>2
    <3>4. InsertedOrAdded'
      <4> SUFFICES ASSUME NEW q \in Present, q \notin removed', q \notin doubt', rows[q].key = q,
                          q # key
                   PROVE  q \in db' \/ rows[q].state = "Added" \/ Adding(q)'
        BY <1>2, <1>4, <2>2 DEF InsertedOrAdded
      <4>1. q \in ID /\ q # r /\ q \notin removed /\ q \notin doubt
        BY <1>6, <2>2, <3>2, RowFacts
      <4> QED BY <1>1, <1>2, <2>2, <4>1, Untouched
    <3> QED BY <3>3, <3>4
  <2> QED BY <1>3, <2>1, <2>2
<1>8. PassLeavesNone'
  <2> SUFFICES ASSUME ~main.moved, NEW q \in Present, q \notin fresh, rows[q].state = "Added",
                      rows[q].key = q, ~Adding(q)
               PROVE  RowAfter(dit) <= q
    BY <1>2, <1>4, MainGoes DEF PassLeavesNone, Adding, MainPcs
  <2>1. dit <= q
    BY <1>2 DEF PassLeavesNone
  <2>2. dit = r /\ q # r
    BY <1>1, <1>2, StatementFacts DEF Shapes
  <2>3. q \in Int /\ dit \in Int
    BY <1>2, CursorFacts
  <2> QED BY <1>2, <2>1, <2>2, <2>3, CursorFacts
<1> QED BY <1>2, <1>4, <1>6, <1>7, <1>8, StatementKeeps

LEMMA UpdateKeeps == IInv /\ Update => IInv'
<1> SUFFICES ASSUME IInv, Update PROVE IInv'
  OBVIOUS
<1> USE DEF IInv, AtMain, AtComm
<1>1. /\ main.pc = "executing" /\ Writing /\ dit # End /\ dit' = RowAfter(dit)
      /\ main' = [Idle EXCEPT !.pc = "updating", !.moved = main.moved]
      /\ rows' = rows /\ comm' = comm /\ index' = index /\ toDelete' = toDelete /\ fresh' = fresh
      /\ db' = db /\ removed' = removed
  BY DEF Update, GotoAfresh, Writing
<1>2. PICK r \in ID, key \in ID \cup {Zero} : r = main.row /\ key = rows[dit].key
  BY <1>1, CursorFacts, StatementFacts, RowFacts
<1>3. \/ /\ key \in db /\ left' = left /\ Judge(TRUE, key)
         /\ same' = (IF main.current /\ key = r THEN same \cup {key} ELSE same \ {key})
      \/ same' = same /\ Judge(FALSE, key) /\ (Mishap \/ left' = left)
  BY <1>2 DEF Update, Written
<1>4. /\ left' \in [messages : Nat, mishaps : Nat]
      /\ db' \subseteq ID \cup {Zero} /\ same' \subseteq ID \cup {Zero} /\ removed' \subseteq ID
      /\ dit' \in Present \cup {End} /\ Present' = Present
  <2>1. removed \subseteq ID
    BY ThreeSets DEF TypeOK
  <2> QED BY <1>1, <1>3, <2>1, CursorFacts, MishapLeft DEF TypeOK, Present
<1>5. r # Zero /\ r \in Present /\ (~main.late => dit = r /\ key \in {r, Zero})
  BY <1>1, <1>2, StatementFacts DEF CursorStands
<1>6. /\ doubt' \subseteq ID
      /\ \A q \in ID : q # r /\ q \notin doubt' => q \notin doubt
      /\ main.late => r \in doubt' /\ (key # Zero => key \in doubt')
  BY <1>1, <1>2, <1>3, JudgeFacts
<1>7. UnchangedIsStored' /\ InsertedOrAdded'
  <2>1. CASE same' = same /\ Judge(FALSE, key)
    <3>1. r \in doubt'
      BY <1>1, <1>2, <2>1, JudgeFacts
    <3>2. UnchangedIsStored'
      BY <1>1, <1>2, <1>6, <2>1, <3>1, Untouched DEF UnchangedIsStored, InState
    <3>3. InsertedOrAdded'
      BY <1>1, <1>2, <1>4, <1>6, <3>1, RowFacts, Untouched DEF InsertedOrAdded
    <3> QED BY <3>2, <3>3
  <2>2. CASE /\ key \in db
             /\ same' = (IF main.current /\ key = r THEN same \cup {key} ELSE same \ {key})
    <3>1. ASSUME NEW q \in ID, q \notin doubt', rows[q].key = q
          PROVE  q = r <=> q = key
      <4>1. CASE main.late
        BY <1>6, <3>1, <4>1, Numbers
      <4>2. CASE ~main.late
        BY <1>2, <1>5, <3>1, <4>2, Numbers
      <4> QED BY <4>1, <4>2
    <3>2. UnchangedIsStored'
      <4> SUFFICES ASSUME NEW q \in ID, rows[q].state = "Unchanged", rows[q].key = q,
                          q \in db, q \notin doubt', ~Underway(q)'
                   PROVE  q \in same'
        BY <1>1 DEF UnchangedIsStored, InState
      <4>1. CASE q = r
        <5>1. ~main.late /\ ~Marking(q)
          BY <1>1, <1>6, <4>1 DEF Underway, Marking
        <5>2. main.current /\ key = r
          BY <1>1, <1>2, <3>1, <4>1, <5>1 DEF ReadIsCurrent
        <5> QED BY <2>2, <4>1, <5>2
      <4>2. CASE q # r
        <5>1. q \in same /\ q # key
          BY <1>1, <1>2, <1>6, <3>1, <4>2, Untouched
        <5> QED BY <2>2, <5>1
      <4> QED BY <4>1, <4>2
    <3>3. InsertedOrAdded'
      <4> SUFFICES ASSUME NEW q \in Present, q \notin removed, q \notin doubt', rows[q].key = q,
                          q \notin db
                   PROVE  rows[q].state = "Added" \/ Adding(q)'
        BY <1>1, <1>4 DEF InsertedOrAdded
      <4>1. q \in ID /\ q # r /\ q \notin doubt
        BY <1>6, <2>2, <3>1, RowFacts
      <4> QED BY <1>1, <1>2, <4>1, Untouched
    <3> QED BY <3>2, <3>3
  <2> QED BY <1>3, <2>1, <2>2
<1>8. PassLeavesNone'
  BY <1>1, <1>4, MainGoes DEF PassLeavesNone, Adding, MainPcs
<1> QED BY <1>1, <1>4, <1>6, <1>7, <1>8, StatementKeeps

LEMMA ReadBeyondKeeps == IInv /\ ReadBeyond => IInv'
<1> SUFFICES ASSUME IInv, ReadBeyond PROVE IInv'
  OBVIOUS
<1> USE DEF IInv, AtMain, AtComm
<1>1. /\ main.pc \in {"added", "modified"} \/ Writing
      /\ main.pc \notin {"idle", "deleting", "stopped", "scanning", "listing"} /\ dit = End
      /\ \E p \in {"adding", "updating", "stopped"} :
           main' = [Idle EXCEPT !.pc = p, !.moved = main.moved]
      /\ dit' = dit \/ dit' \in After(dit)
      /\ doubt' = doubt \cup ({main.row, main.row} \ {Zero})
      /\ rows' = rows /\ db' = db /\ same' = same /\ comm' = comm /\ left' = left
      /\ index' = index /\ toDelete' = toDelete /\ removed' = removed /\ fresh' = fresh
  BY DEF ReadBeyond, GotoAfresh, Judge, Writing
<1>2. main.moved
  BY <1>1, RowFacts DEF CursorStands, Shapes
<1>3. /\ main' \in MainType /\ main'.pc \in {"adding", "updating", "stopped"} /\ main'.row = Zero
      /\ main'.late = FALSE /\ main'.moved
  <2>1. PICK p \in {"adding", "updating", "stopped"} :
          main' = [Idle EXCEPT !.pc = p, !.moved = main.moved]
    BY <1>1
  <2>2. p \in MainPcs
    BY DEF MainPcs
  <2> QED BY <1>2, <2>1, <2>2, MainGoes
<1>4. /\ Present' = Present /\ Present \subseteq ID /\ dit' \in Present \cup {End}
      /\ doubt' \subseteq ID /\ doubt \subseteq doubt' /\ toDelete = {}
      /\ main.row # Zero => main.row \in doubt'
  <2>1. doubt \subseteq ID
    BY ThreeSets DEF TypeOK
  <2> QED BY <1>1, <2>1, RowFacts DEF Present, After, DeletesExplained, TypeOK
<1>5. TypeOK'
  <2>1. doubt' \subseteq ID /\ removed' \subseteq ID /\ fresh' \subseteq ID
    BY <1>1, <1>4, ThreeSets DEF TypeOK
  <2>2. (UNION {doubt, removed, fresh})' \subseteq ID
    BY <2>1, ThreeSets
  <2> QED BY <1>1, <1>3, <1>4, <2>2 DEF TypeOK
<1>6. Shapes'
  BY <1>1, <1>3 DEF Shapes, Writing
<1>7. CursorStands' /\ ReadIsCurrent'
  BY <1>1, <1>3, <1>4 DEF CursorStands, ReadIsCurrent, Writing, End
<1>8. UnchangedIsStored'
  <2>1. \A q \in ID : q \notin doubt' /\ Underway(q) => Underway(q)'
    BY <1>1, <1>4, Numbers DEF Underway, Adding
  <2> QED BY <1>1, <1>4, <2>1 DEF UnchangedIsStored, InState
<1>9. InsertedOrAdded'
  BY <1>1, <1>4, RowFacts DEF InsertedOrAdded, Adding
<1>10. PassLeavesNone' /\ DeletesExplained'
  BY <1>1, <1>3, <1>4 DEF PassLeavesNone, DeletesExplained
<1> QED BY <1>5, <1>6, <1>7, <1>8, <1>9, <1>10

-----------------------------------------------------------------------------
(* The others.                                                               *)

LEMMA ListingKeeps == IInv /\ Listing => IInv'
<1> SUFFICES ASSUME IInv, Listing PROVE IInv'
  OBVIOUS
<1> USE DEF IInv, AtMain, AtComm
<1>1. /\ dit' \in Present \cup {End} /\ main' = Moved(main)
      /\ rows' = rows /\ db' = db /\ same' = same /\ comm' = comm /\ index' = index
      /\ toDelete' = toDelete /\ doubt' = doubt /\ removed' = removed /\ fresh' = fresh
  BY DEF Listing
<1>2. left' \in [messages : Nat, mishaps : Nat]
  BY MishapLeft DEF Listing
<1>3. Present' = Present /\ Present \subseteq ID
  BY <1>1 DEF Present
<1>4. /\ main' \in MainType /\ main'.pc = main.pc /\ main'.row = main.row /\ main'.key = main.key
      /\ main'.late = (main.row # Zero) /\ main'.moved = (main.pc # "idle")
  <2> DEFINE l == main.row # Zero
             m == main.pc # "idle"
  <2>1. main' = [main EXCEPT !.late = l, !.moved = m] /\ l \in BOOLEAN /\ m \in BOOLEAN
    BY <1>1 DEF Moved
  <2> HIDE DEF l, m
  <2>2. /\ main' \in MainType /\ main'.pc = main.pc /\ main'.row = main.row /\ main'.key = main.key
        /\ main'.late = l /\ main'.moved = m
    BY <2>1, RecordFacts DEF MainType
  <2> QED BY <2>2 DEF l, m
<1>5. TypeOK'
  <2>1. (UNION {doubt, removed, fresh})' \subseteq ID
    BY <1>1, ThreeSets DEF TypeOK
  <2>2. dit' \in ID \cup {End}
    BY <1>1, <1>3
  <2> QED BY <1>1, <1>3, <1>4, <2>1, <2>2 DEF TypeOK
<1>6. Shapes'
  BY <1>1, <1>2, <1>3, <1>4 DEF Shapes, Writing
<1>7. CursorStands' /\ ReadIsCurrent'
  <2>1. Writing => main.row # Zero
    BY StatementFacts
  <2> QED BY <1>1, <1>3, <1>4, <2>1 DEF CursorStands, ReadIsCurrent, Writing, End
<1>8. UnchangedIsStored'
  <2>1. \A q \in ID : Underway(q) => Underway(q)'
    BY <1>1, <1>4 DEF Underway, Adding
  <2> QED BY <1>1, <2>1 DEF UnchangedIsStored, InState
<1>9. InsertedOrAdded' /\ PassLeavesNone'
  BY <1>1, <1>3, <1>4 DEF InsertedOrAdded, PassLeavesNone, Adding, Writing
<1>10. DeletesExplained'
  <2>1. main.pc # "idle" => \A q \in Present : Explained(q)'
    BY <1>4 DEF Explained
  <2> QED BY <1>1, <1>3, <1>4, <2>1 DEF DeletesExplained
<1> QED BY <1>5, <1>6, <1>7, <1>8, <1>9, <1>10

LEMMA OperatorRemovesKeeps == IInv /\ OperatorRemoves => IInv'
<1> SUFFICES ASSUME IInv, OperatorRemoves PROVE IInv'
  OBVIOUS
<1> USE DEF IInv, AtMain, AtComm
<1>1. PICK r \in db \ {Zero} :
        db' = db \ {r} /\ same' = same \ {r} /\ removed' = removed \cup {r}
  BY DEF OperatorRemoves
<1>2. /\ rows' = rows /\ comm' = comm /\ index' = index /\ main' = main /\ dit' = dit
      /\ toDelete' = toDelete /\ doubt' = doubt /\ fresh' = fresh
  BY DEF OperatorRemoves
<1>3. left' \in [messages : Nat, mishaps : Nat]
  BY MishapLeft DEF OperatorRemoves
<1>4. Present' = Present /\ r \in ID
  BY <1>1, <1>2 DEF Present, TypeOK
<1>5. TypeOK'
  <2>1. doubt' \subseteq ID /\ removed' \subseteq ID /\ fresh' \subseteq ID
    BY <1>1, <1>2, <1>4, ThreeSets DEF TypeOK
  <2>2. (UNION {doubt, removed, fresh})' \subseteq ID
    BY <2>1, ThreeSets
  <2> QED BY <1>1, <1>2, <1>4, <2>2 DEF TypeOK
<1>6. Shapes'
  BY <1>2, <1>3, <1>4 DEF Shapes, Writing
<1>7. CursorStands' /\ ReadIsCurrent'
  BY <1>2, <1>4 DEF CursorStands, ReadIsCurrent, Writing, Marking, End
<1>8. UnchangedIsStored'
  <2>1. \A q \in ID : Underway(q) => Underway(q)'
    BY <1>2 DEF Underway, Adding
  <2> QED BY <1>1, <1>2, <2>1 DEF UnchangedIsStored, InState
<1>9. InsertedOrAdded' /\ PassLeavesNone'
  BY <1>1, <1>2, <1>4 DEF InsertedOrAdded, PassLeavesNone, Adding, Writing
<1>10. DeletesExplained'
  <2>1. \A q \in Present : Explained(q) => Explained(q)'
    BY <1>1, <1>2 DEF Explained, Adding
  <2> QED BY <1>2, <1>4, <2>1 DEF DeletesExplained
<1> QED BY <1>5, <1>6, <1>7, <1>8, <1>9, <1>10

LEMMA StutterKeeps == IInv /\ UNCHANGED vars => IInv'
<1> SUFFICES ASSUME IInv, UNCHANGED vars PROVE IInv'
  OBVIOUS
<1> USE DEF vars
<1>1. Present' = Present
  BY DEF Present
<1>2. TypeOK' /\ Shapes' /\ CursorStands'
  BY <1>1 DEF IInv, TypeOK, Shapes, CursorStands, Writing, AtMain, End
<1>3. UnchangedIsStored' /\ ReadIsCurrent' /\ InsertedOrAdded' /\ PassLeavesNone'
  BY <1>1 DEF IInv, UnchangedIsStored, InState, Underway, Adding, Marking, ReadIsCurrent,
              InsertedOrAdded, PassLeavesNone, Writing, AtMain, AtComm
<1>4. DeletesExplained'
  BY <1>1 DEF IInv, DeletesExplained, Explained, Adding, AtComm
<1> QED BY <1>2, <1>3, <1>4 DEF IInv

-----------------------------------------------------------------------------
(* The inductive invariant holds in every reachable state, for any number of *)
(* devices and messages.                                                     *)
THEOREM Invariance == Spec => []IInv
<1>1. IInv /\ [Next]_vars => IInv'
  <2> SUFFICES ASSUME IInv, [Next]_vars PROVE IInv'
    OBVIOUS
  <2>1. CASE Comm
    BY <2>1, MessageKeeps, AddNewRowKeeps, FillRowKeeps, StoreUpdateKeeps, NewMessageInKeeps,
       AddToItemKeeps, StoreItemKeeps, MarkKeeps DEF Comm, GoOn
  <2>2. CASE Main
    BY <2>2, StartPushKeeps, WalkOnKeeps, FindRowKeeps, TakeRowKeeps, EndOfPassKeeps,
       ReadFirstKeeps, InsertKeeps, UpdateKeeps, ReadBeyondKeeps, GetIndexListKeeps, ScanKeeps,
       DeleteRowKeeps DEF Main
  <2>3. CASE Listing \/ OperatorRemoves
    BY <2>3, ListingKeeps, OperatorRemovesKeeps
  <2>4. CASE UNCHANGED vars
    BY <2>4, StutterKeeps
  <2> QED BY <2>1, <2>2, <2>3, <2>4 DEF Next
<1> QED BY InitIInv, <1>1, PTL DEF Spec

(* The table, the cursor and what both threads hold stay in their ranges;    *)
(* the cursor stands on a row that exists, or at the end, while Main scans.  *)
THEOREM TypeCorrectness == Spec => []TypeOK
<1>1. IInv => TypeOK
  BY DEF IInv
<1> QED BY Invariance, <1>1, PTL

(* A row that says Unchanged holds what the server holds, whichever store    *)
(* came between the mark, the reading of the columns and the statement.      *)
THEOREM UnchangedRowsAreStored == Spec => []UnchangedIsStored
<1>1. IInv => UnchangedIsStored
  BY DEF IInv
<1> QED BY Invariance, <1>1, PTL

(* Only Main removes a row: what Comm and TakeRow write is a row.            *)
LEMMA RowsStay ==
  ASSUME IInv, [Next]_vars, ~DeleteRow, NEW r \in Present
  PROVE  rows'[r] # Absent
<1> USE DEF IInv
<1>1. /\ Present \subseteq ID /\ r \in ID /\ rows[r] # Absent /\ rows[r].state \in States
      /\ \A x \in Row : x.state # "Absent" => x # Absent
  BY RowFacts DEF Present, Absent, States
<1>2. ASSUME NEW q \in ID, NEW now \in Access(q) PROVE now[r] # Absent
  <2>1. now[q].state \in States /\ \A p \in ID \ {q} : now[p] = rows[p]
    BY <1>2, Accessed
  <2> QED BY <1>1, <2>1 DEF Absent, States
<1>3. ASSUME NEW q \in ID, NEW now \in Access(q), NEW s \in States,
             rows' = [now EXCEPT ![q].state = s]
      PROVE  rows'[r] # Absent
  <2>1. now \in [ID -> Row] /\ now[q].state \in States
    BY <1>3, Accessed
  <2>2. rows'[q].state = s /\ \A p \in ID \ {q} : rows'[p] = now[p]
    BY <1>3, <2>1, Restated
  <2> QED BY <1>1, <1>2, <1>3, <2>2 DEF Absent, States
<1>4. ASSUME NEW q \in ID, q \notin Present, IndexRow(q) PROVE rows'[r] # Absent
  <2>1. \A p \in ID \ {q} : rows'[p] = rows[p]
    BY <1>4, MadeRow DEF IndexRow
  <2> QED BY <1>1, <1>4, <2>1
<1>5. CASE rows' = rows
  BY <1>1, <1>5
<1>6. CASE TakeRow
  <2>1. dit \in Present /\ rows' = [rows EXCEPT ![dit].state = "Unchanged"]
    BY <1>6, CursorFacts DEF TakeRow, AtMain
  <2>2. dit \in ID /\ rows \in Access(dit) /\ "Unchanged" \in States
    BY <1>1, <2>1 DEF Access, States
  <2> QED BY <1>3, <2>1, <2>2
<1>7. CASE Message
  BY <1>4, <1>5, <1>7 DEF Message
<1>8. CASE AddToItem
  <2>1. comm.row \in ID
    BY <1>8 DEF AddToItem, AtComm, Shapes
  <2> QED BY <1>4, <1>5, <1>8, <2>1 DEF AddToItem
<1>9. CASE AddNewRow
  <2>1. comm.row \in ID /\ "Added" \in States
    BY <1>9 DEF AddNewRow, AtComm, Shapes, States
  <2> QED BY <1>3, <1>9, <2>1 DEF AddNewRow
<1>10. CASE FillRow \/ StoreItem
  <2>1. comm.row \in ID /\ rows' \in Access(comm.row)
    BY <1>10 DEF FillRow, StoreItem, AtComm, Shapes
  <2> QED BY <1>2, <2>1
<1>11. CASE Mark
  <2>1. comm.row \in ID
    BY <1>11 DEF Mark, AtComm, Shapes
  <2>2. PICK now \in Access(comm.row) :
          rows' = [now EXCEPT ![comm.row].state = IF @ = "Unchanged" THEN "Modified" ELSE @]
    BY <1>11 DEF Mark, Marked
  <2>3. now[comm.row].state \in States
    BY <2>1, <2>2, Accessed
  <2>4. PICK s \in States : rows' = [now EXCEPT ![comm.row].state = s]
    BY <2>2, <2>3 DEF States
  <2> QED BY <1>3, <2>1, <2>2, <2>4
<1> QED BY <1>5, <1>6, <1>7, <1>8, <1>9, <1>10, <1>11
     DEF Next, Comm, GoOn, Main, StoreUpdate, NewMessageIn, StartPush, WalkOn, FindRow, EndOfPass,
         ReadFirst, Insert, Update, ReadBeyond, GetIndexList, Scan, Listing, OperatorRemoves, vars

(* A row disappears from memory only when the server's list lacks it for a   *)
(* reason.                                                                   *)
THEOREM RemovalsAreExplained == Spec => RemovalExplained
<1> DEFINE A == \A r \in Present : rows'[r] = Absent =>
                  \/ r \in removed \cup doubt \cup fresh
                  \/ r \in db /\ Cardinality(index) = MaxRowCount
                  \/ main.moved \/ rows[r].key = Zero \/ Adding(r)
<1>1. IInv /\ [Next]_vars => A
  <2> SUFFICES ASSUME IInv, [Next]_vars, NEW r \in Present, rows'[r] = Absent
               PROVE  Explained(r)
    BY DEF Explained
  <2>1. DeleteRow
    BY RowsStay
  <2>2. r \in ID /\ rows[r] # Absent /\ rows \in [ID -> Row]
    BY DEF Present, IInv, TypeOK
  <2>3. toDelete # {} /\ rows' = [rows EXCEPT ![Max(toDelete)] = Absent]
    BY <2>1 DEF DeleteRow, AtMain, IInv, DeletesExplained
  <2>4. r = Max(toDelete)
    BY <2>2, <2>3
  <2>5. r \in toDelete
    BY <2>3, <2>4, LastToDelete DEF IInv, TypeOK
  <2> QED BY <2>5 DEF IInv, DeletesExplained
<1>2. Spec => [][A]_vars
  BY Invariance, <1>1, PTL DEF Spec
<1> QED BY <1>2 DEF RemovalExplained
=============================================================================

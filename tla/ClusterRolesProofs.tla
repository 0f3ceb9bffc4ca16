--------------------------- MODULE ClusterRolesProofs ---------------------------
(* The hot-standby pair, for any periods, any delay of the messages and any    *)
(* number of crashes, cuts, reloads and commands.                              *)
(*                                                                             *)
(* The role goes back only to a primary that was heard because, once a         *)
(* take-over has begun, nothing but an identifier of the primary brings the    *)
(* silence below the cut-over time again.  A primary that runs is left alone   *)
(* when the cut-over time covers its period, the delay of a message and the    *)
(* second a message may wait for the next pass.                                *)
EXTENDS ClusterRoles, TLAPS, FiniteSetTheorems

(* A gateway receives site identifiers of the other one only.                *)
Addressed ==
  /\ \A i \in 1..Len(link[Prim]) : link[Prim][i].body.kind = "site" => link[Prim][i].body.msg.from = Stby
  /\ \A i \in 1..Len(link[Stby]) : link[Stby][i].body.kind = "site" => link[Stby][i].body.msg.from = Prim

(* The flag grows once for each reload and for each restart after a crash.   *)
FlagCounted ==
  /\ pr.flag <= FirstFlag + faults.reloads + faults.crashes
  /\ Prim \notin up => pr.flag < FirstFlag + faults.reloads + faults.crashes

(* Once the take-over has begun, the time since the primary was heard falls  *)
(* below the cut-over time only when it is heard again.                      *)
TakenOver == {"TakeOverWait", "RunActive", "HandBackOver"}
HeardAgain ==
  /\ sb.state \in TakenOver /\ FromPrimary => seen.heard
  /\ sb.state = "RunActive" /\ PrimaryBack => seen.heard
  /\ sb.state = "HandBackOver" => seen.heard

IInv == TypeOK /\ Addressed /\ FlagCounted /\ HeardAgain

(* How long the identifiers of a primary that runs may be overdue.           *)
Longest == ClusterInterval + 1 + MaxDelay
Timely ==
  /\ slot[Stby] # None => sb.sinceOK <= Longest + (IF Stby \in due THEN 1 ELSE 0)
  /\ slot[Stby] = None =>
       \/ sb.sinceOK <= sinceId[Prim]
       \/ \E i \in 1..Len(link[Stby]) : /\ link[Stby][i].body.kind = "site"
                                        /\ sb.sinceOK <= ClusterInterval + 1 + link[Stby][i].age

(* Without faults and commands nothing is lost and nobody tells the standby  *)
(* to take over or the primary to yield.                                     *)
AllWell ==
  /\ up = Gateways /\ linkUp
  /\ sb.state \notin TakenOver \cup {"TakingOver"} /\ ~sb.force
  /\ \A i \in 1..Len(link[Prim]) : link[Prim][i].body.kind \notin {"be_inactive", "be_active"}
  /\ slot[Stby] # None => slot[Stby].from = Prim

HInv == IInv /\ HealthyPrimaryKept /\ Timely /\ AllWell

-------------------------------------------------------------------------------
(* The constants.                                                            *)

LEMMA FourNames ==
  /\ Prim # Stby /\ Prim # None /\ Prim # Other /\ Stby # None /\ Stby # Other /\ None # Other
<1>1. ASSUME NEW a, NEW b, NEW c
      PROVE  IsFiniteSet({a, b, c}) /\ Cardinality({a, b, c}) <= 3
  <2>1. IsFiniteSet({}) /\ Cardinality({}) = 0
    BY FS_EmptySet
  <2>2. IsFiniteSet({a}) /\ Cardinality({a}) = 1
    BY FS_Singleton
  <2>3. IsFiniteSet({a} \cup {b}) /\ Cardinality({a} \cup {b}) \in {1, 2}
    BY <2>2, FS_AddElement
  <2>4. IsFiniteSet({a} \cup {b} \cup {c}) /\ Cardinality({a} \cup {b} \cup {c}) \in {1, 2, 3}
    BY <2>3, FS_AddElement
  <2>5. {a, b, c} = {a} \cup {b} \cup {c}
    OBVIOUS
  <2>. QED BY <2>4, <2>5
<1>2. ASSUME NEW S, S \subseteq {Prim, Stby, None, Other}, {Prim, Stby, None, Other} \subseteq S,
             Cardinality(S) <= 3
      PROVE  FALSE
  <2>1. S = {Prim, Stby, None, Other}
    BY <1>2
  <2>2. Cardinality(S) = 4
    BY <2>1, NamesAssumption
  <2>. QED BY <1>2, <2>2
<1>3. Prim # Stby
  <2>1. Cardinality({Stby, None, Other}) <= 3 BY <1>1
  <2>. QED BY <1>2, <2>1
<1>4. Prim # None
  <2>1. Cardinality({Stby, None, Other}) <= 3 BY <1>1
  <2>. QED BY <1>2, <2>1
<1>5. Prim # Other
  <2>1. Cardinality({Stby, None, Other}) <= 3 BY <1>1
  <2>. QED BY <1>2, <2>1
<1>6. Stby # None
  <2>1. Cardinality({Prim, None, Other}) <= 3 BY <1>1
  <2>. QED BY <1>2, <2>1
<1>7. Stby # Other
  <2>1. Cardinality({Prim, None, Other}) <= 3 BY <1>1
  <2>. QED BY <1>2, <2>1
<1>8. None # Other
  <2>1. Cardinality({Prim, Stby, None}) <= 3 BY <1>1
  <2>. QED BY <1>2, <2>1
<1>. QED BY <1>3, <1>4, <1>5, <1>6, <1>7, <1>8

LEMMA Pair ==
  /\ Prim \in Gateways /\ Stby \in Gateways /\ \A g \in Gateways : g = Prim \/ g = Stby
  /\ Peer(Prim) = Stby /\ Peer(Stby) = Prim /\ None \notin Gateways /\ None \notin SiteMessage
BY FourNames, NoneAssumption DEF Gateways, Peer

LEMMA Periods ==
  /\ hotcutovertime \in Nat \ {0} /\ ClusterInterval \in Nat \ {0} /\ RemindTime \in Nat \ {0}
  /\ ResponseTime \in Nat /\ CredentialTimeout \in Nat /\ CredentialFailMax \in Nat
  /\ RetryDbxTime \in Nat /\ RebuildTime \in Nat /\ TakeOverWaitTime \in Nat
  /\ HandoverDelay \in Nat /\ RejectTime \in Nat /\ MaxXMLready \in Nat /\ MaxDelay \in Nat
  /\ MaxCrashes \in Nat /\ MaxCuts \in Nat /\ MaxReloads \in Nat /\ MaxCommands \in Nat
  /\ MaxDark \in Nat /\ MaxBoth \in Nat
<1>1. \A n \in {hotcutovertime, ClusterInterval, RemindTime} : n \in Nat \ {0}
  BY PeriodsAssumption
<1>2. \A n \in {ResponseTime, CredentialTimeout, CredentialFailMax, RetryDbxTime,
                RebuildTime, TakeOverWaitTime, HandoverDelay, RejectTime,
                MaxXMLready, MaxDelay, MaxCrashes, MaxCuts, MaxReloads, MaxCommands,
                MaxDark, MaxBoth} : n \in Nat
  BY PeriodsAssumption
<1>. QED BY <1>1, <1>2

LEMMA LargestOfFive ==
  ASSUME NEW a \in Nat, NEW b \in Nat, NEW c \in Nat, NEW d \in Nat, NEW e \in Nat
  PROVE  Largest({a, b, c, d, e}) \in Nat /\ \A n \in {a, b, c, d, e} : n <= Largest({a, b, c, d, e})
<1>1. PICK m \in {a, b} : a <= m /\ b <= m
  OBVIOUS
<1>2. PICK k \in {m, c} : m <= k /\ c <= k
  OBVIOUS
<1>3. PICK l \in {k, d} : k <= l /\ d <= l
  OBVIOUS
<1>4. PICK x \in {l, e} : l <= x /\ e <= x
  OBVIOUS
<1>5. x \in {a, b, c, d, e} /\ \A n \in {a, b, c, d, e} : n <= x
  BY <1>1, <1>2, <1>3, <1>4
<1>. QED BY <1>5 DEF Largest

LEMMA LargestOfThree ==
  ASSUME NEW a \in Nat, NEW b \in Nat, NEW c \in Nat
  PROVE  Largest({a, b, c}) \in Nat /\ \A n \in {a, b, c} : n <= Largest({a, b, c})
<1>1. {a, b, c} = {a, b, c, c, c}
  OBVIOUS
<1>. QED BY <1>1, LargestOfFive

LEMMA Longests ==
  /\ LongestIn \in Nat /\ RemindTime < LongestIn /\ hotcutovertime + RetryDbxTime < LongestIn
  /\ RebuildTime < LongestIn /\ TakeOverWaitTime < LongestIn /\ HandoverDelay < LongestIn
  /\ LongestReq \in Nat /\ ResponseTime < LongestReq /\ CredentialTimeout < LongestReq
  /\ RetryDbxTime < LongestReq
  /\ LastFlag \in Nat /\ 2 <= LastFlag /\ LastFlag = 2 + MaxReloads + MaxCrashes
<1>1. hotcutovertime + RetryDbxTime \in Nat
  BY Periods
<1>. DEFINE S == {hotcutovertime + RetryDbxTime, RebuildTime, TakeOverWaitTime, HandoverDelay, RemindTime}
            R == {ResponseTime, CredentialTimeout, RetryDbxTime}
<1>2. Largest(S) \in Nat /\ \A n \in S : n <= Largest(S)
  BY <1>1, Periods, LargestOfFive
<1>3. Largest(R) \in Nat /\ \A n \in R : n <= Largest(R)
  BY Periods, LargestOfThree
<1>4. /\ RemindTime <= Largest(S) /\ hotcutovertime + RetryDbxTime <= Largest(S)
      /\ RebuildTime <= Largest(S) /\ TakeOverWaitTime <= Largest(S) /\ HandoverDelay <= Largest(S)
      /\ ResponseTime <= Largest(R) /\ CredentialTimeout <= Largest(R) /\ RetryDbxTime <= Largest(R)
  BY <1>2, <1>3
<1>5. LongestIn = Largest(S) + 1 /\ LongestReq = Largest(R) + 1
  BY DEF LongestIn, LongestReq
<1>. HIDE DEF S, R
<1>. QED BY <1>1, <1>2, <1>3, <1>4, <1>5, Periods DEF LastFlag, FirstFlag

-------------------------------------------------------------------------------
(* Types, pointwise.                                                         *)

Letter == [body : Body, age : 0 .. MaxDelay]
Budget == [crashes : 0 .. MaxCrashes, cuts : 0 .. MaxCuts,
           reloads : 0 .. MaxReloads, commands : 0 .. MaxCommands]
Observed == [dark : 0 .. MaxDark + 1, both : 0 .. MaxBoth + 1, heard : BOOLEAN]

LEMMA SlotTyped ==
  ASSUME TypeOK, NEW g \in Gateways, slot[g] # None
  PROVE  slot[g] \in SiteMessage /\ slot[g].from \in Sites /\ slot[g].flag \in Flags
         /\ slot[g].isactive \in BOOLEAN
<1>1. slot[g] \in SiteMessage
  BY DEF TypeOK
<1>. QED BY <1>1 DEF SiteMessage

LEMMA SbTyped ==
  ASSUME TypeOK
  PROVE  /\ sb.state \in StbySyncState /\ sb.inState \in Nat /\ sb.inState <= LongestIn
         /\ sb.sinceOK \in Nat /\ sb.sinceOK <= hotcutovertime + 1
         /\ sb.sinceReq \in Nat /\ sb.sinceReq <= LongestReq
         /\ sb.credFails \in Nat /\ sb.credFails <= CredentialFailMax + 1
         /\ sb.credsOK \in BOOLEAN /\ sb.replyFlag \in Flags /\ sb.lastFlag \in Flags
         /\ sb.inSync \in BOOLEAN /\ sb.connected \in BOOLEAN /\ sb.routes \in Flags
         /\ sb.others \in Flags /\ sb.reload \in BOOLEAN /\ sb.heard \in BOOLEAN /\ sb.force \in BOOLEAN
BY Periods, Longests DEF TypeOK, StandbyState, Silence

LEMMA ReadSlotTyped ==
  ASSUME TypeOK
  PROVE  /\ ReadSlot \in StandbyState
         /\ ReadSlot.state = sb.state /\ ReadSlot.force = sb.force /\ ReadSlot.inState = sb.inState
         /\ ReadSlot.sinceOK = IF FromPrimary THEN 0 ELSE sb.sinceOK
         /\ ReadSlot.connected = sb.connected
<1>1. sb \in StandbyState /\ 0 \in Silence
  BY Periods DEF TypeOK, Silence
<1>2. /\ TablesChanged => slot[Stby].flag \in Flags
      /\ TablesChanged \in BOOLEAN /\ FromPrimary \in BOOLEAN
  BY SlotTyped, Pair DEF TablesChanged, FromPrimary
<1>. DEFINE ok == IF FromPrimary THEN 0 ELSE sb.sinceOK
            fl == IF TablesChanged THEN slot[Stby].flag ELSE sb.lastFlag
            sy == sb.inSync /\ ~TablesChanged
            he == sb.heard \/ slot[Stby] # None
<1>3. ok \in Silence /\ fl \in Flags /\ sy \in BOOLEAN /\ he \in BOOLEAN
  BY <1>1, <1>2 DEF StandbyState
<1>4. ReadSlot = [sb EXCEPT !.sinceOK = ok, !.lastFlag = fl, !.inSync = sy, !.heard = he]
  BY DEF ReadSlot
<1>. HIDE DEF ok, fl, sy, he
<1>5. ReadSlot \in StandbyState
  BY <1>1, <1>3, <1>4 DEF StandbyState
<1>6. /\ ReadSlot.state = sb.state /\ ReadSlot.force = sb.force /\ ReadSlot.inState = sb.inState
      /\ ReadSlot.sinceOK = ok /\ ReadSlot.connected = sb.connected
  BY <1>1, <1>4 DEF StandbyState
<1>. QED BY <1>5, <1>6 DEF ok

-------------------------------------------------------------------------------
(* The pieces of a step.                                                     *)

Links == [Gateways -> Seq(Letter)]

LEMMA SendSends ==
  ASSUME link \in Links, NEW g \in Gateways, NEW b \in Body, Send(g, b)
  PROVE  /\ link' \in Links
         /\ \A h \in Gateways \ {g} : link'[h] = link[h]
         /\ \/ link'[g] = link[g] /\ ~linkUp
            \/ link'[g] = Append(link[g], [body |-> b, age |-> 0])
<1>. DEFINE l == [body |-> b, age |-> 0]
<1>1. l \in Letter
  BY Periods DEF Letter
<1>. HIDE DEF l
<1>2. link' = IF linkUp THEN [link EXCEPT ![g] = Append(link[g], l)] ELSE link
  BY DEF Send, l
<1>3. link[g] \in Seq(Letter) /\ Append(link[g], l) \in Seq(Letter)
  BY <1>1 DEF Links
<1>4. link' \in Links /\ \A h \in Gateways \ {g} : link'[h] = link[h]
  BY <1>2, <1>3 DEF Links
<1>5. (link'[g] = link[g] /\ ~linkUp) \/ link'[g] = Append(link[g], l)
  BY <1>2, <1>3 DEF Links
<1>. QED BY <1>4, <1>5 DEF l

LEMMA Bodies ==
  /\ [kind |-> "query"] \in Body /\ [kind |-> "be_inactive"] \in Body
  /\ [kind |-> "be_active"] \in Body
  /\ \A f \in Flags : [kind |-> "reply", flag |-> f] \in Body
  /\ \A m \in SiteMessage : [kind |-> "site", msg |-> m] \in Body
  /\ \A b \in Body : /\ b.kind \in {"site", "query", "be_inactive", "be_active", "reply"}
                     /\ b.kind = "site" => b.msg \in SiteMessage
                     /\ b.kind = "reply" => b.flag \in Flags
BY DEF Body

(* The database of the primary is read and its tables merged only after a    *)
(* connection.                                                               *)
Connects(n) ==
  /\ n.connected \/ n.state = "Synchronizing" => sb.connected \/ TRUE \in ConnectOutcomes
  /\ n.state = "MergeTables" => sb.state = "Synchronizing"

(* What a pass of the standby leaves.                                        *)
LEMMA PassLeaves ==
  ASSUME TypeOK, NEW state, NEW new \in StandbyState, StandbyPass(state, new)
  PROVE  /\ sb.state = state /\ Stby \in due /\ due' = due \ {Stby}
         /\ sb' \in StandbyState /\ sb'.state = new.state /\ sb'.sinceOK = new.sinceOK
         /\ sb'.force = new.force /\ sb'.connected = new.connected
         /\ slot' \in [Gateways -> SiteMessage \union {None}]
         /\ slot'[Stby] = None /\ slot'[Prim] = slot[Prim]
         /\ UNCHANGED <<up, sinceId, linkUp, pr, faults>>
<1>1. sb' = IF new.state = sb.state THEN new ELSE [new EXCEPT !.inState = 0]
  BY DEF StandbyPass, Settle
<1>2. 0 \in 0 .. LongestIn
  BY Longests
<1>3. [new EXCEPT !.inState = 0] \in StandbyState
  BY <1>2 DEF StandbyState
<1>4. /\ [new EXCEPT !.inState = 0].state = new.state
      /\ [new EXCEPT !.inState = 0].sinceOK = new.sinceOK
      /\ [new EXCEPT !.inState = 0].force = new.force
      /\ [new EXCEPT !.inState = 0].connected = new.connected
  BY DEF StandbyState
<1>5. /\ sb' \in StandbyState /\ sb'.state = new.state /\ sb'.sinceOK = new.sinceOK
      /\ sb'.force = new.force /\ sb'.connected = new.connected
  BY <1>1, <1>3, <1>4
<1>6. /\ slot' \in [Gateways -> SiteMessage \union {None}]
      /\ slot'[Stby] = None /\ slot'[Prim] = slot[Prim]
  <2>1. slot \in [Gateways -> SiteMessage \union {None}] /\ slot' = [slot EXCEPT ![Stby] = None]
    BY DEF StandbyPass, TypeOK
  <2>. QED BY <2>1, Pair, FourNames
<1>. QED BY <1>5, <1>6 DEF StandbyPass

(* What every pass of the standby does, with the state it goes to.           *)
Advances(to) ==
  /\ Stby \in due /\ due' = due \ {Stby}
  /\ sb' \in StandbyState /\ sb'.state = to
  /\ sb'.sinceOK \in {ReadSlot.sinceOK, 0}
  /\ to \in TakenOver => sb'.sinceOK = ReadSlot.sinceOK
  /\ (sb'.force => sb.force) /\ Connects(sb')
  /\ slot' \in [Gateways -> SiteMessage \union {None}]
  /\ slot'[Stby] = None /\ slot'[Prim] = slot[Prim]
  /\ UNCHANGED <<up, sinceId, linkUp, pr, faults>>

LEMMA PassAdvances ==
  ASSUME TypeOK, NEW state, NEW new \in StandbyState, StandbyPass(state, new),
         new.sinceOK = ReadSlot.sinceOK \/ (new.sinceOK = 0 /\ new.state \notin TakenOver),
         new.force => sb.force, Connects(new)
  PROVE  sb.state = state /\ Advances(new.state)
BY PassLeaves DEF Advances, Connects

LEMMA FlagTyped ==
  ASSUME TypeOK
  PROVE  pr \in PrimaryState /\ pr.flag \in Flags /\ pr.flag \in Nat
BY Longests DEF TypeOK, PrimaryState, Flags, FirstFlag

LEMMA QuietPasses ==
  ASSUME TypeOK, Reset \/ Startup \/ FindPrimary \/ WaitForCredentials \/ ReceivedCredentials
                 \/ ConnenctToDB \/ FailedToAccessDB \/ Synchronizing \/ FailedReadTables
                 \/ MergeTables \/ StoreTables \/ ActivateTables \/ CantContactPrimary
                 \/ WaitForPrimaryToFail
  PROVE  /\ link' = link /\ IsActive' = IsActive /\ seen' = seen
         /\ \E to \in StbySyncState \ TakenOver :
              /\ Advances(to)
              /\ to = "TakingOver" => sb.state = "WaitForPrimaryToFail" /\ (PrimaryLost \/ sb.force)
<1>. DEFINE r == ReadSlot
            Calm == StbySyncState \ (TakenOver \cup {"TakingOver"})
            Leads(n) == /\ n.state \in Calm \/ (n.state = "TakingOver" /\ sb.state = "WaitForPrimaryToFail"
                                               /\ (PrimaryLost \/ sb.force))
                        /\ n.sinceOK \in {r.sinceOK, 0} /\ (n.force => sb.force) /\ Connects(n)
<1>1. /\ r \in StandbyState /\ r.state = sb.state /\ r.force = sb.force /\ r.inState = sb.inState
      /\ r.sinceOK = ReadSlot.sinceOK /\ r.connected = sb.connected
  BY ReadSlotTyped
<1>2. /\ {"Startup", "FindPrimary", "CantContactPrimary", "RequestCredentials", "ReceivedCredentials",
          "WaitForPrimaryToFail", "ConnenctToDB", "FailedToAccessDB", "Synchronizing", "MergeTables",
          "FailedReadTables", "StoreTables", "ActivateTables", "WaitForCredentials"} \subseteq Calm
      /\ Calm \subseteq StbySyncState \ TakenOver /\ "TakingOver" \in StbySyncState \ TakenOver
      /\ 0 \in Flags /\ 0 \in Silence /\ 0 \in 0 .. LongestReq /\ 0 \in 0 .. (CredentialFailMax + 1)
      /\ "TakingOver" \notin Calm
  BY Periods, Longests DEF StbySyncState, TakenOver, Flags, Silence
<1>3. ASSUME NEW state, NEW n \in StandbyState, StandbyPass(state, n), Leads(n)
      PROVE  \E to \in StbySyncState \ TakenOver :
               /\ Advances(to)
               /\ to = "TakingOver" => sb.state = "WaitForPrimaryToFail" /\ (PrimaryLost \/ sb.force)
  <2>1. n.state \in StbySyncState \ TakenOver
    BY <1>2, <1>3
  <2>2. Advances(n.state)
    BY <1>3, <2>1, <1>1, PassAdvances
  <2>3. n.state = "TakingOver" => sb.state = "WaitForPrimaryToFail" /\ (PrimaryLost \/ sb.force)
    BY <1>2, <1>3
  <2>. QED BY <2>1, <2>2, <2>3
<1>. HIDE DEF r, Calm
<1>4. CASE Reset
  <2>. DEFINE new == [r EXCEPT !.state = "Startup", !.routes = 0, !.others = 0,
                              !.inSync = FALSE, !.sinceOK = 0, !.credFails = 0]
  <2>1. new \in StandbyState /\ Leads(new)
    BY <1>1, <1>2, SbTyped DEF StandbyState, Connects
  <2>2. StandbyPass("Reset", new) /\ link' = link /\ IsActive' = IsActive /\ seen' = seen
    BY <1>4 DEF Reset, Quietly, SendNothing, r
  <2>. HIDE DEF new
  <2>3. PICK n \in StandbyState : n = new
    BY <2>1
  <2>4. StandbyPass("Reset", n) /\ Leads(n)
    BY <2>1, <2>2, <2>3 DEF StandbyPass, Settle
  <2>. QED BY <1>3, <2>2, <2>4
<1>5. CASE Startup
  <2>. DEFINE new == [r EXCEPT !.state = "FindPrimary", !.sinceReq = 0]
  <2>1. new \in StandbyState /\ Leads(new)
    BY <1>1, <1>2, SbTyped DEF StandbyState, Connects
  <2>2. StandbyPass("Startup", new) /\ link' = link /\ IsActive' = IsActive /\ seen' = seen
    BY <1>5 DEF Startup, Quietly, SendNothing, r
  <2>. HIDE DEF new
  <2>3. PICK n \in StandbyState : n = new
    BY <2>1
  <2>4. StandbyPass("Startup", n) /\ Leads(n)
    BY <2>1, <2>2, <2>3 DEF StandbyPass, Settle
  <2>. QED BY <1>3, <2>2, <2>4
<1>6. CASE ReceivedCredentials
  <2>. DEFINE new == [r EXCEPT !.state = "ConnenctToDB"]
  <2>1. new \in StandbyState /\ Leads(new)
    BY <1>1, <1>2, SbTyped DEF StandbyState, Connects
  <2>2. StandbyPass("ReceivedCredentials", new) /\ link' = link /\ IsActive' = IsActive /\ seen' = seen
    BY <1>6 DEF ReceivedCredentials, Quietly, SendNothing, r
  <2>. HIDE DEF new
  <2>3. PICK n \in StandbyState : n = new
    BY <2>1
  <2>4. StandbyPass("ReceivedCredentials", n) /\ Leads(n)
    BY <2>1, <2>2, <2>3 DEF StandbyPass, Settle
  <2>. QED BY <1>3, <2>2, <2>4
<1>7. CASE FailedReadTables
  <2>. DEFINE new == [r EXCEPT !.state = "WaitForPrimaryToFail", !.connected = FALSE]
  <2>1. new \in StandbyState /\ Leads(new)
    BY <1>1, <1>2, SbTyped DEF StandbyState, Connects
  <2>2. StandbyPass("FailedReadTables", new) /\ link' = link /\ IsActive' = IsActive /\ seen' = seen
    BY <1>7 DEF FailedReadTables, Quietly, SendNothing, r
  <2>. HIDE DEF new
  <2>3. PICK n \in StandbyState : n = new
    BY <2>1
  <2>4. StandbyPass("FailedReadTables", n) /\ Leads(n)
    BY <2>1, <2>2, <2>3 DEF StandbyPass, Settle
  <2>. QED BY <1>3, <2>2, <2>4
<1>8. CASE MergeTables
  <2>. DEFINE new == [r EXCEPT !.state = "StoreTables"]
  <2>1. new \in StandbyState /\ Leads(new)
    BY <1>1, <1>2, SbTyped DEF StandbyState, Connects
  <2>2. StandbyPass("MergeTables", new) /\ link' = link /\ IsActive' = IsActive /\ seen' = seen
    BY <1>8 DEF MergeTables, Quietly, SendNothing, r
  <2>. HIDE DEF new
  <2>3. PICK n \in StandbyState : n = new
    BY <2>1
  <2>4. StandbyPass("MergeTables", n) /\ Leads(n)
    BY <2>1, <2>2, <2>3 DEF StandbyPass, Settle
  <2>. QED BY <1>3, <2>2, <2>4
<1>9. CASE StoreTables
  <2>. DEFINE new == [r EXCEPT !.state = "ActivateTables", !.reload = TRUE]
  <2>1. new \in StandbyState /\ Leads(new)
    BY <1>1, <1>2, SbTyped DEF StandbyState, Connects
  <2>2. StandbyPass("StoreTables", new) /\ link' = link /\ IsActive' = IsActive /\ seen' = seen
    BY <1>9 DEF StoreTables, Quietly, SendNothing, r
  <2>. HIDE DEF new
  <2>3. PICK n \in StandbyState : n = new
    BY <2>1
  <2>4. StandbyPass("StoreTables", n) /\ Leads(n)
    BY <2>1, <2>2, <2>3 DEF StandbyPass, Settle
  <2>. QED BY <1>3, <2>2, <2>4
<1>10. CASE CantContactPrimary
  <2>. DEFINE new == [r EXCEPT !.state = "WaitForPrimaryToFail"]
  <2>1. new \in StandbyState /\ Leads(new)
    BY <1>1, <1>2, SbTyped DEF StandbyState, Connects
  <2>2. StandbyPass("CantContactPrimary", new) /\ link' = link /\ IsActive' = IsActive /\ seen' = seen
    BY <1>10 DEF CantContactPrimary, Quietly, SendNothing, r
  <2>. HIDE DEF new
  <2>3. PICK n \in StandbyState : n = new
    BY <2>1
  <2>4. StandbyPass("CantContactPrimary", n) /\ Leads(n)
    BY <2>1, <2>2, <2>3 DEF StandbyPass, Settle
  <2>. QED BY <1>3, <2>2, <2>4
<1>11. CASE FindPrimary
  <2>. DEFINE s == IF sb.sinceReq > ResponseTime THEN "CantContactPrimary"
                   ELSE IF r.heard THEN "RequestCredentials" ELSE r.state
  <2>0. s \in Calm
    BY <1>1, <1>2, <1>11 DEF FindPrimary, StandbyPass
  <2>c. sb.state = "FindPrimary"
    BY <1>11 DEF FindPrimary, StandbyPass
  <2>. DEFINE new == [r EXCEPT !.state = s]
  <2>1. new \in StandbyState /\ Leads(new)
    BY <1>1, <1>2, SbTyped, <2>0, <2>c DEF StandbyState, Connects
  <2>2. StandbyPass("FindPrimary", new) /\ link' = link /\ IsActive' = IsActive /\ seen' = seen
    BY <1>11, <1>1 DEF FindPrimary, Quietly, SendNothing, r
  <2>. HIDE DEF new
  <2>3. PICK n \in StandbyState : n = new
    BY <2>1
  <2>4. StandbyPass("FindPrimary", n) /\ Leads(n)
    BY <2>1, <2>2, <2>3 DEF StandbyPass, Settle
  <2>. QED BY <1>3, <2>2, <2>4
<1>12. CASE ActivateTables
  <2>. DEFINE s == IF ~sb.reload \/ sb.inState > RebuildTime THEN "WaitForPrimaryToFail"
                   ELSE r.state
  <2>0. s \in Calm
    BY <1>1, <1>2, <1>12 DEF ActivateTables, StandbyPass
  <2>c. sb.state = "ActivateTables"
    BY <1>12 DEF ActivateTables, StandbyPass
  <2>. DEFINE new == [r EXCEPT !.state = s]
  <2>1. new \in StandbyState /\ Leads(new)
    BY <1>1, <1>2, SbTyped, <2>0, <2>c DEF StandbyState, Connects
  <2>2. StandbyPass("ActivateTables", new) /\ link' = link /\ IsActive' = IsActive /\ seen' = seen
    BY <1>12, <1>1 DEF ActivateTables, Quietly, SendNothing, r
  <2>. HIDE DEF new
  <2>3. PICK n \in StandbyState : n = new
    BY <2>1
  <2>4. StandbyPass("ActivateTables", n) /\ Leads(n)
    BY <2>1, <2>2, <2>3 DEF StandbyPass, Settle
  <2>. QED BY <1>3, <2>2, <2>4
<1>13. CASE WaitForPrimaryToFail
  <2>. DEFINE s == IF RetrySync THEN "Startup" ELSE IF PrimaryLost \/ sb.force THEN "TakingOver"
                   ELSE r.state
  <2>0. s \in Calm \/ (s = "TakingOver" /\ sb.state = "WaitForPrimaryToFail" /\ (PrimaryLost \/ sb.force))
    BY <1>1, <1>2, <1>13 DEF WaitForPrimaryToFail, StandbyPass
  <2>c. sb.state = "WaitForPrimaryToFail"
    BY <1>13 DEF WaitForPrimaryToFail, StandbyPass
  <2>. DEFINE new == [r EXCEPT !.force = FALSE, !.state = s]
  <2>1. new \in StandbyState /\ Leads(new)
    BY <1>1, <1>2, SbTyped, <2>0, <2>c DEF StandbyState, Connects
  <2>2. StandbyPass("WaitForPrimaryToFail", new) /\ link' = link /\ IsActive' = IsActive /\ seen' = seen
    BY <1>13, <1>1 DEF WaitForPrimaryToFail, Quietly, SendNothing, r
  <2>. HIDE DEF new
  <2>3. PICK n \in StandbyState : n = new
    BY <2>1
  <2>4. StandbyPass("WaitForPrimaryToFail", n) /\ Leads(n)
    BY <2>1, <2>2, <2>3 DEF StandbyPass, Settle
  <2>. QED BY <1>3, <2>2, <2>4
<1>14. CASE ConnenctToDB
  <2>p. PICK ok \in IF sb.connected THEN {TRUE} ELSE ConnectOutcomes :
         StandbyPass("ConnenctToDB",
           [ReadSlot EXCEPT !.connected = ok,
              !.state = IF sb.sinceReq > RetryDbxTime THEN "FailedToAccessDB"
                        ELSE IF ok THEN "Synchronizing" ELSE @])
    BY <1>14 DEF ConnenctToDB
  <2>o. ok \in BOOLEAN
    BY NamesAssumption
  <2>c. sb.state = "ConnenctToDB" /\ (ok => sb.connected \/ TRUE \in ConnectOutcomes)
    BY <2>p DEF StandbyPass
  <2>. DEFINE s == IF sb.sinceReq > RetryDbxTime THEN "FailedToAccessDB"
                   ELSE IF ok THEN "Synchronizing" ELSE r.state
  <2>0. s \in Calm
    BY <1>1, <1>2, <1>14, <2>p DEF ConnenctToDB, StandbyPass
  <2>. DEFINE new == [r EXCEPT !.connected = ok, !.state = s]
  <2>1. new \in StandbyState /\ Leads(new)
    BY <1>1, <1>2, SbTyped, <2>0, <2>o, <2>c DEF StandbyState, Connects
  <2>2. StandbyPass("ConnenctToDB", new) /\ link' = link /\ IsActive' = IsActive /\ seen' = seen
    BY <1>14, <2>p, <1>1 DEF ConnenctToDB, Quietly, SendNothing, r
  <2>. HIDE DEF new
  <2>3. PICK n \in StandbyState : n = new
    BY <2>1
  <2>4. StandbyPass("ConnenctToDB", n) /\ Leads(n)
    BY <2>1, <2>2, <2>3 DEF StandbyPass, Settle
  <2>. QED BY <1>3, <2>2, <2>4
<1>15. CASE FailedToAccessDB
  <2>p. PICK ok \in ConnectOutcomes :
         StandbyPass("FailedToAccessDB",
           [ReadSlot EXCEPT !.connected = ok,
              !.state = IF ok THEN "Synchronizing" ELSE "WaitForPrimaryToFail"])
    BY <1>15 DEF FailedToAccessDB
  <2>o. ok \in BOOLEAN
    BY NamesAssumption
  <2>c. ok => TRUE \in ConnectOutcomes
    OBVIOUS
  <2>. DEFINE s == IF ok THEN "Synchronizing" ELSE "WaitForPrimaryToFail"
  <2>0. s \in Calm
    BY <1>1, <1>2, <1>15, <2>p DEF FailedToAccessDB, StandbyPass
  <2>. DEFINE new == [r EXCEPT !.connected = ok, !.state = s]
  <2>1. new \in StandbyState /\ Leads(new)
    BY <1>1, <1>2, SbTyped, <2>0, <2>o, <2>c DEF StandbyState, Connects
  <2>2. StandbyPass("FailedToAccessDB", new) /\ link' = link /\ IsActive' = IsActive /\ seen' = seen
    BY <1>15, <2>p, <1>1 DEF FailedToAccessDB, Quietly, SendNothing, r
  <2>. HIDE DEF new
  <2>3. PICK n \in StandbyState : n = new
    BY <2>1
  <2>4. StandbyPass("FailedToAccessDB", n) /\ Leads(n)
    BY <2>1, <2>2, <2>3 DEF StandbyPass, Settle
  <2>. QED BY <1>3, <2>2, <2>4
<1>16. CASE Synchronizing
  <2>p. PICK x \in ReadOutcomes, o \in ReadOutcomes :
         LET routes == IF x THEN pr.flag ELSE sb.routes
             others == IF o THEN pr.flag ELSE sb.others
             ok     == AllRead(routes, others)
         IN  StandbyPass("Synchronizing",
               [ReadSlot EXCEPT !.routes = routes, !.others = others, !.inSync = ok,
                  !.state = IF ok THEN "MergeTables" ELSE "FailedReadTables"])
    BY <1>16 DEF Synchronizing
  <2>. DEFINE routes == IF x THEN pr.flag ELSE sb.routes
              others == IF o THEN pr.flag ELSE sb.others
              ok     == AllRead(routes, others)
  <2>o. routes \in Flags /\ others \in Flags /\ ok \in BOOLEAN
    BY SbTyped, FlagTyped DEF AllRead
  <2>c. sb.state = "Synchronizing"
    BY <2>p DEF StandbyPass
  <2>. DEFINE s == IF ok THEN "MergeTables" ELSE "FailedReadTables"
  <2>0. s \in Calm
    BY <1>1, <1>2, <1>16, <2>p DEF Synchronizing, StandbyPass
  <2>. DEFINE new == [r EXCEPT !.routes = routes, !.others = others, !.inSync = ok, !.state = s]
  <2>1. new \in StandbyState /\ Leads(new)
    BY <1>1, <1>2, SbTyped, <2>0, <2>o, <2>c DEF StandbyState, Connects
  <2>2. StandbyPass("Synchronizing", new) /\ link' = link /\ IsActive' = IsActive /\ seen' = seen
    BY <1>16, <2>p, <1>1 DEF Synchronizing, Quietly, SendNothing, r
  <2>. HIDE DEF new
  <2>3. PICK n \in StandbyState : n = new
    BY <2>1
  <2>4. StandbyPass("Synchronizing", n) /\ Leads(n)
    BY <2>1, <2>2, <2>3 DEF StandbyPass, Settle
  <2>. QED BY <1>3, <2>2, <2>4
<1>17. CASE WaitForCredentials
  <2>. DEFINE more == IF r.credFails > CredentialFailMax THEN r.credFails ELSE r.credFails + 1
              then == IF sb.credFails + 1 > CredentialFailMax THEN "WaitForPrimaryToFail" ELSE "Startup"
              in   == [r EXCEPT !.state = "ReceivedCredentials", !.sinceReq = 0,
                                !.lastFlag = sb.replyFlag, !.credFails = 0]
              late == [r EXCEPT !.credFails = more, !.state = then]
              new  == IF sb.credsOK THEN in ELSE IF sb.sinceReq > CredentialTimeout THEN late ELSE r
  <2>0. StandbyPass("WaitForCredentials", new) /\ link' = link /\ IsActive' = IsActive /\ seen' = seen
    BY <1>17 DEF WaitForCredentials, CredentialsIn, CredentialsLate, Quietly, SendNothing, r
  <2>1. more \in 0 .. (CredentialFailMax + 1) /\ then \in {"WaitForPrimaryToFail", "Startup"}
    BY <1>1, <1>2, Periods DEF StandbyState
  <2>2. sb.state = "WaitForCredentials"
    BY <2>0 DEF StandbyPass
  <2>. HIDE DEF more, then
  <2>3. in \in StandbyState /\ Leads(in)
    BY <1>1, <1>2, SbTyped DEF StandbyState, Connects
  <2>4. late \in StandbyState /\ Leads(late)
    BY <1>1, <1>2, <2>1, SbTyped DEF StandbyState, Connects
  <2>5. r \in StandbyState /\ Leads(r)
    BY <1>1, <1>2, <2>2 DEF Connects
  <2>. HIDE DEF in, late
  <2>6. new \in StandbyState /\ Leads(new)
    BY <2>3, <2>4, <2>5
  <2>. HIDE DEF new
  <2>7. PICK n \in StandbyState : n = new
    BY <2>6
  <2>8. StandbyPass("WaitForCredentials", n) /\ Leads(n)
    BY <2>0, <2>6, <2>7 DEF StandbyPass, Settle
  <2>. QED BY <1>3, <2>0, <2>8
<1>. QED BY <1>4, <1>5, <1>6, <1>7, <1>8, <1>9, <1>10, <1>11, <1>12, <1>13, <1>14, <1>15, <1>16, <1>17

(* A pass of the standby, with what it sends and where the take-over stands. *)
Sends ==
  \/ link' = link
  \/ \E b \in Body : /\ b.kind \in {"query", "be_inactive", "be_active"}
                     /\ b.kind # "query" => sb.state \in TakenOver \cup {"TakingOver"}
                     /\ Send(Prim, b)

Onward(to) ==
  /\ Advances(to) /\ Sends
  /\ sb.state \notin TakenOver => IsActive' = IsActive
  /\ IsActive' \in [Gateways -> BOOLEAN]
  /\ seen' = seen \/ (sb.state = "TakingOver" /\ seen' = [seen EXCEPT !.heard = FALSE])
  /\ to = "TakingOver" => sb.state = "WaitForPrimaryToFail" /\ (PrimaryLost \/ sb.force)
  /\ to = "TakeOverWait" => sb.state \in {"TakingOver", "TakeOverWait"}
  /\ to = "RunActive" => sb.state \in {"TakeOverWait", "RunActive"} /\ ~PrimaryBack
  /\ to = "HandBackOver" => sb.state = "HandBackOver" \/ (sb.state = "RunActive" /\ PrimaryBack)
  /\ sb.state = "TakingOver" => to = "TakeOverWait"

LEMMA StandbyPasses ==
  ASSUME TypeOK, StandbyStep, ~MergeCrash
  PROVE  \E to \in StbySyncState : Onward(to)
<1>. DEFINE r == ReadSlot
<1>1. /\ r \in StandbyState /\ r.state = sb.state /\ r.force = sb.force /\ r.inState = sb.inState
      /\ r.sinceOK = ReadSlot.sinceOK /\ r.connected = sb.connected
  BY ReadSlotTyped
<1>2. /\ {"WaitForCredentials", "TakeOverWait", "Startup", "RunActive", "HandBackOver"} \subseteq StbySyncState
      /\ 0 \in 0 .. LongestReq /\ IsActive \in [Gateways -> BOOLEAN]
  BY Longests DEF StbySyncState, TypeOK
<1>3. ASSUME NEW state, NEW to \in StbySyncState, NEW n \in StandbyState, StandbyPass(state, n),
             n.state = to, n.sinceOK = r.sinceOK, n.force = sb.force, n.connected = sb.connected,
             to \notin {"Synchronizing", "MergeTables"}
      PROVE  Advances(to) /\ sb.state = state
  <2>1. Connects(n)
    BY <1>3 DEF Connects
  <2>. QED BY <1>1, <1>3, <2>1, PassAdvances
<1>4. ASSUME NEW new \in StandbyState
      PROVE  \A to \in StbySyncState :
               /\ [new EXCEPT !.state = to] \in StandbyState
               /\ [new EXCEPT !.state = to].state = to
               /\ [new EXCEPT !.state = to].sinceOK = new.sinceOK
               /\ [new EXCEPT !.state = to].force = new.force
               /\ [new EXCEPT !.state = to].connected = new.connected
  BY DEF StandbyState
<1>p. PICK q \in StandbyState : q = r
  BY <1>1
<1>5. ASSUME NEW state, NEW to \in StbySyncState, StandbyPass(state, [r EXCEPT !.state = to]),
             to \notin {"Synchronizing", "MergeTables"}
      PROVE  Advances(to) /\ sb.state = state
  <2>. DEFINE n == [q EXCEPT !.state = to]
  <2>1. n \in StandbyState /\ n.state = to /\ n.sinceOK = q.sinceOK /\ n.force = q.force
        /\ n.connected = q.connected
    BY <1>4
  <2>2. StandbyPass(state, n)
    BY <1>5, <1>p DEF StandbyPass, Settle
  <2>. HIDE DEF n
  <2>. QED BY <2>1, <2>2, <1>1, <1>3, <1>5, <1>p
<1>. HIDE DEF r
<1>6. CASE Reset \/ Startup \/ FindPrimary \/ WaitForCredentials \/ ReceivedCredentials
           \/ ConnenctToDB \/ FailedToAccessDB \/ Synchronizing \/ FailedReadTables
           \/ MergeTables \/ StoreTables \/ ActivateTables \/ CantContactPrimary
           \/ WaitForPrimaryToFail
  <2>1. /\ link' = link /\ IsActive' = IsActive /\ seen' = seen
    BY <1>6, QuietPasses
  <2>2. PICK to \in StbySyncState \ TakenOver :
           /\ Advances(to)
           /\ to = "TakingOver" => sb.state = "WaitForPrimaryToFail" /\ (PrimaryLost \/ sb.force)
    BY <1>6, QuietPasses
  <2>3. sb.state # "TakingOver"
    BY <1>6 DEF StandbyPass, Reset, Startup, FindPrimary, WaitForCredentials, ReceivedCredentials,
       ConnenctToDB, FailedToAccessDB, Synchronizing, FailedReadTables, MergeTables, StoreTables,
       ActivateTables, CantContactPrimary, WaitForPrimaryToFail
  <2>4. to \notin {"TakeOverWait", "RunActive", "HandBackOver"} /\ to \in StbySyncState
    BY <2>2 DEF TakenOver
  <2>. QED BY <1>2, <2>1, <2>2, <2>3, <2>4 DEF Onward, Sends
<1>7. CASE RequestCredentials
  <2>. DEFINE n == [q EXCEPT !.state = "WaitForCredentials", !.sinceReq = 0]
  <2>1. n \in StandbyState /\ n.state = "WaitForCredentials" /\ n.sinceOK = q.sinceOK /\ n.force = q.force
        /\ n.connected = q.connected
    BY <1>2 DEF StandbyState
  <2>2. /\ StandbyPass("RequestCredentials", n) /\ Send(Prim, [kind |-> "query"])
        /\ IsActive' = IsActive /\ seen' = seen
    BY <1>7, <1>p DEF RequestCredentials, r, StandbyPass, Settle
  <2>. HIDE DEF n
  <2>3. Advances("WaitForCredentials") /\ sb.state = "RequestCredentials"
    BY <2>1, <2>2, <1>1, <1>2, <1>3, <1>p
  <2>4. Sends
    <3>. DEFINE b == [kind |-> "query"]
    <3>1. b \in Body /\ b.kind = "query" /\ Send(Prim, b)
      BY <2>2, Bodies
    <3>. HIDE DEF b
    <3>. QED BY <3>1 DEF Sends
  <2>5. Onward("WaitForCredentials")
    BY <1>2, <2>2, <2>3, <2>4 DEF Onward
  <2>. QED BY <1>2, <2>5
<1>8. CASE TakingOver
  <2>1. /\ StandbyPass("TakingOver", [r EXCEPT !.state = "TakeOverWait"])
        /\ Send(Prim, [kind |-> "be_inactive"]) /\ seen' = [seen EXCEPT !.heard = FALSE]
        /\ IsActive' = IsActive
    BY <1>8 DEF TakingOver, r
  <2>2. Advances("TakeOverWait") /\ sb.state = "TakingOver"
    BY <2>1, <1>2, <1>5
  <2>3. Sends
    <3>. DEFINE b == [kind |-> "be_inactive"]
    <3>1. b \in Body /\ b.kind = "be_inactive" /\ Send(Prim, b)
      BY <2>1, Bodies
    <3>. HIDE DEF b
    <3>. QED BY <2>2, <3>1 DEF Sends
  <2>4. Onward("TakeOverWait")
    BY <1>2, <2>1, <2>2, <2>3 DEF Onward
  <2>. QED BY <1>2, <2>4
<1>9. CASE TakeOverWait
  <2>. DEFINE to == IF PrimaryBack THEN "Startup"
                    ELSE IF sb.inState > TakeOverWaitTime THEN "RunActive" ELSE r.state
  <2>1. /\ StandbyPass("TakeOverWait", [r EXCEPT !.state = to])
        /\ IsActive' = [IsActive EXCEPT ![Stby] = @ \/ sb.inState > TakeOverWaitTime]
        /\ link' = link /\ seen' = seen
    BY <1>9 DEF TakeOverWait, r, SendNothing
  <2>2. sb.state = "TakeOverWait"
    BY <2>1 DEF StandbyPass
  <2>3. to \in StbySyncState /\ to \in {"Startup", "RunActive", "TakeOverWait"} /\ (to # "Startup" => ~PrimaryBack)
    BY <1>1, <1>2, <2>2
  <2>. HIDE DEF to
  <2>4. PICK t \in StbySyncState : t = to
    BY <2>3
  <2>5. StandbyPass("TakeOverWait", [r EXCEPT !.state = t])
    BY <2>1, <2>4 DEF StandbyPass, Settle
  <2>6. Advances(t)
    BY <2>3, <2>4, <2>5, <1>5
  <2>7. IsActive' \in [Gateways -> BOOLEAN]
    BY <1>2, <2>1
  <2>8. t \in {"Startup", "RunActive", "TakeOverWait"} /\ (t # "Startup" => ~PrimaryBack)
    BY <2>3, <2>4
  <2>9. Onward(t)
    BY <2>1, <2>2, <2>6, <2>7, <2>8 DEF Onward, Sends, TakenOver
  <2>. QED BY <2>9
<1>10. CASE RunActive
  <2>. DEFINE to == IF PrimaryBack THEN "HandBackOver" ELSE r.state
  <2>1. /\ StandbyPass("RunActive", [r EXCEPT !.state = to])
        /\ link' = link \/ Send(Prim, [kind |-> "be_inactive"])
        /\ IsActive' = IsActive /\ seen' = seen
    BY <1>10 DEF RunActive, r, SendNothing
  <2>2. sb.state = "RunActive"
    BY <2>1 DEF StandbyPass
  <2>3. to \in StbySyncState /\ ((to = "HandBackOver" /\ PrimaryBack) \/ (to = "RunActive" /\ ~PrimaryBack))
    BY <1>1, <1>2, <2>2
  <2>. HIDE DEF to
  <2>4. PICK t \in StbySyncState : t = to
    BY <2>3
  <2>5. StandbyPass("RunActive", [r EXCEPT !.state = t])
    BY <2>1, <2>4 DEF StandbyPass, Settle
  <2>6. Advances(t)
    BY <2>3, <2>4, <2>5, <1>5
  <2>7. Sends
    <3>. DEFINE b == [kind |-> "be_inactive"]
    <3>1. b \in Body /\ b.kind = "be_inactive" /\ (link' = link \/ Send(Prim, b))
      BY <2>1, Bodies
    <3>. HIDE DEF b
    <3>. QED BY <2>2, <3>1 DEF Sends, TakenOver
  <2>8. (t = "HandBackOver" /\ PrimaryBack) \/ (t = "RunActive" /\ ~PrimaryBack)
    BY <2>3, <2>4
  <2>9. Onward(t)
    BY <1>2, <2>1, <2>2, <2>6, <2>7, <2>8 DEF Onward
  <2>. QED BY <2>9
<1>11. CASE HandBackOver
  <2>. DEFINE to == IF WaitedForHandover THEN "Startup" ELSE r.state
  <2>1. /\ StandbyPass("HandBackOver", [r EXCEPT !.state = to])
        /\ \/ IsActive' = [IsActive EXCEPT ![Stby] = FALSE] /\ Send(Prim, [kind |-> "be_active"])
           \/ IsActive' = IsActive /\ link' = link
        /\ seen' = seen
    BY <1>11 DEF HandBackOver, r, SendNothing
  <2>2. sb.state = "HandBackOver"
    BY <2>1 DEF StandbyPass
  <2>3. to \in StbySyncState /\ to \in {"Startup", "HandBackOver"}
    BY <1>1, <1>2, <2>2
  <2>. HIDE DEF to
  <2>4. PICK t \in StbySyncState : t = to
    BY <2>3
  <2>5. StandbyPass("HandBackOver", [r EXCEPT !.state = t])
    BY <2>1, <2>4 DEF StandbyPass, Settle
  <2>6. Advances(t)
    BY <2>3, <2>4, <2>5, <1>5
  <2>7. Sends
    <3>. DEFINE b == [kind |-> "be_active"]
    <3>1. b \in Body /\ b.kind = "be_active" /\ (link' = link \/ Send(Prim, b))
      BY <2>1, Bodies
    <3>. HIDE DEF b
    <3>. QED BY <2>2, <3>1 DEF Sends, TakenOver
  <2>8. IsActive' \in [Gateways -> BOOLEAN]
    BY <1>2, <2>1
  <2>9. Onward(t)
    BY <2>1, <2>2, <2>3, <2>4, <2>6, <2>7, <2>8 DEF Onward, TakenOver
  <2>. QED BY <2>9
<1>. QED BY <1>6, <1>7, <1>8, <1>9, <1>10, <1>11 DEF StandbyStep

(* What the standby sends is well typed and changes nothing towards itself.  *)
LEMMA SendsLeave ==
  ASSUME TypeOK, Sends
  PROVE  /\ link' \in Links /\ link'[Stby] = link[Stby]
         /\ \/ link'[Prim] = link[Prim]
            \/ \E b \in Body : /\ b.kind \in {"query", "be_inactive", "be_active"}
                               /\ b.kind # "query" => sb.state \in TakenOver \cup {"TakingOver"}
                               /\ link'[Prim] = Append(link[Prim], [body |-> b, age |-> 0])
<1>1. link \in Links
  BY DEF TypeOK, Links, Letter
<1>2. CASE link' = link
  BY <1>1, <1>2
<1>3. ASSUME NEW b \in Body, b.kind \in {"query", "be_inactive", "be_active"},
             b.kind # "query" => sb.state \in TakenOver \cup {"TakingOver"}, Send(Prim, b)
      PROVE  /\ link' \in Links /\ link'[Stby] = link[Stby]
             /\ link'[Prim] = link[Prim] \/ link'[Prim] = Append(link[Prim], [body |-> b, age |-> 0])
  <2>1. /\ link' \in Links /\ \A h \in Gateways \ {Prim} : link'[h] = link[h]
        /\ link'[Prim] = link[Prim] \/ link'[Prim] = Append(link[Prim], [body |-> b, age |-> 0])
    BY <1>1, <1>3, SendSends, Pair
  <2>. QED BY <2>1, Pair, FourNames
<1>. QED BY <1>2, <1>3 DEF Sends

-------------------------------------------------------------------------------
(* What a step must show to keep the invariant.                              *)

Buffers == [Gateways -> SiteMessage \union {None}]
Clocks == [Gateways -> 0 .. ClusterInterval + 1]

LEMMA TypesSplit ==
  TypeOK <=>
    /\ up \subseteq Gateways /\ due \subseteq up
    /\ IsActive \in [Gateways -> BOOLEAN] /\ slot \in Buffers /\ sinceId \in Clocks
    /\ link \in Links /\ linkUp \in BOOLEAN /\ pr \in PrimaryState /\ sb \in StandbyState
    /\ faults \in Budget /\ seen \in Observed
BY DEF TypeOK, Buffers, Clocks, Links, Letter, Budget, Observed

(* The identifiers of a sequence of letters come from one gateway.           *)
AllFrom(s, who) == \A i \in 1..Len(s) : s[i].body.kind = "site" => s[i].body.msg.from = who

LEMMA AddressedSplit ==
  /\ Addressed <=> AllFrom(link[Prim], Stby) /\ AllFrom(link[Stby], Prim)
  /\ Addressed' <=> AllFrom(link'[Prim], Stby) /\ AllFrom(link'[Stby], Prim)
BY DEF Addressed, AllFrom

LEMMA AppendFrom ==
  ASSUME NEW s \in Seq(Letter), NEW l \in Letter, NEW who, AllFrom(s, who),
         l.body.kind = "site" => l.body.msg.from = who
  PROVE  AllFrom(Append(s, l), who)
<1>. SUFFICES ASSUME NEW i \in 1..Len(Append(s, l)), Append(s, l)[i].body.kind = "site"
              PROVE  Append(s, l)[i].body.msg.from = who
  BY DEF AllFrom
<1>1. Append(s, l)[i] = IF i = Len(s) + 1 THEN l ELSE s[i]
  OBVIOUS
<1>2. i = Len(s) + 1 \/ i \in 1..Len(s)
  OBVIOUS
<1>. QED BY <1>1, <1>2 DEF AllFrom

LEMMA TailFrom ==
  ASSUME NEW s \in Seq(Letter), s # << >>, NEW who, AllFrom(s, who)
  PROVE  /\ AllFrom(Tail(s), who) /\ Tail(s) \in Seq(Letter)
         /\ Head(s) \in Letter /\ Head(s).body \in Body
         /\ Head(s).body.kind = "site" => Head(s).body.msg.from = who
<1>1. Len(s) \in Nat /\ Len(s) >= 1 /\ Head(s) = s[1] /\ s[1] \in Letter
  OBVIOUS
<1>2. Tail(s) \in Seq(Letter) /\ Len(Tail(s)) = Len(s) - 1 /\ \A i \in 1..Len(Tail(s)) : Tail(s)[i] = s[i+1]
  OBVIOUS
<1>3. AllFrom(Tail(s), who)
  BY <1>1, <1>2 DEF AllFrom
<1>. QED BY <1>1, <1>2, <1>3 DEF AllFrom, Letter

LEMMA HeardStays ==
  ASSUME TypeOK, HeardAgain, sb'.state = sb.state, sb'.sinceOK \in Nat, sb'.sinceOK >= sb.sinceOK,
         slot'[Stby] # None => slot'[Stby].from # Prim \/ slot'[Stby] = slot[Stby],
         seen'.heard = seen.heard
  PROVE  HeardAgain'
<1>1. FromPrimary' => FromPrimary
  BY DEF FromPrimary
<1>2. sb.sinceOK \in Nat /\ hotcutovertime \in Nat
  BY SbTyped, Periods
<1>3. PrimaryBack' => PrimaryBack
  BY <1>2 DEF PrimaryBack
<1>. QED BY <1>1, <1>3 DEF HeardAgain

LEMMA FlagStays ==
  ASSUME FlagCounted, pr'.flag = pr.flag, faults' = faults, up' = up
  PROVE  FlagCounted'
BY DEF FlagCounted

LEMMA PrTyped ==
  ASSUME TypeOK
  PROVE  /\ pr.flag \in Nat /\ FirstFlag <= pr.flag /\ pr.flag <= LastFlag /\ pr.flag \in Flags
         /\ pr.sinceMsg \in 0 .. RejectTime + 1 /\ pr.standby \in {None, Stby} /\ pr.reply \in Flags
         /\ pr.ready \in 0 .. MaxXMLready
BY Longests DEF TypeOK, PrimaryState, Flags, FirstFlag

LEMMA FaultsTyped ==
  ASSUME TypeOK
  PROVE  /\ faults.crashes \in 0 .. MaxCrashes /\ faults.cuts \in 0 .. MaxCuts
         /\ faults.reloads \in 0 .. MaxReloads /\ faults.commands \in 0 .. MaxCommands
BY DEF TypeOK

LEMMA LinkTyped ==
  ASSUME TypeOK
  PROVE  link \in Links /\ \A g \in Gateways : link[g] \in Seq(Letter)
BY TypesSplit DEF Links

LEMMA FirstInvariant == Init => IInv
<1>. SUFFICES ASSUME Init PROVE IInv
  OBVIOUS
<1>1. pr \in PrimaryState /\ pr.flag = FirstFlag
  <2>1. /\ FirstFlag \in FirstFlag .. LastFlag /\ 0 \in 0 .. RejectTime + 1 /\ 0 \in Flags
        /\ 0 \in 0 .. MaxXMLready
    BY Periods, Longests DEF FirstFlag, Flags
  <2>. QED BY <2>1 DEF Init, FreshPrimary, PrimaryState
<1>2. FreshStandby \in StandbyState /\ FreshStandby.state = "Reset"
  <2>1. /\ "Reset" \in StbySyncState /\ 0 \in 0 .. LongestIn /\ 0 \in Silence /\ 0 \in 0 .. LongestReq
        /\ 0 \in 0 .. CredentialFailMax + 1 /\ 0 \in Flags
    BY Periods, Longests DEF StbySyncState, Silence, Flags
  <2>. QED BY <2>1 DEF FreshStandby, StandbyState
<1>3. link \in Links /\ link[Prim] = << >> /\ link[Stby] = << >>
  BY Pair DEF Init, Links
<1>4. /\ up \subseteq Gateways /\ due \subseteq up /\ IsActive \in [Gateways -> BOOLEAN]
      /\ slot \in Buffers /\ sinceId \in Clocks /\ linkUp \in BOOLEAN
  BY Periods DEF Init, Buffers, Clocks, StartsActive
<1>5. faults \in Budget /\ faults.reloads = 0 /\ faults.crashes = 0 /\ seen \in Observed
  BY Periods DEF Init, Budget, Observed
<1>6. sb = FreshStandby /\ Prim \in up /\ slot[Stby] = None
  BY Pair DEF Init
<1>7. TypeOK
  BY <1>1, <1>2, <1>3, <1>4, <1>5, <1>6, TypesSplit
<1>8. Addressed
  BY <1>3, AddressedSplit DEF AllFrom
<1>9. FlagCounted
  BY <1>1, <1>5, <1>6 DEF FlagCounted, FirstFlag
<1>10. HeardAgain
  BY <1>2, <1>6 DEF HeardAgain, TakenOver
<1>. QED BY <1>7, <1>8, <1>9, <1>10 DEF IInv

-------------------------------------------------------------------------------
(* The messages.                                                             *)

LEMMA IdentifierKeeps ==
  ASSUME IInv, NEW g \in Gateways, SendIdentifier(g)
  PROVE  IInv'
<1>. USE DEF IInv
<1>1. /\ sinceId' = [sinceId EXCEPT ![g] = 0]
      /\ Send(Peer(g), [kind |-> "site", msg |-> [from |-> g, isactive |-> IsActive[g], flag |-> pr.flag]])
      /\ up' = up /\ IsActive' = IsActive /\ slot' = slot /\ due' = due /\ linkUp' = linkUp
      /\ pr' = pr /\ sb' = sb /\ faults' = faults /\ seen' = seen
  BY DEF SendIdentifier
<1>. DEFINE now == [from |-> g, isactive |-> IsActive[g], flag |-> pr.flag]
<1>2. now \in SiteMessage /\ now.from = g
  BY PrTyped, TypesSplit DEF SiteMessage, Sites
<1>3. Send(Peer(g), [kind |-> "site", msg |-> now])
  BY <1>1
<1>. HIDE DEF now
<1>4. PICK m \in SiteMessage : m = now
  BY <1>2
<1>. DEFINE b == [kind |-> "site", msg |-> m]
            h == Peer(g)
<1>5. b \in Body /\ b.kind = "site" /\ b.msg.from = g /\ Send(h, b)
  BY <1>2, <1>3, <1>4, Bodies
<1>6. h \in Gateways /\ h # g
  BY Pair, FourNames
<1>. HIDE DEF b, h
<1>. DEFINE l == [body |-> b, age |-> 0]
<1>7. /\ link' \in Links /\ \A x \in Gateways \ {h} : link'[x] = link[x]
      /\ link'[h] = link[h] \/ link'[h] = Append(link[h], l)
  BY <1>5, <1>6, LinkTyped, SendSends
<1>8. l \in Letter /\ l.body = b
  BY <1>5, Periods DEF Letter
<1>. HIDE DEF l
<1>9. sinceId' \in Clocks
  BY <1>1, TypesSplit, Periods DEF Clocks
<1>10. TypeOK'
  BY <1>1, <1>7, <1>9, TypesSplit DEF TypeOK, Links, Letter, Clocks
<1>11. Addressed'
  <2>1. AllFrom(link[h], g) /\ AllFrom(link[g], h)
    BY <1>6, AddressedSplit, Pair
  <2>2. AllFrom(Append(link[h], l), g)
    BY <1>5, <1>6, <1>8, <2>1, LinkTyped, AppendFrom
  <2>3. AllFrom(link'[h], g) /\ AllFrom(link'[g], h)
    BY <1>6, <1>7, <2>1, <2>2
  <2>. QED BY <1>6, <2>3, AddressedSplit, Pair
<1>12. FlagCounted' /\ HeardAgain'
  BY <1>1 DEF FlagCounted, HeardAgain, FromPrimary, PrimaryBack
<1>. QED BY <1>10, <1>11, <1>12

LEMMA MessageInKeeps ==
  ASSUME IInv, NEW g \in Gateways, InterSiteMessageIn(g)
  PROVE  IInv'
<1>. USE DEF IInv
<1>1. /\ g \in up /\ link[g] # << >> /\ link' = [link EXCEPT ![g] = Tail(link[g])]
      /\ up' = up /\ due' = due /\ sinceId' = sinceId /\ linkUp' = linkUp /\ faults' = faults
  BY DEF InterSiteMessageIn
<1>2. PICK who \in Gateways : who # g
  BY Pair, FourNames
<1>3. AllFrom(link[g], who) /\ AllFrom(link[who], g) /\ link \in Links /\ link[g] \in Seq(Letter)
  BY <1>2, AddressedSplit, Pair, LinkTyped
<1>4. /\ AllFrom(Tail(link[g]), who) /\ Tail(link[g]) \in Seq(Letter)
      /\ Head(link[g]).body \in Body
      /\ Head(link[g]).body.kind = "site" => Head(link[g]).body.msg.from = who
  BY <1>1, <1>3, TailFrom
<1>5. PICK body \in Body : body = Head(link[g]).body
  BY <1>4
<1>6. SiteMessageIn(g, body) \/ QueryIn(g, body) \/ ReplyIn(g, body) \/ CommandIn(g, body)
  <2>1. LET bb == Head(link[g]).body
        IN  SiteMessageIn(g, bb) \/ QueryIn(g, bb) \/ ReplyIn(g, bb) \/ CommandIn(g, bb)
    BY DEF InterSiteMessageIn
  <2>. QED BY <2>1, <1>5 DEF SiteMessageIn, QueryIn, ReplyIn, CommandIn
<1>7. link' \in Links /\ Addressed'
  <2>1. link' \in Links /\ link'[g] = Tail(link[g]) /\ link'[who] = link[who]
    BY <1>1, <1>2, <1>3, <1>4 DEF Links
  <2>2. AllFrom(link'[g], who) /\ AllFrom(link'[who], g)
    BY <2>1, <1>3, <1>4
  <2>. QED BY <1>2, <2>1, <2>2, AddressedSplit, Pair
<1>8. CASE SiteMessageIn(g, body)
  <2>1. /\ body.kind = "site" /\ slot' = [slot EXCEPT ![g] = [body.msg EXCEPT !.flag = ParsedFlag(@)]]
        /\ pr' = IF g = Prim THEN [pr EXCEPT !.standby = body.msg.from] ELSE pr
        /\ sb' = IF g = Stby THEN [sb EXCEPT !.heard = TRUE] ELSE sb
        /\ seen' = IF g = Stby THEN [seen EXCEPT !.heard = TRUE] ELSE seen
        /\ IsActive' = IsActive
    BY <1>8 DEF SiteMessageIn
  <2>2. body.msg \in SiteMessage /\ body.msg.from = who
    BY <2>1, <1>4, <1>5, Bodies
  <2>. DEFINE m == [body.msg EXCEPT !.flag = ParsedFlag(@)]
  <2>3. m \in SiteMessage
    <3>1. 0 \in Flags /\ 1 \in Flags
      BY Longests DEF Flags
    <3>. QED BY <2>2, <3>1 DEF ParsedFlag, SiteMessage
  <2>4. slot' \in Buffers /\ (g = Prim => slot'[Stby] = slot[Stby])
    BY <2>1, <2>3, TypesSplit, Pair, FourNames DEF Buffers
  <2>5. pr' \in PrimaryState /\ pr'.flag = pr.flag
    <3>1. g = Prim => who = Stby
      BY <1>2, Pair
    <3>. QED BY <2>1, <2>2, <3>1, TypesSplit DEF PrimaryState
  <2>6. sb' \in StandbyState /\ sb'.state = sb.state /\ sb'.sinceOK = sb.sinceOK
    BY <2>1, TypesSplit DEF StandbyState
  <2>7. seen' \in Observed /\ (g = Stby => seen'.heard = TRUE) /\ (g = Prim => seen' = seen)
    BY <2>1, TypesSplit, FourNames DEF Observed
  <2>8. TypeOK'
    BY <1>1, <1>7, <2>1, <2>4, <2>5, <2>6, <2>7, TypesSplit DEF TypeOK, Links, Letter, Buffers, Observed
  <2>9. FlagCounted'
    BY <1>1, <2>5, FlagStays
  <2>10. HeardAgain'
    <3>1. CASE g = Stby
      BY <2>7, <3>1 DEF HeardAgain
    <3>2. CASE g = Prim
      BY <2>4, <2>6, <2>7, <3>2, SbTyped, HeardStays
    <3>. QED BY <3>1, <3>2, Pair
  <2>. QED BY <1>7, <2>8, <2>9, <2>10
<1>9. CASE QueryIn(g, body)
  <2>1. /\ pr' = [pr EXCEPT !.reply = IF @ = 0 THEN pr.flag ELSE 0]
        /\ slot' = slot /\ sb' = sb /\ IsActive' = IsActive /\ seen' = seen
    BY <1>9 DEF QueryIn
  <2>2. pr' \in PrimaryState /\ pr'.flag = pr.flag
    <3>1. 0 \in Flags /\ pr.flag \in Flags
      BY Longests, PrTyped DEF Flags
    <3>. QED BY <2>1, <3>1, TypesSplit DEF PrimaryState
  <2>3. TypeOK'
    BY <1>1, <1>7, <2>1, <2>2, TypesSplit DEF TypeOK, Links, Letter
  <2>4. FlagCounted'
    BY <1>1, <2>2, FlagStays
  <2>5. HeardAgain'
    BY <2>1 DEF HeardAgain, FromPrimary, PrimaryBack
  <2>. QED BY <1>7, <2>3, <2>4, <2>5
<1>10. CASE ReplyIn(g, body)
  <2>1. /\ body.kind = "reply"
        /\ sb' = [sb EXCEPT !.credsOK = TRUE, !.replyFlag = body.flag, !.heard = TRUE]
        /\ slot' = slot /\ pr' = pr /\ IsActive' = IsActive /\ seen' = seen
    BY <1>10 DEF ReplyIn
  <2>2. body.flag \in Flags
    BY <2>1, Bodies
  <2>3. sb' \in StandbyState /\ sb'.state = sb.state /\ sb'.sinceOK = sb.sinceOK
    BY <2>1, <2>2, TypesSplit DEF StandbyState
  <2>4. TypeOK'
    BY <1>1, <1>7, <2>1, <2>3, TypesSplit DEF TypeOK, Links, Letter
  <2>5. FlagCounted'
    BY <1>1, <2>1, FlagStays
  <2>6. HeardAgain'
    BY <2>1, <2>3, SbTyped, HeardStays
  <2>. QED BY <1>7, <2>4, <2>5, <2>6
<1>11. CASE CommandIn(g, body)
  <2>1. /\ IsActive' = [IsActive EXCEPT ![g] = (body.kind = "be_active")]
        /\ slot' = slot /\ pr' = pr /\ sb' = sb /\ seen' = seen
    BY <1>11 DEF CommandIn
  <2>2. IsActive' \in [Gateways -> BOOLEAN]
    <3>1. (body.kind = "be_active") \in BOOLEAN
      OBVIOUS
    <3>. QED BY <2>1, <3>1, TypesSplit
  <2>3. TypeOK'
    BY <1>1, <1>7, <2>1, <2>2, TypesSplit DEF TypeOK, Links, Letter
  <2>4. FlagCounted' /\ HeardAgain'
    BY <1>1, <2>1 DEF HeardAgain, FromPrimary, PrimaryBack, FlagCounted
  <2>. QED BY <1>7, <2>3, <2>4
<1>. QED BY <1>6, <1>8, <1>9, <1>10, <1>11

LEMMA OtherSiteKeeps ==
  ASSUME IInv, NEW g \in Gateways, OtherSiteMessageIn(g)
  PROVE  IInv'
<1>. USE DEF IInv
<1>1. PICK b \in BOOLEAN : slot' = [slot EXCEPT ![g] = [from |-> Other, isactive |-> b, flag |-> 1]]
  BY DEF OtherSiteMessageIn
<1>2. /\ sb' = IF g = Stby THEN [sb EXCEPT !.heard = TRUE] ELSE sb
      /\ up' = up /\ due' = due /\ IsActive' = IsActive /\ sinceId' = sinceId /\ link' = link
      /\ linkUp' = linkUp /\ pr' = pr /\ faults' = faults /\ seen' = seen
  BY DEF OtherSiteMessageIn
<1>. DEFINE m == [from |-> Other, isactive |-> b, flag |-> 1]
<1>3. m \in SiteMessage /\ m.from = Other
  BY Longests DEF SiteMessage, Sites, Flags
<1>4. slot' = [slot EXCEPT ![g] = m]
  BY <1>1
<1>. HIDE DEF m
<1>5. slot' \in Buffers /\ (slot'[Stby] = m \/ slot'[Stby] = slot[Stby])
  BY <1>3, <1>4, TypesSplit, Pair DEF Buffers
<1>6. sb' \in StandbyState /\ sb'.state = sb.state /\ sb'.sinceOK = sb.sinceOK
  BY <1>2, TypesSplit DEF StandbyState
<1>7. TypeOK'
  BY <1>2, <1>5, <1>6, TypesSplit DEF TypeOK, Buffers
<1>8. HeardAgain'
  BY <1>2, <1>3, <1>5, <1>6, SbTyped, FourNames, HeardStays
<1>9. Addressed' /\ FlagCounted'
  BY <1>2 DEF Addressed, FlagCounted
<1>. QED BY <1>7, <1>8, <1>9

-------------------------------------------------------------------------------
(* The primary, and the passes of the standby.                               *)

LEMMA ReplyKeeps ==
  ASSUME IInv, SendReply
  PROVE  IInv'
<1>. USE DEF IInv
<1>1. /\ Send(Stby, [kind |-> "reply", flag |-> pr.reply]) /\ pr' = [pr EXCEPT !.reply = 0]
      /\ up' = up /\ IsActive' = IsActive /\ slot' = slot /\ due' = due /\ sinceId' = sinceId
      /\ linkUp' = linkUp /\ sb' = sb /\ faults' = faults /\ seen' = seen
  BY DEF SendReply
<1>2. PICK f \in Flags : f = pr.reply
  BY PrTyped
<1>. DEFINE b == [kind |-> "reply", flag |-> f]
<1>3. b \in Body /\ b.kind = "reply" /\ Send(Stby, b)
  BY <1>1, <1>2, Bodies
<1>. HIDE DEF b
<1>. DEFINE l == [body |-> b, age |-> 0]
<1>4. /\ link' \in Links /\ link'[Prim] = link[Prim]
      /\ link'[Stby] = link[Stby] \/ link'[Stby] = Append(link[Stby], l)
  BY <1>3, LinkTyped, SendSends, Pair, FourNames
<1>5. l \in Letter /\ l.body = b
  BY <1>3, Periods DEF Letter
<1>. HIDE DEF l
<1>6. pr' \in PrimaryState /\ pr'.flag = pr.flag
  <2>1. 0 \in Flags
    BY Longests DEF Flags
  <2>. QED BY <1>1, <2>1, TypesSplit DEF PrimaryState
<1>7. TypeOK'
  BY <1>1, <1>4, <1>6, TypesSplit DEF TypeOK, Links, Letter
<1>8. Addressed'
  <2>1. AllFrom(link[Prim], Stby) /\ AllFrom(link[Stby], Prim)
    BY AddressedSplit
  <2>2. AllFrom(Append(link[Stby], l), Prim)
    BY <1>3, <1>5, <2>1, LinkTyped, AppendFrom, Pair
  <2>. QED BY <1>4, <2>1, <2>2, AddressedSplit
<1>9. FlagCounted' /\ HeardAgain'
  BY <1>1, <1>6 DEF FlagCounted, HeardAgain, FromPrimary, PrimaryBack
<1>. QED BY <1>7, <1>8, <1>9

LEMMA PrimaryPassKeeps ==
  ASSUME IInv, PrimaryPass
  PROVE  IInv'
<1>. USE DEF IInv
<1>1. /\ due' = due \ {Prim} /\ slot' = [slot EXCEPT ![Prim] = None]
      /\ pr' = Watchdog([pr EXCEPT !.sinceMsg = IF slot[Prim] # None THEN 0 ELSE @])
      /\ IsActive' = [IsActive EXCEPT ![Prim] =
           \/ @
           \/ slot[Prim] # None /\ NoActiveGateway(slot[Prim])
           \/ slot[Prim] = None /\ StandbySilent]
      /\ up' = up /\ sinceId' = sinceId /\ link' = link /\ linkUp' = linkUp /\ sb' = sb
      /\ faults' = faults /\ seen' = seen
  BY DEF PrimaryPass
<1>. DEFINE p == [pr EXCEPT !.sinceMsg = IF slot[Prim] # None THEN 0 ELSE @]
<1>2. p \in PrimaryState /\ p.flag = pr.flag
  <2>1. 0 \in 0 .. RejectTime + 1
    BY Periods
  <2>. QED BY <2>1, TypesSplit DEF PrimaryState
<1>3. pr' = Watchdog(p)
  BY <1>1
<1>. HIDE DEF p
<1>4. Watchdog(p) \in PrimaryState /\ Watchdog(p).flag = p.flag
  <2>1. p.ready < MaxXMLready => p.ready + 1 \in 0 .. MaxXMLready
    BY <1>2, Periods DEF PrimaryState
  <2>2. 0 \in 0 .. MaxXMLready /\ 0 \in Flags
    BY Periods, Longests DEF Flags
  <2>. QED BY <1>2, <2>1, <2>2 DEF Watchdog, PrimaryState
<1>5. slot' \in Buffers /\ slot'[Stby] = slot[Stby]
  BY <1>1, TypesSplit, Pair, FourNames DEF Buffers
<1>6. IsActive' \in [Gateways -> BOOLEAN]
  <2>. DEFINE q == \/ IsActive[Prim]
                   \/ slot[Prim] # None /\ NoActiveGateway(slot[Prim])
                   \/ slot[Prim] = None /\ StandbySilent
  <2>1. q \in BOOLEAN
    OBVIOUS
  <2>2. IsActive' = [IsActive EXCEPT ![Prim] = q]
    BY <1>1
  <2>. HIDE DEF q
  <2>. QED BY <2>1, <2>2, TypesSplit
<1>7. due' \subseteq up'
  BY <1>1, TypesSplit
<1>8. TypeOK'
  BY <1>1, <1>2, <1>3, <1>4, <1>5, <1>6, <1>7, TypesSplit DEF TypeOK, Buffers
<1>9. Addressed'
  BY <1>1 DEF Addressed
<1>10. FlagCounted' /\ HeardAgain'
  BY <1>1, <1>2, <1>3, <1>4, <1>5 DEF FlagCounted, HeardAgain, FromPrimary, PrimaryBack
<1>. QED BY <1>8, <1>9, <1>10

LEMMA ReloadKeeps ==
  ASSUME IInv, ReloadPrimaryTables
  PROVE  IInv'
<1>. USE DEF IInv
<1>1. /\ Prim \in up /\ faults.reloads < MaxReloads /\ faults' = [faults EXCEPT !.reloads = @ + 1]
      /\ pr' = [pr EXCEPT !.flag = @ + 1]
      /\ up' = up /\ IsActive' = IsActive /\ slot' = slot /\ due' = due /\ sinceId' = sinceId
      /\ link' = link /\ linkUp' = linkUp /\ sb' = sb /\ seen' = seen
  BY DEF ReloadPrimaryTables
<1>2. faults' \in Budget /\ faults'.reloads = faults.reloads + 1 /\ faults'.crashes = faults.crashes
  BY <1>1, TypesSplit, Periods DEF Budget
<1>3. pr' \in PrimaryState /\ pr'.flag = pr.flag + 1 /\ FlagCounted'
  <2>1. pr.flag + 1 <= FirstFlag + (faults.reloads + 1) + faults.crashes
    BY PrTyped, FaultsTyped DEF FlagCounted, FirstFlag
  <2>2. pr.flag + 1 \in FirstFlag .. LastFlag
    BY <1>1, <2>1, PrTyped, FaultsTyped, Longests, Periods DEF FirstFlag
  <2>3. pr' \in PrimaryState /\ pr'.flag = pr.flag + 1
    BY <1>1, <2>2, TypesSplit DEF PrimaryState
  <2>. QED BY <1>1, <1>2, <2>1, <2>3 DEF FlagCounted
<1>4. TypeOK'
  BY <1>1, <1>2, <1>3, TypesSplit DEF TypeOK, Budget
<1>5. Addressed' /\ HeardAgain'
  BY <1>1 DEF Addressed, HeardAgain, FromPrimary, PrimaryBack
<1>. QED BY <1>3, <1>4, <1>5

LEMMA PassKeeps ==
  ASSUME IInv, StandbyStep, ~MergeCrash
  PROVE  IInv'
<1>. USE DEF IInv
<1>1. PICK to \in StbySyncState : Onward(to)
  BY StandbyPasses
<1>2. /\ due' = due \ {Stby} /\ sb' \in StandbyState /\ sb'.state = to
      /\ sb'.sinceOK \in {ReadSlot.sinceOK, 0}
      /\ to \in TakenOver => sb'.sinceOK = ReadSlot.sinceOK
      /\ slot' \in Buffers /\ slot'[Stby] = None
      /\ up' = up /\ sinceId' = sinceId /\ linkUp' = linkUp /\ pr' = pr /\ faults' = faults
  BY <1>1 DEF Onward, Advances, Buffers
<1>3. /\ link' \in Links /\ link'[Stby] = link[Stby]
      /\ \/ link'[Prim] = link[Prim]
         \/ \E b \in Body : /\ b.kind \in {"query", "be_inactive", "be_active"}
                            /\ link'[Prim] = Append(link[Prim], [body |-> b, age |-> 0])
  BY <1>1, SendsLeave DEF Onward
<1>4. /\ IsActive' \in [Gateways -> BOOLEAN] /\ seen' \in Observed
      /\ seen'.heard = seen.heard \/ sb.state = "TakingOver"
  BY <1>1, TypesSplit DEF Onward, Observed
<1>5. due' \subseteq up'
  BY <1>2, TypesSplit
<1>6. TypeOK'
  BY <1>2, <1>3, <1>4, <1>5, TypesSplit DEF TypeOK, Links, Letter, Buffers, Observed
<1>7. Addressed'
  <2>1. AllFrom(link[Prim], Stby) /\ AllFrom(link[Stby], Prim)
    BY AddressedSplit
  <2>2. ASSUME NEW b \in Body, b.kind \in {"query", "be_inactive", "be_active"}
        PROVE  AllFrom(Append(link[Prim], [body |-> b, age |-> 0]), Stby)
    <3>. DEFINE l == [body |-> b, age |-> 0]
    <3>1. l \in Letter /\ l.body.kind # "site"
      BY <2>2, Periods DEF Letter
    <3>. HIDE DEF l
    <3>2. AllFrom(Append(link[Prim], l), Stby)
      BY <2>1, <3>1, LinkTyped, AppendFrom, Pair
    <3>. QED BY <3>2 DEF l
  <2>3. AllFrom(link'[Prim], Stby)
    BY <1>3, <2>1, <2>2
  <2>. QED BY <1>3, <2>1, <2>3, AddressedSplit
<1>8. FlagCounted'
  BY <1>2 DEF FlagCounted
<1>9. HeardAgain'
  <2>1. ~FromPrimary'
    BY <1>2 DEF FromPrimary
  <2>2. ASSUME to \in TakenOver, sb.state # "TakingOver", ~seen.heard
        PROVE  sb'.sinceOK = sb.sinceOK \/ sb.state \notin TakenOver
    BY <1>2, <2>2, ReadSlotTyped DEF HeardAgain
  <2>3. ASSUME to = "RunActive", PrimaryBack' PROVE seen'.heard
    <3>1. /\ sb.state \in {"TakeOverWait", "RunActive"} /\ ~PrimaryBack /\ sb.state \in TakenOver
          /\ to \in TakenOver /\ seen'.heard = seen.heard
      BY <1>1, <1>4, <2>3 DEF Onward, TakenOver
    <3>2. sb'.sinceOK # sb.sinceOK
      BY <2>3, <3>1, SbTyped, Periods DEF PrimaryBack
    <3>. QED BY <2>2, <3>1, <3>2
  <2>4. ASSUME to = "HandBackOver" PROVE seen'.heard
    <3>1. sb.state = "HandBackOver" \/ (sb.state = "RunActive" /\ PrimaryBack)
      BY <1>1, <2>4 DEF Onward
    <3>. QED BY <1>4, <3>1 DEF HeardAgain
  <2>. QED BY <1>2, <2>1, <2>3, <2>4 DEF HeardAgain
<1>. QED BY <1>6, <1>7, <1>8, <1>9

-------------------------------------------------------------------------------
(* Faults, commands and time.                                                *)

LEMMA StopKeeps ==
  ASSUME IInv, NEW g \in Gateways, Stop(g), faults' \in Budget,
         \/ faults' = faults /\ g = Stby
         \/ faults'.reloads = faults.reloads /\ faults'.crashes = faults.crashes + 1
  PROVE  IInv'
<1>. USE DEF IInv
<1>1. /\ up' = up \ {g} /\ due' = due \ {g} /\ IsActive' = [IsActive EXCEPT ![g] = FALSE]
      /\ slot' = [slot EXCEPT ![g] = None] /\ sinceId' = [sinceId EXCEPT ![g] = 0]
      /\ linkUp' = FALSE /\ link' = [h \in Gateways |-> << >>]
      /\ pr' = IF g = Prim THEN FreshPrimary(pr.flag) ELSE pr
      /\ sb' = IF g = Stby THEN FreshStandby ELSE sb
      /\ seen' = [seen EXCEPT !.dark = 0]
  BY DEF Stop
<1>2. pr' \in PrimaryState /\ pr'.flag = pr.flag
  <2>1. 0 \in 0 .. RejectTime + 1 /\ 0 \in Flags /\ 0 \in 0 .. MaxXMLready /\ pr.flag \in FirstFlag .. LastFlag
    BY Periods, Longests, PrTyped DEF FirstFlag, Flags
  <2>2. FreshPrimary(pr.flag) \in PrimaryState /\ FreshPrimary(pr.flag).flag = pr.flag
    BY <2>1 DEF FreshPrimary, PrimaryState
  <2>. QED BY <1>1, <2>2, TypesSplit
<1>3. FreshStandby \in StandbyState /\ FreshStandby.state = "Reset"
  <2>1. /\ "Reset" \in StbySyncState /\ 0 \in 0 .. LongestIn /\ 0 \in Silence /\ 0 \in 0 .. LongestReq
        /\ 0 \in 0 .. CredentialFailMax + 1 /\ 0 \in Flags
    BY Periods, Longests DEF StbySyncState, Silence, Flags
  <2>. QED BY <2>1 DEF FreshStandby, StandbyState
<1>4. sb' \in StandbyState /\ (g = Stby => sb'.state = "Reset") /\ (g = Prim => sb' = sb)
  BY <1>1, <1>3, TypesSplit, FourNames
<1>5. slot' \in Buffers /\ (g = Prim => slot'[Stby] = slot[Stby])
  BY <1>1, TypesSplit, FourNames, Pair DEF Buffers
<1>6. sinceId' \in Clocks /\ IsActive' \in [Gateways -> BOOLEAN]
  BY <1>1, TypesSplit, Periods DEF Clocks
<1>7. link' \in Links /\ link'[Prim] = << >> /\ link'[Stby] = << >>
  BY <1>1, Pair DEF Links
<1>8. seen' \in Observed /\ seen'.heard = seen.heard
  <2>1. seen \in Observed /\ 0 \in 0 .. MaxDark + 1
    BY TypesSplit, Periods
  <2>. QED BY <1>1, <2>1 DEF Observed
<1>9. up' \subseteq Gateways /\ due' \subseteq up' /\ linkUp' \in BOOLEAN
  BY <1>1, TypesSplit
<1>10. TypeOK'
  BY <1>2, <1>4, <1>5, <1>6, <1>7, <1>8, <1>9 DEF TypeOK, Budget, Links, Letter, Buffers, Clocks, Observed
<1>11. Addressed'
  BY <1>7 DEF Addressed
<1>12. FlagCounted'
  <2>1. /\ pr'.flag = pr.flag /\ pr.flag \in Nat /\ faults.reloads \in Nat /\ faults.crashes \in Nat
        /\ pr.flag <= FirstFlag + faults.reloads + faults.crashes
    BY <1>2, PrTyped, FaultsTyped DEF FlagCounted
  <2>2. CASE faults' = faults /\ g = Stby
    <3>1. Prim \notin up' => Prim \notin up
      BY <1>1, <2>2, FourNames
    <3>. QED BY <2>1, <2>2, <3>1 DEF FlagCounted
  <2>3. CASE faults'.reloads = faults.reloads /\ faults'.crashes = faults.crashes + 1
    BY <2>1, <2>3 DEF FlagCounted, FirstFlag
  <2>. QED BY <2>2, <2>3
<1>13. HeardAgain'
  <2>1. CASE g = Stby
    BY <1>4, <2>1 DEF HeardAgain, TakenOver
  <2>2. CASE g = Prim
    BY <1>4, <1>5, <1>8, <2>2, SbTyped, HeardStays
  <2>. QED BY <2>1, <2>2, Pair
<1>. QED BY <1>10, <1>11, <1>12, <1>13

LEMMA CrashKeeps ==
  ASSUME IInv, NEW g \in Gateways, Crash(g)
  PROVE  IInv'
<1>1. faults.crashes < MaxCrashes /\ faults' = [faults EXCEPT !.crashes = @ + 1] /\ Stop(g)
  BY DEF Crash
<1>2. TypeOK
  BY DEF IInv
<1>3. faults' \in Budget /\ faults'.reloads = faults.reloads /\ faults'.crashes = faults.crashes + 1
  BY <1>1, <1>2, TypesSplit, Periods DEF Budget
<1>. QED BY <1>1, <1>3, StopKeeps

LEMMA MergeCrashKeeps ==
  ASSUME IInv, MergeCrash
  PROVE  IInv'
<1>1. Stop(Stby) /\ faults' = faults
  BY DEF MergeCrash
<1>2. faults' \in Budget
  BY <1>1, TypesSplit DEF IInv
<1>. QED BY <1>1, <1>2, StopKeeps, Pair

LEMMA CommandsKeep ==
  ASSUME IInv, TablesReloaded \/ ForceTakeOver \/ \E g \in Gateways : SetActive(g)
  PROVE  IInv'
<1>. USE DEF IInv
<1>1. /\ up' = up /\ slot' = slot /\ due' = due /\ sinceId' = sinceId /\ link' = link
      /\ linkUp' = linkUp /\ pr' = pr /\ seen' = seen
      /\ \/ sb' = sb
         \/ sb' = [sb EXCEPT !.reload = FALSE] \/ sb' = [sb EXCEPT !.force = TRUE]
      /\ \/ IsActive' = IsActive
         \/ \E g \in Gateways, b \in BOOLEAN : IsActive' = [IsActive EXCEPT ![g] = b]
      /\ \/ faults' = faults
         \/ faults.commands < MaxCommands /\ faults' = [faults EXCEPT !.commands = @ + 1]
  BY DEF TablesReloaded, ForceTakeOver, SetActive, Command
<1>2. sb' \in StandbyState /\ sb'.state = sb.state /\ sb'.sinceOK = sb.sinceOK
  BY <1>1, TypesSplit DEF StandbyState
<1>3. IsActive' \in [Gateways -> BOOLEAN]
  BY <1>1, TypesSplit
<1>4. faults' \in Budget /\ faults'.reloads = faults.reloads /\ faults'.crashes = faults.crashes
  BY <1>1, TypesSplit, Periods DEF Budget
<1>5. TypeOK'
  BY <1>1, <1>2, <1>3, <1>4, TypesSplit DEF TypeOK, Budget
<1>6. Addressed' /\ FlagCounted'
  BY <1>1, <1>4 DEF Addressed, FlagCounted
<1>7. HeardAgain'
  BY <1>1, <1>2, SbTyped, HeardStays
<1>. QED BY <1>5, <1>6, <1>7

LEMMA RestartKeeps ==
  ASSUME IInv, NEW g \in Gateways, Restart(g)
  PROVE  IInv'
<1>. USE DEF IInv
<1>1. /\ g \notin up /\ up' = up \union {g} /\ due' = due \union {g}
      /\ IsActive' = [IsActive EXCEPT ![g] = StartsActive(g)]
      /\ pr' = IF g = Prim THEN [pr EXCEPT !.flag = Later(@, LastFlag)] ELSE pr
      /\ seen' = [seen EXCEPT !.dark = 0]
      /\ slot' = slot /\ sinceId' = sinceId /\ link' = link /\ linkUp' = linkUp /\ sb' = sb
      /\ faults' = faults
  BY DEF Restart
<1>2. IsActive' \in [Gateways -> BOOLEAN]
  <2>1. StartsActive(g) \in BOOLEAN
    BY DEF StartsActive
  <2>. QED BY <1>1, <2>1, TypesSplit
<1>3. seen' \in Observed /\ seen'.heard = seen.heard
  <2>1. seen \in Observed /\ 0 \in 0 .. MaxDark + 1
    BY TypesSplit, Periods
  <2>. QED BY <1>1, <2>1 DEF Observed
<1>4. pr' \in PrimaryState /\ FlagCounted'
  <2>1. CASE g = Stby
    <3>1. pr' = pr /\ (Prim \in up' <=> Prim \in up)
      BY <1>1, <2>1, FourNames
    <3>. QED BY <1>1, <3>1, TypesSplit DEF FlagCounted
  <2>2. CASE g = Prim
    <3>1. pr.flag < FirstFlag + faults.reloads + faults.crashes
      BY <1>1, <2>2 DEF FlagCounted
    <3>2. Later(pr.flag, LastFlag) = pr.flag + 1 /\ pr.flag + 1 \in FirstFlag .. LastFlag
          /\ pr.flag + 1 <= FirstFlag + faults.reloads + faults.crashes
      BY <3>1, PrTyped, FaultsTyped, Longests, Periods DEF FirstFlag, Later
    <3>3. pr' = [pr EXCEPT !.flag = pr.flag + 1]
      BY <1>1, <2>2, <3>2
    <3>4. pr' \in PrimaryState /\ pr'.flag = pr.flag + 1
      BY <3>2, <3>3, TypesSplit DEF PrimaryState
    <3>. QED BY <1>1, <2>2, <3>2, <3>4 DEF FlagCounted
  <2>. QED BY <2>1, <2>2, Pair
<1>5. TypeOK'
  BY <1>1, <1>2, <1>3, <1>4, TypesSplit DEF TypeOK, Observed
<1>6. Addressed'
  BY <1>1 DEF Addressed
<1>7. HeardAgain'
  BY <1>1, <1>3, SbTyped, HeardStays
<1>. QED BY <1>4, <1>5, <1>6, <1>7

LEMMA LinkKeeps ==
  ASSUME IInv, CutLink \/ HealLink
  PROVE  IInv'
<1>. USE DEF IInv
<1>1. /\ up' = up /\ IsActive' = IsActive /\ slot' = slot /\ due' = due /\ sinceId' = sinceId
      /\ pr' = pr /\ sb' = sb /\ seen' = seen /\ linkUp' \in BOOLEAN
      /\ link' = link \/ link' = [g \in Gateways |-> << >>]
      /\ \/ faults' = faults
         \/ faults.cuts < MaxCuts /\ faults' = [faults EXCEPT !.cuts = @ + 1]
  BY DEF CutLink, HealLink
<1>2. faults' \in Budget /\ faults'.reloads = faults.reloads /\ faults'.crashes = faults.crashes
  <2>1. CASE faults' = faults
    BY <2>1, TypesSplit
  <2>2. CASE faults.cuts < MaxCuts /\ faults' = [faults EXCEPT !.cuts = @ + 1]
    <3>1. faults.cuts + 1 \in 0 .. MaxCuts
      BY <2>2, FaultsTyped, Periods
    <3>. QED BY <2>2, <3>1, TypesSplit DEF Budget
  <2>. QED BY <1>1, <2>1, <2>2
<1>3. link' \in Links /\ Addressed'
  <2>1. CASE link' = link
    BY <2>1, LinkTyped DEF Addressed
  <2>2. CASE link' = [g \in Gateways |-> << >>]
    <3>1. link' \in Links /\ link'[Prim] = << >> /\ link'[Stby] = << >>
      BY <2>2, Pair DEF Links
    <3>. QED BY <3>1 DEF Addressed
  <2>. QED BY <1>1, <2>1, <2>2
<1>4. TypeOK'
  BY <1>1, <1>2, <1>3, TypesSplit DEF TypeOK, Budget, Links, Letter
<1>5. FlagCounted' /\ HeardAgain'
  BY <1>1, <1>2 DEF FlagCounted, HeardAgain, FromPrimary, PrimaryBack
<1>. QED BY <1>3, <1>4, <1>5

(* A second goes by.                                                         *)
LEMMA TickLeaves ==
  ASSUME TypeOK, Tick
  PROVE  /\ due = {} /\ due' = up /\ up' = up /\ IsActive' = IsActive /\ slot' = slot
         /\ linkUp' = linkUp /\ faults' = faults
         /\ sinceId' \in Clocks
         /\ Prim \in up => sinceId'[Prim] = sinceId[Prim] + 1
         /\ link' \in Links
         /\ \A g \in Gateways :
              /\ Len(link'[g]) = Len(link[g])
              /\ \A i \in 1..Len(link[g]) : /\ link'[g][i].body = link[g][i].body
                                            /\ link'[g][i].age = link[g][i].age + 1
         /\ pr' \in PrimaryState /\ pr'.flag = pr.flag
         /\ sb' \in StandbyState /\ sb'.state = sb.state /\ sb'.force = sb.force
         /\ sb'.sinceOK = sb.sinceOK \/ (sb'.sinceOK = sb.sinceOK + 1)
         /\ seen' \in Observed /\ seen'.heard = seen.heard
<1>1. /\ due = {} /\ due' = up /\ up' = up /\ IsActive' = IsActive /\ slot' = slot
      /\ linkUp' = linkUp /\ faults' = faults
      /\ sinceId' = [g \in Gateways |-> IF g \in up THEN Later(sinceId[g], ClusterInterval + 1) ELSE 0]
      /\ link' = [g \in Gateways |->
                    [i \in DOMAIN link[g] |-> [link[g][i] EXCEPT !.age = @ + 1]]]
      /\ pr' = IF Prim \in up THEN [pr EXCEPT !.sinceMsg = Later(@, RejectTime + 1)] ELSE pr
      /\ seen' = [seen EXCEPT
           !.dark = IF Covered \/ up = {} THEN 0 ELSE Later(@, MaxDark + 1),
           !.both = IF SplitBrain THEN Later(@, MaxBoth + 1) ELSE 0]
      /\ \A g \in Gateways : sinceId[g] <= ClusterInterval
      /\ \A g \in Gateways : \A i \in DOMAIN link[g] : link[g][i].age < MaxDelay
  BY DEF Tick, NothingPending
<1>2. sb' = IF Stby \in up
            THEN [sb EXCEPT !.inState = NextInState,
                            !.sinceOK = Later(@, hotcutovertime + 1),
                            !.sinceReq = Later(@, LongestReq)]
            ELSE sb
  BY DEF Tick
<1>3. \A n \in Nat, m \in Nat : n <= m => Later(n, m) \in 0..m
  BY DEF Later
<1>4. sinceId' \in Clocks /\ (Prim \in up => sinceId'[Prim] = sinceId[Prim] + 1)
  BY <1>1, TypesSplit, Periods, Pair DEF Clocks, Later
<1>5. /\ link' \in Links
      /\ \A g \in Gateways :
           /\ Len(link'[g]) = Len(link[g])
           /\ \A i \in 1..Len(link[g]) : /\ link'[g][i].body = link[g][i].body
                                         /\ link'[g][i].age = link[g][i].age + 1
  <2>1. ASSUME NEW g \in Gateways
        PROVE  /\ link'[g] \in Seq(Letter) /\ Len(link'[g]) = Len(link[g])
               /\ \A i \in 1..Len(link[g]) : /\ link'[g][i].body = link[g][i].body
                                             /\ link'[g][i].age = link[g][i].age + 1
    <3>1. link'[g] = [i \in DOMAIN link[g] |-> [link[g][i] EXCEPT !.age = @ + 1]]
      BY <1>1
    <3>2. link[g] \in Seq(Letter) /\ DOMAIN link[g] = 1..Len(link[g]) /\ Len(link[g]) \in Nat
      BY LinkTyped
    <3>3. ASSUME NEW i \in 1..Len(link[g])
          PROVE  /\ link'[g][i] \in Letter /\ link'[g][i].body = link[g][i].body
                 /\ link'[g][i].age = link[g][i].age + 1
      <4>1. link[g][i] \in Letter /\ link[g][i].age < MaxDelay
        BY <1>1, <3>2
      <4>2. link[g][i].age + 1 \in 0 .. MaxDelay
        BY <4>1, Periods DEF Letter
      <4>3. link'[g][i] = [link[g][i] EXCEPT !.age = link[g][i].age + 1]
        BY <3>1, <3>2
      <4>. QED BY <4>1, <4>2, <4>3 DEF Letter
    <3>4. /\ DOMAIN link'[g] = 1..Len(link[g]) /\ link'[g] \in [1..Len(link[g]) -> Letter]
          /\ \A i \in 1..Len(link[g]) : /\ link'[g][i].body = link[g][i].body
                                        /\ link'[g][i].age = link[g][i].age + 1
      BY <3>1, <3>2, <3>3
    <3>5. link'[g] \in Seq(Letter) /\ Len(link'[g]) = Len(link[g])
      BY <3>2, <3>4
    <3>. QED BY <3>4, <3>5
  <2>2. link' = [g \in Gateways |-> link'[g]]
    BY <1>1
  <2>. QED BY <2>1, <2>2 DEF Links
<1>6. pr' \in PrimaryState /\ pr'.flag = pr.flag
  <2>1. Later(pr.sinceMsg, RejectTime + 1) \in 0 .. RejectTime + 1
    BY <1>3, PrTyped, Periods
  <2>. QED BY <1>1, <2>1, TypesSplit DEF PrimaryState
<1>7. NextInState \in 0 .. LongestIn
  <2>1. Later(sb.inState, LongestIn) \in 0 .. LongestIn
    BY <1>3, SbTyped, Longests
  <2>2. (sb.inState + 1) % RemindTime \in 0 .. LongestIn
    <3>1. \A a \in Nat, b \in Nat \ {0} : a % b \in 0 .. b - 1
      OBVIOUS
    <3>. PICK a \in Nat : a = sb.inState + 1
      BY SbTyped
    <3>2. (sb.inState + 1) % RemindTime \in 0 .. RemindTime - 1
      <4>1. a % RemindTime \in 0 .. RemindTime - 1
        BY <3>1, Periods
      <4>. QED BY <4>1
    <3>. QED BY <3>2, Longests, Periods
  <2>. QED BY <2>1, <2>2 DEF NextInState
<1>8. /\ sb' \in StandbyState /\ sb'.state = sb.state /\ sb'.force = sb.force
      /\ sb'.sinceOK = sb.sinceOK \/ (sb'.sinceOK = sb.sinceOK + 1)
  <2>. DEFINE n == NextInState
              k == Later(sb.sinceOK, hotcutovertime + 1)
              q == Later(sb.sinceReq, LongestReq)
  <2>1. n \in 0 .. LongestIn /\ k \in Silence /\ q \in 0 .. LongestReq
    BY <1>3, <1>7, SbTyped, Periods, Longests DEF Silence
  <2>2. k = sb.sinceOK \/ k = sb.sinceOK + 1
    BY DEF Later
  <2>3. sb' = IF Stby \in up THEN [sb EXCEPT !.inState = n, !.sinceOK = k, !.sinceReq = q] ELSE sb
    BY <1>2
  <2>. HIDE DEF n, k, q
  <2>4. CASE Stby \in up
    BY <2>1, <2>2, <2>3, <2>4, TypesSplit DEF StandbyState
  <2>5. CASE Stby \notin up
    BY <2>3, <2>5, TypesSplit
  <2>. QED BY <2>4, <2>5
<1>9. seen' \in Observed /\ seen'.heard = seen.heard
  <2>1. /\ seen \in Observed /\ seen.dark \in Nat /\ seen.dark <= MaxDark + 1
        /\ seen.both \in Nat /\ seen.both <= MaxBoth + 1
    BY TypesSplit, Periods DEF Observed
  <2>. DEFINE d == IF Covered \/ up = {} THEN 0 ELSE Later(seen.dark, MaxDark + 1)
              t == IF SplitBrain THEN Later(seen.both, MaxBoth + 1) ELSE 0
  <2>2. d \in 0 .. MaxDark + 1 /\ t \in 0 .. MaxBoth + 1
    BY <1>3, <2>1, Periods
  <2>3. seen' = [seen EXCEPT !.dark = d, !.both = t]
    BY <1>1
  <2>. HIDE DEF d, t
  <2>. QED BY <2>1, <2>2, <2>3 DEF Observed
<1>. QED BY <1>1, <1>4, <1>5, <1>6, <1>8, <1>9

LEMMA TickKeeps ==
  ASSUME IInv, Tick
  PROVE  IInv'
<1>. USE DEF IInv
<1>1. /\ due' = up /\ up' = up /\ IsActive' = IsActive /\ slot' = slot
      /\ linkUp' = linkUp /\ faults' = faults /\ sinceId' \in Clocks /\ link' \in Links
      /\ pr' \in PrimaryState /\ pr'.flag = pr.flag
      /\ sb' \in StandbyState /\ sb'.state = sb.state
      /\ sb'.sinceOK = sb.sinceOK \/ (sb'.sinceOK = sb.sinceOK + 1)
      /\ seen' \in Observed /\ seen'.heard = seen.heard
  BY TickLeaves
<1>2. \A g \in Gateways : /\ Len(link'[g]) = Len(link[g])
                          /\ \A i \in 1..Len(link[g]) : link'[g][i].body = link[g][i].body
  BY TickLeaves
<1>3. TypeOK'
  BY <1>1, TypesSplit DEF TypeOK, Clocks, Links, Letter, Observed
<1>4. Addressed'
  BY <1>2, Pair DEF Addressed
<1>5. FlagCounted'
  BY <1>1, FlagStays
<1>6. HeardAgain'
  BY <1>1, SbTyped, HeardStays
<1>. QED BY <1>3, <1>4, <1>5, <1>6

LEMMA NextKeeps ==
  ASSUME IInv, [Next]_vars
  PROVE  IInv'
<1>1. CASE UNCHANGED vars
  BY <1>1 DEF vars, IInv, TypeOK, Addressed, FlagCounted, HeardAgain, FromPrimary, PrimaryBack
<1>2. CASE CommStep
  BY <1>2, IdentifierKeeps, MessageInKeeps DEF CommStep
<1>3. CASE SendReply \/ PrimaryPass
  BY <1>3, ReplyKeeps, PrimaryPassKeeps
<1>4. CASE StandbyStep
  BY <1>4, PassKeeps, MergeCrashKeeps
<1>5. CASE TablesReloaded \/ ForceTakeOver \/ \E g \in Gateways : SetActive(g)
  BY <1>5, CommandsKeep
<1>6. CASE Tick \/ ReloadPrimaryTables
  BY <1>6, TickKeeps, ReloadKeeps
<1>7. CASE Fault
  BY <1>7, CrashKeeps, RestartKeeps, LinkKeeps DEF Fault
<1>8. CASE \E g \in Gateways : OtherSiteMessageIn(g)
  BY <1>8, OtherSiteKeeps
<1>. QED BY <1>1, <1>2, <1>3, <1>4, <1>5, <1>6, <1>7, <1>8 DEF Next, Operator

(* The types, whose identifiers reach whom, how far the flag has counted and  *)
(* what was heard since the take-over began hold in every reachable state.    *)
THEOREM Invariance == Spec => []IInv
<1>1. Init => IInv
  BY FirstInvariant
<1>2. IInv /\ [Next]_vars => IInv'
  BY NextKeeps
<1>. QED BY <1>1, <1>2, PTL DEF Spec

(* Every variable keeps its type, the timers and the flag their bounds        *)
(* whatever crashes and reloads happen.                                       *)
THEOREM TypeCorrectness == Spec => []TypeOK
<1>1. IInv => TypeOK
  BY DEF IInv
<1>. QED BY <1>1, Invariance, PTL

(* HandBackOver ends only after the primary was heard since the take-over     *)
(* began, whatever third gateways send meanwhile.                             *)
THEOREM RoleGoesBackToAPrimaryHeard == Spec => HandBackOnlyToAPrimaryHeard
<1>1. IInv => (sb.state = "HandBackOver" /\ sb'.state = "Startup" => seen.heard)
  BY DEF IInv, HeardAgain
<1>2. IInv /\ [Next]_vars => [sb.state = "HandBackOver" /\ sb'.state = "Startup" => seen.heard]_vars
  BY <1>1
<1>. QED BY <1>2, Invariance, PTL DEF Spec, HandBackOnlyToAPrimaryHeard

-------------------------------------------------------------------------------
(* A primary that runs is left alone.  Nothing fails and nobody commands, but *)
(* messages are delayed, tables are reloaded and read with any outcome, the   *)
(* database connects or not, and the two loops interleave in any way.  The    *)
(* cut-over time must cover the period of the identifiers (they leave when    *)
(* the period is exceeded, hence the 1), the delay of one and the second it   *)
(* may wait in the buffer.                                                    *)

Quiet ==
  /\ MaxCrashes = 0 /\ MaxCuts = 0 /\ MaxCommands = 0
  /\ ~OtherSites /\ (RouteTableAllocated \/ TRUE \notin ConnectOutcomes)
  /\ hotcutovertime >= ClusterInterval + MaxDelay + 2

(* The merge never kills the standby: there is a table to merge into, or     *)
(* nothing to merge.                                                         *)
NoMergeCrash ==
  RouteTableAllocated \/ (~sb.connected /\ sb.state \notin {"Synchronizing", "MergeTables"})

LEMMA HealthyMeaning ==
  ASSUME HInv, Quiet
  PROVE  /\ Longest \in Nat /\ hotcutovertime >= Longest + 1
         /\ ~PrimaryLost
         /\ slot[Stby] # None => FromPrimary
<1>1. Longest \in Nat /\ hotcutovertime >= Longest + 1
  BY Periods DEF Quiet, Longest
<1>2. sb.sinceOK <= Longest + 1
  <2>1. sb.sinceOK \in Nat
    BY SbTyped DEF HInv, IInv
  <2>2. CASE slot[Stby] # None
    BY <1>1, <2>1, <2>2 DEF HInv, Timely
  <2>3. CASE slot[Stby] = None
    <3>1. sinceId[Prim] <= ClusterInterval + 1 /\ sinceId[Prim] \in Nat
      BY TypesSplit, Pair, Periods DEF HInv, IInv, Clocks
    <3>2. \A i \in 1..Len(link[Stby]) : link[Stby][i].age \in 0 .. MaxDelay
      <4>1. link[Stby] \in Seq(Letter)
        BY LinkTyped, Pair DEF HInv, IInv
      <4>2. \A i \in 1..Len(link[Stby]) : link[Stby][i] \in Letter
        BY <4>1
      <4>. QED BY <4>2 DEF Letter
    <3>3. sb.sinceOK <= ClusterInterval + 1 + MaxDelay
      BY <2>1, <2>3, <3>1, <3>2, Periods DEF HInv, Timely
    <3>. QED BY <1>1, <2>1, <3>3 DEF Longest
  <2>. QED BY <2>2, <2>3
<1>3. ~PrimaryLost
  BY <1>1, <1>2, SbTyped, Periods DEF PrimaryLost, HInv, IInv
<1>4. slot[Stby] # None => FromPrimary
  BY DEF HInv, AllWell, FromPrimary
<1>. QED BY <1>1, <1>3, <1>4

LEMMA FirstHealthy == Init => HInv
<1>. SUFFICES ASSUME Init PROVE HInv
  OBVIOUS
<1>1. IInv
  BY FirstInvariant
<1>2. /\ IsActive[Prim] = TRUE /\ IsActive[Stby] = FALSE /\ slot[Stby] = None /\ sb.sinceOK = 0
      /\ sinceId[Prim] = 0 /\ up = Gateways /\ linkUp /\ sb.state = "Reset" /\ sb.force = FALSE
      /\ Len(link[Prim]) = 0
  BY Pair, FourNames DEF Init, StartsActive, FreshStandby
<1>3. HealthyPrimaryKept /\ Timely /\ AllWell
  BY <1>2 DEF HealthyPrimaryKept, Timely, AllWell, TakenOver
<1>. QED BY <1>1, <1>3 DEF HInv

(* A letter that does not carry an identifier, or one that does, is added or  *)
(* taken without making the standby's last news older.                        *)
News(s) == \E i \in 1..Len(s) : /\ s[i].body.kind = "site"
                                /\ sb.sinceOK <= ClusterInterval + 1 + s[i].age

LEMMA NewsStays ==
  ASSUME NEW s \in Seq(Letter), NEW l \in Letter, News(s)
  PROVE  News(Append(s, l))
<1>1. PICK i \in 1..Len(s) : s[i].body.kind = "site" /\ sb.sinceOK <= ClusterInterval + 1 + s[i].age
  BY DEF News
<1>2. i \in 1..Len(Append(s, l)) /\ Append(s, l)[i] = s[i]
  OBVIOUS
<1>. QED BY <1>1, <1>2 DEF News

LEMMA NewsOfALetter ==
  ASSUME NEW s \in Seq(Letter), NEW l \in Letter, l.body.kind = "site",
         sb.sinceOK <= ClusterInterval + 1 + l.age
  PROVE  News(Append(s, l))
<1>1. Len(s) + 1 \in 1..Len(Append(s, l)) /\ Append(s, l)[Len(s) + 1] = l
  OBVIOUS
<1>. QED BY <1>1 DEF News

LEMMA NewsBehindAnother ==
  ASSUME NEW s \in Seq(Letter), s # << >>, News(s), Head(s).body.kind # "site"
  PROVE  News(Tail(s))
<1>1. PICK i \in 1..Len(s) : s[i].body.kind = "site" /\ sb.sinceOK <= ClusterInterval + 1 + s[i].age
  BY DEF News
<1>2. i # 1 /\ Len(s) \in Nat
  BY <1>1
<1>3. i - 1 \in 1..Len(Tail(s)) /\ Tail(s)[i - 1] = s[i]
  BY <1>2
<1>. QED BY <1>1, <1>3 DEF News

(* No letter to the primary tells it to yield or to take the role.           *)
Calm(s) == \A i \in 1..Len(s) : s[i].body.kind \notin {"be_inactive", "be_active"}

LEMMA CalmStays ==
  ASSUME NEW s \in Seq(Letter), NEW l \in Letter, Calm(s),
         l.body.kind \notin {"be_inactive", "be_active"}
  PROVE  Calm(Append(s, l))
<1>1. \A i \in 1..Len(Append(s, l)) :
        Append(s, l)[i] = l \/ (i \in 1..Len(s) /\ Append(s, l)[i] = s[i])
  OBVIOUS
<1>. QED BY <1>1 DEF Calm

LEMMA CalmTail ==
  ASSUME NEW s \in Seq(Letter), Calm(s), s # << >>
  PROVE  Calm(Tail(s)) /\ Head(s).body.kind \notin {"be_inactive", "be_active"}
<1>1. Len(s) \in Nat /\ Len(s) >= 1 /\ Head(s) = s[1]
  OBVIOUS
<1>2. Len(Tail(s)) = Len(s) - 1 /\ \A i \in 1..Len(Tail(s)) : Tail(s)[i] = s[i+1]
  OBVIOUS
<1>. QED BY <1>1, <1>2 DEF Calm

(* HInv in the terms of the lemmas above, and what a step has to show.       *)
LEMMA HealthySplit ==
  ASSUME HInv
  PROVE  /\ TypeOK /\ up = Gateways /\ linkUp /\ Calm(link[Prim])
         /\ sb.state \notin TakenOver \cup {"TakingOver"} /\ ~sb.force
         /\ slot[Stby] # None => slot[Stby].from = Prim
         /\ slot[Stby] # None => sb.sinceOK <= Longest + (IF Stby \in due THEN 1 ELSE 0)
         /\ slot[Stby] = None => sb.sinceOK <= sinceId[Prim] \/ News(link[Stby])
         /\ IsActive[Prim] /\ ~IsActive[Stby]
BY DEF HInv, IInv, AllWell, Timely, News, Calm, HealthyPrimaryKept

LEMMA HealthyAgain ==
  ASSUME IInv', up' = Gateways, linkUp', Calm(link'[Prim]),
         sb'.state \notin TakenOver \cup {"TakingOver"}, ~sb'.force,
         slot'[Stby] # None => slot'[Stby].from = Prim,
         slot'[Stby] # None => sb'.sinceOK <= Longest + (IF Stby \in due' THEN 1 ELSE 0),
         slot'[Stby] = None =>
           \/ sb'.sinceOK <= sinceId'[Prim]
           \/ \E i \in 1..Len(link'[Stby]) : /\ link'[Stby][i].body.kind = "site"
                                             /\ sb'.sinceOK <= ClusterInterval + 1 + link'[Stby][i].age,
         IsActive'[Prim], ~IsActive'[Stby]
  PROVE  HInv'
BY DEF HInv, AllWell, Timely, Calm, HealthyPrimaryKept

LEMMA HealthyMessages ==
  ASSUME HInv, Quiet, NEW g \in Gateways, SendIdentifier(g) \/ InterSiteMessageIn(g), IInv'
  PROVE  HInv'
<1>1. /\ TypeOK /\ up = Gateways /\ linkUp /\ Calm(link[Prim])
      /\ sb.state \notin TakenOver \cup {"TakingOver"} /\ ~sb.force
      /\ slot[Stby] # None => slot[Stby].from = Prim
      /\ slot[Stby] # None => sb.sinceOK <= Longest + (IF Stby \in due THEN 1 ELSE 0)
      /\ slot[Stby] = None => sb.sinceOK <= sinceId[Prim] \/ News(link[Stby])
      /\ IsActive[Prim] /\ ~IsActive[Stby]
  BY HealthySplit
<1>2. /\ link[Prim] \in Seq(Letter) /\ link[Stby] \in Seq(Letter) /\ link \in Links
      /\ sinceId[Prim] \in Nat /\ sinceId[Prim] <= ClusterInterval + 1
      /\ sb.sinceOK \in Nat
  BY <1>1, LinkTyped, Pair, TypesSplit, SbTyped, Periods DEF Clocks
<1>3. CASE SendIdentifier(g)
  <2>1. /\ sinceId' = [sinceId EXCEPT ![g] = 0]
        /\ Send(Peer(g), [kind |-> "site", msg |-> [from |-> g, isactive |-> IsActive[g], flag |-> pr.flag]])
        /\ up' = up /\ IsActive' = IsActive /\ slot' = slot /\ due' = due /\ linkUp' = linkUp
        /\ sb' = sb
    BY <1>3 DEF SendIdentifier
  <2>2. [from |-> g, isactive |-> IsActive[g], flag |-> pr.flag] \in SiteMessage
    BY <1>1, PrTyped, TypesSplit DEF SiteMessage, Sites
  <2>3. PICK m \in SiteMessage : m = [from |-> g, isactive |-> IsActive[g], flag |-> pr.flag]
    BY <2>2
  <2>. DEFINE b == [kind |-> "site", msg |-> m]
              h == Peer(g)
  <2>4. b \in Body /\ b.kind = "site" /\ Send(h, b) /\ h \in Gateways /\ h # g
    BY <2>1, <2>3, Bodies, Pair, FourNames
  <2>. HIDE DEF b, h
  <2>. DEFINE l == [body |-> b, age |-> 0]
  <2>5. link'[h] = Append(link[h], l) /\ link'[g] = link[g]
    BY <1>1, <1>2, <2>4, SendSends
  <2>6. l \in Letter /\ l.body.kind = "site" /\ l.age = 0
    BY <2>4, Periods DEF Letter
  <2>. HIDE DEF l
  <2>7. Calm(link'[Prim])
    <3>1. CASE g = Prim
      BY <1>1, <2>5, <3>1
    <3>2. CASE h = Prim
      BY <1>1, <1>2, <2>5, <2>6, <3>2, CalmStays
    <3>. QED BY <2>4, <3>1, <3>2, Pair
  <2>8. slot[Stby] = None => sb.sinceOK <= sinceId'[Prim] \/ News(link'[Stby])
    <3>1. CASE g = Prim
      <4>1. h = Stby
        BY <2>4, <3>1, Pair
      <4>2. sb.sinceOK <= sinceId[Prim] => News(Append(link[Stby], l))
        BY <1>2, <2>6, Periods, NewsOfALetter
      <4>3. News(link[Stby]) => News(Append(link[Stby], l))
        BY <1>2, <2>6, NewsStays
      <4>. QED BY <1>1, <2>5, <4>1, <4>2, <4>3
    <3>2. CASE g = Stby
      <4>1. sinceId'[Prim] = sinceId[Prim] /\ link'[Stby] = link[Stby]
        BY <1>1, <2>1, <2>5, <3>2, FourNames, Pair, TypesSplit DEF Clocks
      <4>. QED BY <1>1, <4>1
    <3>. QED BY <3>1, <3>2, Pair
  <2>. QED BY <1>1, <2>1, <2>7, <2>8, HealthyAgain DEF News
<1>4. CASE InterSiteMessageIn(g)
  <2>1. /\ link[g] # << >> /\ link' = [link EXCEPT ![g] = Tail(link[g])]
        /\ up' = up /\ due' = due /\ sinceId' = sinceId /\ linkUp' = linkUp
    BY <1>4 DEF InterSiteMessageIn
  <2>2. Head(link[g]) \in Letter /\ Head(link[g]).body \in Body
    <3>1. link[g] \in Seq(Letter)
      BY <1>1, LinkTyped
    <3>2. Head(link[g]) \in Letter
      BY <2>1, <3>1
    <3>. QED BY <3>2 DEF Letter
  <2>3. PICK body \in Body : body = Head(link[g]).body
    BY <2>2
  <2>4. SiteMessageIn(g, body) \/ QueryIn(g, body) \/ ReplyIn(g, body) \/ CommandIn(g, body)
    <3>1. LET bb == Head(link[g]).body
          IN  SiteMessageIn(g, bb) \/ QueryIn(g, bb) \/ ReplyIn(g, bb) \/ CommandIn(g, bb)
      BY <1>4 DEF InterSiteMessageIn
    <3>. QED BY <2>3, <3>1 DEF SiteMessageIn, QueryIn, ReplyIn, CommandIn
  <2>5. CASE g = Prim
    <3>1. Calm(Tail(link[Prim])) /\ body.kind \notin {"be_inactive", "be_active"}
      BY <1>1, <1>2, <2>1, <2>3, <2>5, CalmTail
    <3>2. link'[Prim] = Tail(link[Prim]) /\ link'[Stby] = link[Stby]
      BY <1>2, <2>1, <2>5, FourNames, Pair DEF Links
    <3>3. sb' = sb /\ IsActive' = IsActive /\ slot'[Stby] = slot[Stby]
      BY <1>1, <2>4, <2>5, <3>1, FourNames, Pair, TypesSplit
         DEF SiteMessageIn, QueryIn, ReplyIn, CommandIn, Buffers
    <3>. QED BY <1>1, <2>1, <3>1, <3>2, <3>3, HealthyAgain DEF News
  <2>6. CASE g = Stby
    <3>1. link'[Prim] = link[Prim] /\ link'[Stby] = Tail(link[Stby])
      BY <1>2, <2>1, <2>6, FourNames, Pair DEF Links
    <3>2. IsActive' = IsActive /\ (SiteMessageIn(g, body) \/ ReplyIn(g, body))
      BY <2>4, <2>6, FourNames DEF SiteMessageIn, QueryIn, ReplyIn, CommandIn
    <3>3. sb'.state = sb.state /\ sb'.force = sb.force /\ sb'.sinceOK = sb.sinceOK
      <4>1. sb \in StandbyState
        BY <1>1, TypesSplit
      <4>. QED BY <2>6, <3>2, <4>1 DEF SiteMessageIn, ReplyIn, StandbyState
    <3>4. CASE SiteMessageIn(g, body)
      <4>1. body.kind = "site" /\ slot' = [slot EXCEPT ![Stby] = [body.msg EXCEPT !.flag = ParsedFlag(@)]]
        BY <2>6, <3>4 DEF SiteMessageIn
      <4>2. body.msg.from = Prim /\ body.msg \in SiteMessage
        <5>1. AllFrom(link[Stby], Prim)
          BY AddressedSplit DEF HInv, IInv
        <5>. QED BY <1>2, <2>1, <2>3, <2>6, <4>1, <5>1, TailFrom, Bodies
      <4>3. slot'[Stby].from = Prim /\ slot'[Stby] # None
        <5>. DEFINE m == [body.msg EXCEPT !.flag = ParsedFlag(@)]
        <5>1. m \in SiteMessage /\ m.from = Prim
          <6>1. 0 \in Flags /\ 1 \in Flags
            BY Longests DEF Flags
          <6>. QED BY <4>2, <6>1 DEF ParsedFlag, SiteMessage
        <5>2. slot' = [slot EXCEPT ![Stby] = m]
          BY <4>1
        <5>. HIDE DEF m
        <5>3. slot'[Stby] = m
          BY <1>1, <5>2, TypesSplit, Pair DEF Buffers
        <5>. QED BY <5>1, <5>3, Pair
      <4>4. slot[Stby] = None => sb.sinceOK <= Longest
        <5>1. News(link[Stby]) => sb.sinceOK <= Longest
          <6>1. \A i \in 1..Len(link[Stby]) : link[Stby][i] \in Letter
            BY <1>2
          <6>. QED BY <1>2, <6>1, Periods DEF News, Letter, Longest
        <5>. QED BY <1>1, <1>2, <5>1, Periods DEF Longest
      <4>5. sb'.sinceOK <= Longest + (IF Stby \in due' THEN 1 ELSE 0)
        <5>1. Longest \in Nat
          BY HealthyMeaning
        <5>. QED BY <1>1, <1>2, <2>1, <3>3, <4>4, <5>1
      <4>. QED BY <1>1, <2>1, <3>1, <3>2, <3>3, <4>3, <4>5, HealthyAgain
    <3>5. CASE ReplyIn(g, body)
      <4>1. body.kind = "reply" /\ slot' = slot
        BY <3>5 DEF ReplyIn
      <4>2. News(link[Stby]) => News(Tail(link[Stby]))
        BY <1>2, <2>1, <2>3, <2>6, <4>1, NewsBehindAnother
      <4>3. slot'[Stby] = None =>
              \/ sb'.sinceOK <= sinceId'[Prim]
              \/ \E i \in 1..Len(link'[Stby]) : /\ link'[Stby][i].body.kind = "site"
                                                /\ sb'.sinceOK <= ClusterInterval + 1 + link'[Stby][i].age
        BY <1>1, <2>1, <3>1, <3>3, <4>1, <4>2 DEF News
      <4>4. slot'[Stby] # None => sb'.sinceOK <= Longest + (IF Stby \in due' THEN 1 ELSE 0)
        BY <1>1, <2>1, <3>3, <4>1
      <4>. QED BY <1>1, <2>1, <3>1, <3>2, <3>3, <4>1, <4>3, <4>4, HealthyAgain
    <3>. QED BY <3>2, <3>4, <3>5
  <2>. QED BY <2>5, <2>6, Pair
<1>. QED BY <1>3, <1>4

LEMMA HealthyPrimarySteps ==
  ASSUME HInv, Quiet, SendReply \/ PrimaryPass \/ ReloadPrimaryTables \/ TablesReloaded, IInv'
  PROVE  HInv'
<1>1. /\ TypeOK /\ up = Gateways /\ linkUp /\ Calm(link[Prim])
      /\ sb.state \notin TakenOver \cup {"TakingOver"} /\ ~sb.force
      /\ slot[Stby] # None => slot[Stby].from = Prim
      /\ slot[Stby] # None => sb.sinceOK <= Longest + (IF Stby \in due THEN 1 ELSE 0)
      /\ slot[Stby] = None => sb.sinceOK <= sinceId[Prim] \/ News(link[Stby])
      /\ IsActive[Prim] /\ ~IsActive[Stby]
  BY HealthySplit
<1>2. /\ link[Prim] \in Seq(Letter) /\ link[Stby] \in Seq(Letter) /\ link \in Links
  BY <1>1, LinkTyped, Pair
<1>3. CASE SendReply
  <2>1. /\ Send(Stby, [kind |-> "reply", flag |-> pr.reply])
        /\ up' = up /\ IsActive' = IsActive /\ slot' = slot /\ due' = due /\ sinceId' = sinceId
        /\ linkUp' = linkUp /\ sb' = sb
    BY <1>3 DEF SendReply
  <2>2. PICK f \in Flags : f = pr.reply
    BY <1>1, PrTyped
  <2>. DEFINE b == [kind |-> "reply", flag |-> f]
  <2>3. b \in Body /\ Send(Stby, b)
    BY <2>1, <2>2, Bodies
  <2>. HIDE DEF b
  <2>. DEFINE l == [body |-> b, age |-> 0]
  <2>4. link'[Stby] = Append(link[Stby], l) /\ link'[Prim] = link[Prim]
    BY <1>1, <1>2, <2>3, SendSends, Pair, FourNames
  <2>5. l \in Letter
    BY <2>3, Periods DEF Letter
  <2>. HIDE DEF l
  <2>6. News(link[Stby]) => News(link'[Stby])
    BY <1>2, <2>4, <2>5, NewsStays
  <2>. QED BY <1>1, <2>1, <2>4, <2>6, HealthyAgain DEF News
<1>4. CASE PrimaryPass
  <2>1. /\ due' = due \ {Prim} /\ slot' = [slot EXCEPT ![Prim] = None]
        /\ IsActive' = [IsActive EXCEPT ![Prim] =
             \/ @
             \/ slot[Prim] # None /\ NoActiveGateway(slot[Prim])
             \/ slot[Prim] = None /\ StandbySilent]
        /\ up' = up /\ sinceId' = sinceId /\ link' = link /\ linkUp' = linkUp /\ sb' = sb
    BY <1>4 DEF PrimaryPass
  <2>2. slot'[Stby] = slot[Stby] /\ (Stby \in due' <=> Stby \in due)
    BY <1>1, <2>1, FourNames, Pair, TypesSplit DEF Buffers
  <2>3. IsActive'[Prim] /\ ~IsActive'[Stby]
    <3>1. IsActive \in [Gateways -> BOOLEAN] /\ IsActive[Prim] = TRUE
      BY <1>1, TypesSplit, Pair
    <3>2. IsActive' = [IsActive EXCEPT ![Prim] = TRUE]
      BY <2>1, <3>1
    <3>. QED BY <1>1, <3>1, <3>2, FourNames, Pair
  <2>. QED BY <1>1, <2>1, <2>2, <2>3, HealthyAgain DEF News
<1>5. CASE ReloadPrimaryTables
  <2>1. /\ up' = up /\ IsActive' = IsActive /\ slot' = slot /\ due' = due /\ sinceId' = sinceId
        /\ link' = link /\ linkUp' = linkUp /\ sb' = sb
    BY <1>5 DEF ReloadPrimaryTables
  <2>. QED BY <1>1, <2>1, HealthyAgain DEF News
<1>6. CASE TablesReloaded
  <2>1. /\ up' = up /\ IsActive' = IsActive /\ slot' = slot /\ due' = due /\ sinceId' = sinceId
        /\ link' = link /\ linkUp' = linkUp /\ sb' = [sb EXCEPT !.reload = FALSE]
    BY <1>6 DEF TablesReloaded
  <2>2. sb'.state = sb.state /\ sb'.force = sb.force /\ sb'.sinceOK = sb.sinceOK
    BY <1>1, <2>1, TypesSplit DEF StandbyState
  <2>. QED BY <1>1, <2>1, <2>2, HealthyAgain DEF News
<1>. QED BY <1>3, <1>4, <1>5, <1>6

LEMMA HealthyPass ==
  ASSUME HInv, Quiet, NoMergeCrash, StandbyStep, IInv'
  PROVE  HInv' /\ NoMergeCrash'
<1>1. /\ TypeOK /\ up = Gateways /\ linkUp /\ Calm(link[Prim])
      /\ sb.state \notin TakenOver \cup {"TakingOver"} /\ ~sb.force
      /\ slot[Stby] # None => slot[Stby].from = Prim
      /\ slot[Stby] = None => sb.sinceOK <= sinceId[Prim] \/ News(link[Stby])
      /\ IsActive[Prim] /\ ~IsActive[Stby]
  BY HealthySplit
<1>2. ~PrimaryLost /\ (slot[Stby] # None => FromPrimary)
  BY HealthyMeaning
<1>3. ~MergeCrash
  BY DEF NoMergeCrash, MergeCrash
<1>4. PICK to \in StbySyncState : Onward(to)
  BY <1>1, <1>3, StandbyPasses
<1>5. /\ sb'.state = to /\ (sb'.force => sb.force) /\ sb'.sinceOK \in {ReadSlot.sinceOK, 0}
      /\ slot'[Stby] = None /\ up' = up /\ sinceId' = sinceId /\ linkUp' = linkUp
      /\ IsActive' = IsActive
      /\ to \notin TakenOver \cup {"TakingOver"}
  BY <1>1, <1>2, <1>4 DEF Onward, Advances, TakenOver
<1>6. link'[Stby] = link[Stby] /\ Calm(link'[Prim])
  <2>1. /\ link'[Stby] = link[Stby]
        /\ \/ link'[Prim] = link[Prim]
           \/ \E b \in Body : b.kind = "query" /\ link'[Prim] = Append(link[Prim], [body |-> b, age |-> 0])
    BY <1>1, <1>4, SendsLeave DEF Onward
  <2>2. ASSUME NEW b \in Body, b.kind = "query"
        PROVE  Calm(Append(link[Prim], [body |-> b, age |-> 0]))
    <3>. DEFINE l == [body |-> b, age |-> 0]
    <3>1. l \in Letter /\ l.body.kind = "query"
      BY <2>2, Periods DEF Letter
    <3>. HIDE DEF l
    <3>2. Calm(Append(link[Prim], l))
      BY <1>1, <3>1, LinkTyped, Pair, CalmStays
    <3>. QED BY <3>2 DEF l
  <2>. QED BY <1>1, <2>1, <2>2
<1>7. sinceId[Prim] \in Nat
  BY <1>1, TypesSplit, Pair, Periods DEF Clocks
<1>8. \/ sb'.sinceOK <= sinceId'[Prim]
      \/ \E i \in 1..Len(link'[Stby]) : /\ link'[Stby][i].body.kind = "site"
                                        /\ sb'.sinceOK <= ClusterInterval + 1 + link'[Stby][i].age
  <2>1. CASE sb'.sinceOK = 0
    BY <1>5, <1>7, <2>1
  <2>2. CASE sb'.sinceOK # 0
    <3>1. sb'.sinceOK = sb.sinceOK /\ slot[Stby] = None
      BY <1>1, <1>2, <1>5, <2>2, ReadSlotTyped
    <3>. QED BY <1>1, <1>5, <1>6, <3>1 DEF News
  <2>. QED BY <2>1, <2>2
<1>9. NoMergeCrash'
  BY <1>4 DEF Onward, Advances, Connects, Quiet, NoMergeCrash
<1>. QED BY <1>1, <1>5, <1>6, <1>8, <1>9, HealthyAgain

LEMMA HealthyTick ==
  ASSUME HInv, Quiet, Tick, IInv'
  PROVE  HInv'
<1>1. /\ TypeOK /\ up = Gateways /\ linkUp /\ Calm(link[Prim])
      /\ sb.state \notin TakenOver \cup {"TakingOver"} /\ ~sb.force
      /\ slot[Stby] # None => slot[Stby].from = Prim
      /\ slot[Stby] # None => sb.sinceOK <= Longest + (IF Stby \in due THEN 1 ELSE 0)
      /\ slot[Stby] = None => sb.sinceOK <= sinceId[Prim] \/ News(link[Stby])
      /\ IsActive[Prim] /\ ~IsActive[Stby]
  BY HealthySplit
<1>2. /\ due = {} /\ due' = up /\ up' = up /\ IsActive' = IsActive /\ slot' = slot
      /\ linkUp' = linkUp
      /\ Prim \in up => sinceId'[Prim] = sinceId[Prim] + 1
      /\ sb'.state = sb.state /\ sb'.force = sb.force
      /\ sb'.sinceOK = sb.sinceOK \/ (sb'.sinceOK = sb.sinceOK + 1)
  BY <1>1, TickLeaves
<1>3. \A g \in Gateways :
        /\ Len(link'[g]) = Len(link[g])
        /\ \A i \in 1..Len(link[g]) : /\ link'[g][i].body = link[g][i].body
                                      /\ link'[g][i].age = link[g][i].age + 1
  BY <1>1, TickLeaves
<1>4. /\ sb.sinceOK \in Nat /\ sinceId[Prim] \in Nat /\ Longest \in Nat /\ Prim \in up /\ Stby \in up
      /\ \A i \in 1..Len(link[Stby]) : link[Stby][i].age \in Nat
  <2>1. \A i \in 1..Len(link[Stby]) : link[Stby][i] \in Letter
    BY <1>1, LinkTyped, Pair
  <2>. QED BY <1>1, <2>1, SbTyped, TypesSplit, Pair, Periods, HealthyMeaning DEF Clocks, Letter
<1>5. Calm(link'[Prim])
  BY <1>1, <1>3, Pair DEF Calm
<1>6. slot'[Stby] # None => sb'.sinceOK <= Longest + (IF Stby \in due' THEN 1 ELSE 0)
  BY <1>1, <1>2, <1>4
<1>7. slot'[Stby] = None =>
        \/ sb'.sinceOK <= sinceId'[Prim]
        \/ \E i \in 1..Len(link'[Stby]) : /\ link'[Stby][i].body.kind = "site"
                                          /\ sb'.sinceOK <= ClusterInterval + 1 + link'[Stby][i].age
  <2>1. CASE sb.sinceOK <= sinceId[Prim]
    BY <1>2, <1>4, <2>1
  <2>2. CASE News(link[Stby])
    <3>1. PICK i \in 1..Len(link[Stby]) : /\ link[Stby][i].body.kind = "site"
                                          /\ sb.sinceOK <= ClusterInterval + 1 + link[Stby][i].age
      BY <2>2 DEF News
    <3>2. /\ i \in 1..Len(link'[Stby]) /\ link'[Stby][i].body.kind = "site"
          /\ link'[Stby][i].age = link[Stby][i].age + 1
      BY <1>3, <3>1, Pair
    <3>3. sb'.sinceOK <= ClusterInterval + 1 + link'[Stby][i].age
      BY <1>2, <1>4, <3>1, <3>2, Periods
    <3>. QED BY <3>2, <3>3
  <2>. QED BY <1>1, <1>2, <2>1, <2>2
<1>. QED BY <1>1, <1>2, <1>5, <1>6, <1>7, HealthyAgain

LEMMA NothingElseHappens ==
  ASSUME HInv, Quiet
  PROVE  ~Fault /\ ~ForceTakeOver /\ ~(\E g \in Gateways : SetActive(g) \/ OtherSiteMessageIn(g))
<1>1. up = Gateways /\ linkUp /\ TypeOK
  BY HealthySplit
<1>2. faults.crashes = 0 /\ faults.cuts = 0 /\ faults.commands = 0
  BY <1>1, FaultsTyped DEF Quiet
<1>3. ~OtherSites /\ MaxCrashes = 0 /\ MaxCuts = 0 /\ MaxCommands = 0
  BY DEF Quiet
<1>4. ~Fault
  <2>1. \A g \in Gateways : ~Crash(g) /\ ~Restart(g)
    <3>1. ~(faults.crashes < MaxCrashes)
      BY <1>2, <1>3
    <3>2. ASSUME NEW g \in Gateways PROVE ~Crash(g)
      BY <3>1 DEF Crash
    <3>3. ASSUME NEW g \in Gateways PROVE ~Restart(g)
      BY <1>1 DEF Restart
    <3>. QED BY <3>2, <3>3
  <2>2. ~CutLink /\ ~HealLink
    BY <1>1, <1>2, <1>3 DEF CutLink, HealLink
  <2>. QED BY <2>1, <2>2 DEF Fault
<1>5. ~ForceTakeOver /\ \A g \in Gateways : ~SetActive(g)
  <2>1. \A name : ~Command(name)
    BY <1>2, <1>3 DEF Command
  <2>. QED BY <2>1 DEF ForceTakeOver, SetActive
<1>6. \A g \in Gateways : ~OtherSiteMessageIn(g)
  BY <1>3 DEF OtherSiteMessageIn
<1>. QED BY <1>4, <1>5, <1>6

(* Outside its passes the state and the connection of the standby stay.       *)
LEMMA ConnectionStays ==
  ASSUME HInv, NoMergeCrash, SendReply \/ PrimaryPass \/ ReloadPrimaryTables \/ TablesReloaded
                             \/ Tick \/ \E g \in Gateways : SendIdentifier(g) \/ InterSiteMessageIn(g)
  PROVE  NoMergeCrash'
<1>1. sb \in StandbyState
  BY TypesSplit DEF HInv, IInv
<1>2. sb'.state = sb.state /\ sb'.connected = sb.connected
  BY <1>1 DEF SendReply, PrimaryPass, ReloadPrimaryTables, TablesReloaded, Tick, SendIdentifier,
     InterSiteMessageIn, SiteMessageIn, QueryIn, ReplyIn, CommandIn, StandbyState
<1>. QED BY <1>2 DEF NoMergeCrash

(* Without faults and commands the standby never takes the active role and    *)
(* never takes it from the primary, for any periods with enough cut-over time.*)
(* It must not die when it merges tables: the code allocates no route table,  *)
(* so this is a pair that has one, or a standby that cannot connect to the    *)
(* database of the primary.                                                   *)
THEOREM HealthyPrimaryIsKept ==
  ASSUME MaxCrashes = 0, MaxCuts = 0, MaxCommands = 0, ~OtherSites,
         RouteTableAllocated \/ TRUE \notin ConnectOutcomes,
         hotcutovertime >= ClusterInterval + MaxDelay + 2
  PROVE  Spec => []HealthyPrimaryKept
<1>1. Quiet
  BY DEF Quiet
<1>2. Init => HInv /\ NoMergeCrash
  <2>1. Init => ~sb.connected /\ sb.state = "Reset"
    BY DEF Init, FreshStandby
  <2>. QED BY <2>1, FirstHealthy DEF NoMergeCrash
<1>3. ASSUME HInv, NoMergeCrash, [Next]_vars PROVE HInv' /\ NoMergeCrash'
  <2>1. IInv'
    BY <1>3, NextKeeps DEF HInv
  <2>2. CASE UNCHANGED vars
    BY <1>3, <2>1, <2>2 DEF vars, HInv, HealthyPrimaryKept, Timely, AllWell, NoMergeCrash
  <2>3. CASE Next
    BY <1>1, <1>3, <2>1, <2>3, HealthyMessages, HealthyPrimarySteps, HealthyPass, HealthyTick,
       ConnectionStays, NothingElseHappens DEF Next, CommStep, Operator
  <2>. QED BY <1>3, <2>2, <2>3
<1>4. HInv => HealthyPrimaryKept
  BY DEF HInv
<1>. QED BY <1>2, <1>3, <1>4, PTL DEF Spec

-------------------------------------------------------------------------------
(* Both active.  What the gateways lose, by a cut or by a crash, costs at most *)
(* one identifier of the primary each time, and with it a period and the delay *)
(* of a message.  The identifier that arrives is read in the next pass, the    *)
(* pass after that one turns to HandBackOver, and HandBackOver waits.          *)

Lost == faults.cuts + faults.crashes
Cost == Lost * Longest

(* Why the standby that has taken over will yield soon, when the seconds with  *)
(* both active are no more than p and a wait: the next identifier is due, on   *)
(* its way, in the buffer, just read, or read a second ago.                    *)
YieldsSoon(p) ==
  \/ seen.both <= p + (IF linkUp THEN sinceId[Prim] ELSE 0)
  \/ \E i \in 1..Len(link[Stby]) :
       /\ link[Stby][i].body.kind = "site"
       /\ seen.both <= p + ClusterInterval + 1 + link[Stby][i].age
  \/ slot[Stby] # None /\ seen.both <= p + Longest + (IF Stby \in due THEN 1 ELSE 0)
  \/ sb.sinceOK = 0 /\ Stby \notin due /\ seen.both <= p + Longest + 1
  \/ sb.sinceOK = 1 /\ Stby \in due /\ seen.both <= p + Longest + 2

Yields(p) ==
  /\ slot[Stby] # None => slot[Stby].from = Prim
  /\ Stby \notin up => sb.state = "Reset"
  /\ seen.both <= p + Longest + HandoverDelay + 3
  /\ Stby \in due => sb.state \in {"RunActive", "HandBackOver", "Reset"} \/ seen.both = 0
  /\ sb.state = "HandBackOver" =>
       /\ seen.both <= p + Longest + 2 + sb.inState
       /\ sb.inState <= HandoverDelay + (IF Stby \in due THEN 1 ELSE 0)
  /\ sb.state = "RunActive" => YieldsSoon(p)

Together == \E p \in 0 .. Cost : Yields(p)

TInv == IInv /\ Together

LEMMA LongestIsNat == Longest \in Nat /\ Longest >= ClusterInterval + 1
BY Periods DEF Longest

LEMMA CostGrows ==
  ASSUME TypeOK
  PROVE  /\ Lost \in Nat /\ Cost \in Nat
         /\ Cost <= (MaxCuts + MaxCrashes) * Longest
         /\ Lost' = Lost => Cost' = Cost
         /\ Lost' = Lost + 1 => Cost' = Cost + Longest
<1>1. Lost \in Nat /\ Lost <= MaxCuts + MaxCrashes
  BY FaultsTyped, Periods DEF Lost
<1>2. \A n, m, k \in Nat : /\ n * k \in Nat /\ (n + 1) * k = n * k + k
                           /\ n <= m => n * k <= m * k
  OBVIOUS
<1>3. PICK n \in Nat : n = Lost
  BY <1>1
<1>4. MaxCuts + MaxCrashes \in Nat
  BY Periods
<1>5. n * Longest \in Nat /\ (n + 1) * Longest = n * Longest + Longest
      /\ n * Longest <= (MaxCuts + MaxCrashes) * Longest
  BY <1>1, <1>2, <1>3, <1>4, LongestIsNat
<1>6. Cost = n * Longest
  BY <1>3 DEF Cost
<1>7. Lost' = Lost => Cost' = n * Longest
  BY <1>3 DEF Cost, Longest
<1>8. Lost' = Lost + 1 => Cost' = (n + 1) * Longest
  BY <1>3 DEF Cost, Longest
<1>. QED BY <1>1, <1>5, <1>6, <1>7, <1>8

(* What a second changes besides: the timers, and what is observed.          *)
LEMMA TickClocks ==
  ASSUME TypeOK, Tick
  PROVE  /\ \A g \in Gateways : sinceId[g] <= ClusterInterval
         /\ \A g \in Gateways : \A i \in 1..Len(link[g]) : link[g][i].age < MaxDelay
         /\ Stby \in up =>
              /\ sb'.sinceOK = Later(sb.sinceOK, hotcutovertime + 1)
              /\ sb'.sinceReq = Later(sb.sinceReq, LongestReq)
              /\ sb.state # "RunActive" => sb'.inState = Later(sb.inState, LongestIn)
         /\ Stby \notin up => sb' = sb
         /\ sb'.credFails = sb.credFails /\ sb'.credsOK = sb.credsOK /\ sb'.heard = sb.heard
         /\ Prim \in up => pr'.sinceMsg = Later(pr.sinceMsg, RejectTime + 1)
         /\ pr'.standby = pr.standby /\ pr'.reply = pr.reply
         /\ seen'.dark = IF Covered \/ up = {} THEN 0 ELSE Later(seen.dark, MaxDark + 1)
         /\ seen'.both = IF SplitBrain THEN Later(seen.both, MaxBoth + 1) ELSE 0
<1>1. /\ pr' = IF Prim \in up THEN [pr EXCEPT !.sinceMsg = Later(@, RejectTime + 1)] ELSE pr
      /\ seen' = [seen EXCEPT
           !.dark = IF Covered \/ up = {} THEN 0 ELSE Later(@, MaxDark + 1),
           !.both = IF SplitBrain THEN Later(@, MaxBoth + 1) ELSE 0]
      /\ \A g \in Gateways : sinceId[g] <= ClusterInterval
      /\ \A g \in Gateways : \A i \in DOMAIN link[g] : link[g][i].age < MaxDelay
      /\ sb' = IF Stby \in up
               THEN [sb EXCEPT !.inState = NextInState,
                               !.sinceOK = Later(@, hotcutovertime + 1),
                               !.sinceReq = Later(@, LongestReq)]
               ELSE sb
  BY DEF Tick, NothingPending
<1>2. \A g \in Gateways : \A i \in 1..Len(link[g]) : link[g][i].age < MaxDelay
  <2>1. \A g \in Gateways : DOMAIN link[g] = 1..Len(link[g])
    BY LinkTyped
  <2>. QED BY <1>1, <2>1
<1>3. /\ Stby \in up =>
              /\ sb'.sinceOK = Later(sb.sinceOK, hotcutovertime + 1)
              /\ sb'.sinceReq = Later(sb.sinceReq, LongestReq)
              /\ sb'.inState = NextInState
      /\ sb'.credFails = sb.credFails /\ sb'.credsOK = sb.credsOK /\ sb'.heard = sb.heard
  <2>1. sb \in StandbyState
    BY TypesSplit
  <2>. DEFINE a == NextInState
              b == Later(sb.sinceOK, hotcutovertime + 1)
              c == Later(sb.sinceReq, LongestReq)
  <2>2. sb' = IF Stby \in up THEN [sb EXCEPT !.inState = a, !.sinceOK = b, !.sinceReq = c] ELSE sb
    BY <1>1
  <2>. HIDE DEF a, b, c
  <2>3. /\ Stby \in up => sb'.sinceOK = b /\ sb'.sinceReq = c /\ sb'.inState = a
        /\ sb'.credFails = sb.credFails /\ sb'.credsOK = sb.credsOK /\ sb'.heard = sb.heard
    BY <2>1, <2>2 DEF StandbyState
  <2>. QED BY <2>3 DEF a, b, c
<1>4. sb.state # "RunActive" => NextInState = Later(sb.inState, LongestIn)
  BY DEF NextInState
<1>5. /\ Prim \in up => pr'.sinceMsg = Later(pr.sinceMsg, RejectTime + 1)
      /\ pr'.standby = pr.standby /\ pr'.reply = pr.reply
  <2>1. pr \in PrimaryState
    BY TypesSplit
  <2>. DEFINE a == Later(pr.sinceMsg, RejectTime + 1)
  <2>2. pr' = IF Prim \in up THEN [pr EXCEPT !.sinceMsg = a] ELSE pr
    BY <1>1
  <2>. HIDE DEF a
  <2>3. (Prim \in up => pr'.sinceMsg = a) /\ pr'.standby = pr.standby /\ pr'.reply = pr.reply
    BY <2>1, <2>2 DEF PrimaryState
  <2>. QED BY <2>3 DEF a
<1>6. /\ seen'.dark = IF Covered \/ up = {} THEN 0 ELSE Later(seen.dark, MaxDark + 1)
      /\ seen'.both = IF SplitBrain THEN Later(seen.both, MaxBoth + 1) ELSE 0
  <2>1. seen \in Observed
    BY TypesSplit
  <2>. DEFINE a == IF Covered \/ up = {} THEN 0 ELSE Later(seen.dark, MaxDark + 1)
              b == IF SplitBrain THEN Later(seen.both, MaxBoth + 1) ELSE 0
  <2>2. seen' = [seen EXCEPT !.dark = a, !.both = b]
    BY <1>1
  <2>. HIDE DEF a, b
  <2>3. seen'.dark = a /\ seen'.both = b
    BY <2>1, <2>2 DEF Observed
  <2>. QED BY <2>3 DEF a, b
<1>. QED BY <1>1, <1>2, <1>3, <1>4, <1>5, <1>6

LEMMA BothTyped ==
  ASSUME TypeOK
  PROVE  /\ seen.both \in Nat /\ seen.both <= MaxBoth + 1 /\ seen.dark \in Nat /\ seen.dark <= MaxDark + 1
         /\ sinceId[Prim] \in Nat /\ sinceId[Prim] <= ClusterInterval + 1
         /\ \A g \in Gateways : \A i \in 1..Len(link[g]) : /\ link[g][i] \in Letter
                                           /\ link[g][i].age \in Nat /\ link[g][i].age <= MaxDelay
<1>1. seen \in Observed /\ sinceId \in Clocks
  BY TypesSplit
<1>2. \A g \in Gateways : \A i \in 1..Len(link[g]) : link[g][i] \in Letter
  BY LinkTyped, Pair
<1>. QED BY <1>1, <1>2, Periods, Pair DEF Observed, Clocks, Letter

(* A step that leaves the clocks, the buffer and the standby as they were,   *)
(* and takes no letter from the connection, keeps what makes it yield.       *)
LEMMA YieldsStays ==
  ASSUME TypeOK, NEW p \in Nat, Yields(p), TypeOK',
         seen'.both = seen.both, sb'.state = sb.state, sb'.inState = sb.inState,
         sb'.sinceOK = sb.sinceOK, Stby \in due' <=> Stby \in due, Stby \in up => Stby \in up',
         slot'[Stby] = slot[Stby], linkUp => linkUp', sinceId'[Prim] >= sinceId[Prim],
         \A i \in 1..Len(link[Stby]) : i \in 1..Len(link'[Stby]) /\ link'[Stby][i] = link[Stby][i]
  PROVE  Yields(p)'
<1>1. sb.state = "RunActive" => YieldsSoon(p)'
  <2>1. sinceId[Prim] \in Nat /\ sinceId'[Prim] \in Nat /\ seen.both \in Nat
    BY BothTyped, Pair, Periods, TypesSplit DEF Clocks, TypeOK
  <2>. SUFFICES ASSUME YieldsSoon(p) PROVE YieldsSoon(p)'
    BY DEF Yields
  <2>2. CASE seen.both <= p + (IF linkUp THEN sinceId[Prim] ELSE 0)
    <3>1. seen'.both <= p + (IF linkUp' THEN sinceId'[Prim] ELSE 0)
      BY <2>1, <2>2
    <3>. QED BY <3>1 DEF YieldsSoon
  <2>3. CASE \E i \in 1..Len(link[Stby]) :
               /\ link[Stby][i].body.kind = "site"
               /\ seen.both <= p + ClusterInterval + 1 + link[Stby][i].age
    BY <2>3 DEF YieldsSoon
  <2>4. CASE slot[Stby] # None /\ seen.both <= p + Longest + (IF Stby \in due THEN 1 ELSE 0)
    BY <2>4 DEF YieldsSoon, Longest
  <2>5. CASE sb.sinceOK = 0 /\ Stby \notin due /\ seen.both <= p + Longest + 1
    BY <2>5 DEF YieldsSoon, Longest
  <2>6. CASE sb.sinceOK = 1 /\ Stby \in due /\ seen.both <= p + Longest + 2
    BY <2>6 DEF YieldsSoon, Longest
  <2>. QED BY <2>2, <2>3, <2>4, <2>5, <2>6 DEF YieldsSoon
<1>2. /\ slot'[Stby] # None => slot'[Stby].from = Prim
      /\ Stby \notin up' => sb'.state = "Reset"
      /\ seen'.both <= p + Longest' + HandoverDelay + 3
      /\ Stby \in due' => sb'.state \in {"RunActive", "HandBackOver", "Reset"} \/ seen'.both = 0
      /\ sb'.state = "HandBackOver" =>
           /\ seen'.both <= p + Longest' + 2 + sb'.inState
           /\ sb'.inState <= HandoverDelay + (IF Stby \in due' THEN 1 ELSE 0)
  BY DEF Yields, Longest
<1>. QED BY <1>1, <1>2 DEF Yields

(* A cut or a crash of the primary: whatever was due or on its way is lost,  *)
(* which costs one more wait.                                                *)
LEMMA YieldsAfterALoss ==
  ASSUME TypeOK, NEW p \in Nat, Yields(p),
         seen'.both = seen.both, sb' = sb, Stby \in due' <=> Stby \in due, Stby \in up => Stby \in up',
         slot'[Stby] = slot[Stby], sinceId'[Prim] \in Nat
  PROVE  Yields(p + Longest)'
<1>0. Longest \in Nat /\ Longest' = Longest /\ Longest = ClusterInterval + 1 + MaxDelay
  BY LongestIsNat DEF Longest
<1>. PICK q \in Nat : q = p + Longest
  BY <1>0
<1>1. sb.state = "RunActive" => YieldsSoon(q)'
  <2>. SUFFICES ASSUME YieldsSoon(p) PROVE YieldsSoon(q)'
    BY DEF Yields
  <2>1. sinceId[Prim] \in Nat /\ sinceId[Prim] <= ClusterInterval + 1 /\ seen.both \in Nat
        /\ \A i \in 1..Len(link[Stby]) : link[Stby][i].age \in Nat /\ link[Stby][i].age <= MaxDelay
    BY BothTyped, Pair
  <2>2. CASE seen.both <= p + Longest
    <3>1. seen'.both <= q + (IF linkUp' THEN sinceId'[Prim] ELSE 0)
      BY <2>1, <2>2, <1>0
    <3>. QED BY <3>1 DEF YieldsSoon
  <2>3. seen.both <= p + (IF linkUp THEN sinceId[Prim] ELSE 0) => seen.both <= p + Longest
    BY <1>0, <2>1, Periods
  <2>4. ASSUME NEW i \in 1..Len(link[Stby]), seen.both <= p + ClusterInterval + 1 + link[Stby][i].age
        PROVE  seen.both <= p + Longest
    BY <1>0, <2>1, <2>4, Periods
  <2>5. CASE slot[Stby] # None /\ seen.both <= p + Longest + (IF Stby \in due THEN 1 ELSE 0)
    <3>1. slot'[Stby] # None /\ seen'.both <= q + Longest' + (IF Stby \in due' THEN 1 ELSE 0)
      BY <1>0, <2>1, <2>5
    <3>. QED BY <3>1 DEF YieldsSoon
  <2>6. CASE sb.sinceOK = 0 /\ Stby \notin due /\ seen.both <= p + Longest + 1
    <3>1. sb'.sinceOK = 0 /\ Stby \notin due' /\ seen'.both <= q + Longest' + 1
      BY <1>0, <2>1, <2>6
    <3>. QED BY <3>1 DEF YieldsSoon
  <2>7. CASE sb.sinceOK = 1 /\ Stby \in due /\ seen.both <= p + Longest + 2
    <3>1. sb'.sinceOK = 1 /\ Stby \in due' /\ seen'.both <= q + Longest' + 2
      BY <1>0, <2>1, <2>7
    <3>. QED BY <3>1 DEF YieldsSoon
  <2>. QED BY <2>2, <2>3, <2>4, <2>5, <2>6, <2>7 DEF YieldsSoon
<1>2. /\ slot'[Stby] # None => slot'[Stby].from = Prim
      /\ Stby \notin up' => sb'.state = "Reset"
      /\ seen'.both <= q + Longest' + HandoverDelay + 3
      /\ Stby \in due' => sb'.state \in {"RunActive", "HandBackOver", "Reset"} \/ seen'.both = 0
      /\ sb'.state = "HandBackOver" =>
           /\ seen'.both <= q + Longest' + 2 + sb'.inState
           /\ sb'.inState <= HandoverDelay + (IF Stby \in due' THEN 1 ELSE 0)
  BY <1>0, Periods, BothTyped, SbTyped DEF Yields
<1>3. Yields(q)'
  BY <1>1, <1>2 DEF Yields
<1>. QED BY <1>3

(* What the two gateways exchange.                                           *)
LEMMA YieldsIdentifier ==
  ASSUME TypeOK, TypeOK', NEW p \in Nat, Yields(p), NEW g \in Gateways, SendIdentifier(g)
  PROVE  Yields(p)'
<1>1. /\ sinceId' = [sinceId EXCEPT ![g] = 0]
      /\ Send(Peer(g), [kind |-> "site", msg |-> [from |-> g, isactive |-> IsActive[g], flag |-> pr.flag]])
      /\ up' = up /\ slot' = slot /\ due' = due /\ linkUp' = linkUp /\ sb' = sb /\ seen' = seen
  BY DEF SendIdentifier
<1>2. PICK m \in SiteMessage : m = [from |-> g, isactive |-> IsActive[g], flag |-> pr.flag]
  BY PrTyped, TypesSplit DEF SiteMessage, Sites
<1>. DEFINE b == [kind |-> "site", msg |-> m]
            h == Peer(g)
<1>3. b \in Body /\ b.kind = "site" /\ Send(h, b) /\ h \in Gateways
  BY <1>1, <1>2, Bodies, Pair
<1>. HIDE DEF b, h
<1>. DEFINE l == [body |-> b, age |-> 0]
<1>4. /\ \A x \in Gateways \ {h} : link'[x] = link[x]
      /\ (link'[h] = link[h] /\ ~linkUp) \/ link'[h] = Append(link[h], l)
  BY <1>3, LinkTyped, SendSends
<1>5. l \in Letter /\ l.body.kind = "site" /\ l.age = 0
  BY <1>3, Periods DEF Letter
<1>. HIDE DEF l
<1>6. link[Stby] \in Seq(Letter) /\ Len(link[Stby]) \in Nat
  BY LinkTyped, Pair
<1>7. \A i \in 1..Len(link[Stby]) : i \in 1..Len(link'[Stby]) /\ link'[Stby][i] = link[Stby][i]
  <2>1. link'[Stby] = link[Stby] \/ link'[Stby] = Append(link[Stby], l)
    BY <1>3, <1>4, Pair
  <2>2. \A i \in 1..Len(link[Stby]) : /\ i \in 1..Len(Append(link[Stby], l))
                                      /\ Append(link[Stby], l)[i] = link[Stby][i]
    BY <1>5, <1>6
  <2>. QED BY <2>1, <2>2
<1>8. CASE g = Stby
  <2>1. sinceId'[Prim] = sinceId[Prim] /\ sinceId[Prim] \in Nat
    BY <1>1, <1>8, FourNames, Pair, TypesSplit, BothTyped DEF Clocks
  <2>. QED BY <1>1, <1>7, <2>1, YieldsStays
<1>9. CASE g = Prim
  <2>1. h = Stby
    BY <1>9, Pair DEF h
  <2>2. CASE ~linkUp
    <3>1. \A i \in 1..Len(link[Stby]) : link'[Stby][i] = link[Stby][i]
      BY <1>7
    <3>2. sb.state = "RunActive" => YieldsSoon(p)'
      <4>. SUFFICES ASSUME YieldsSoon(p) PROVE YieldsSoon(p)'
        BY DEF Yields
      <4>. QED BY <1>1, <1>7, <2>2 DEF YieldsSoon, Longest
    <3>. QED BY <1>1, <3>2 DEF Yields, Longest
  <2>3. CASE linkUp
    <3>1. link'[Stby] = Append(link[Stby], l)
      BY <1>4, <2>1, <2>3
    <3>2. /\ Len(link[Stby]) + 1 \in 1..Len(link'[Stby])
          /\ link'[Stby][Len(link[Stby]) + 1] = l
      BY <1>5, <1>6, <3>1
    <3>3. sb.state = "RunActive" => YieldsSoon(p)'
      <4>. SUFFICES ASSUME YieldsSoon(p) PROVE YieldsSoon(p)'
        BY DEF Yields
      <4>1. CASE seen.both <= p + (IF linkUp THEN sinceId[Prim] ELSE 0)
        <5>1. seen'.both <= p + ClusterInterval + 1 + l.age
          BY <1>1, <1>5, <2>3, <4>1, BothTyped, Periods
        <5>2. \E i \in 1..Len(link'[Stby]) :
                /\ link'[Stby][i].body.kind = "site"
                /\ seen'.both <= p + ClusterInterval + 1 + link'[Stby][i].age
          BY <1>5, <3>2, <5>1
        <5>. QED BY <5>2 DEF YieldsSoon
      <4>2. CASE ~(seen.both <= p + (IF linkUp THEN sinceId[Prim] ELSE 0))
        BY <1>1, <1>7, <4>2 DEF YieldsSoon, Longest
      <4>. QED BY <4>1, <4>2
    <3>. QED BY <1>1, <3>3 DEF Yields, Longest
  <2>. QED BY <2>2, <2>3
<1>. QED BY <1>8, <1>9, Pair

LEMMA YieldsMessageIn ==
  ASSUME IInv, TypeOK', NEW p \in Nat, Yields(p), NEW g \in Gateways, InterSiteMessageIn(g)
  PROVE  Yields(p)'
<1>. USE DEF IInv
<1>1. /\ link[g] # << >> /\ link' = [link EXCEPT ![g] = Tail(link[g])]
      /\ up' = up /\ due' = due /\ sinceId' = sinceId /\ linkUp' = linkUp
  BY DEF InterSiteMessageIn
<1>2. link[g] \in Seq(Letter) /\ Head(link[g]) \in Letter /\ Head(link[g]).body \in Body /\ link \in Links
      /\ link[Stby] \in Seq(Letter)
  <2>1. link[g] \in Seq(Letter)
    BY LinkTyped
  <2>2. Head(link[g]) \in Letter
    BY <1>1, <2>1
  <2>. QED BY <2>1, <2>2, LinkTyped, Pair DEF Letter
<1>3. PICK body \in Body : body = Head(link[g]).body
  BY <1>2
<1>4. SiteMessageIn(g, body) \/ QueryIn(g, body) \/ ReplyIn(g, body) \/ CommandIn(g, body)
  <2>1. LET bb == Head(link[g]).body
        IN  SiteMessageIn(g, bb) \/ QueryIn(g, bb) \/ ReplyIn(g, bb) \/ CommandIn(g, bb)
    BY DEF InterSiteMessageIn
  <2>. QED BY <1>3, <2>1 DEF SiteMessageIn, QueryIn, ReplyIn, CommandIn
<1>5. seen'.both = seen.both /\ sb'.state = sb.state /\ sb'.inState = sb.inState /\ sb'.sinceOK = sb.sinceOK
  <2>1. sb \in StandbyState /\ seen \in Observed
    BY TypesSplit
  <2>. QED BY <1>4, <2>1 DEF SiteMessageIn, QueryIn, ReplyIn, CommandIn, StandbyState, Observed
<1>6. CASE g = Prim
  <2>1. slot'[Stby] = slot[Stby] /\ link'[Stby] = link[Stby]
    BY <1>1, <1>2, <1>4, <1>6, FourNames, Pair, TypesSplit
       DEF SiteMessageIn, QueryIn, ReplyIn, CommandIn, Buffers, Links
  <2>2. sinceId'[Prim] >= sinceId[Prim]
    BY <1>1, BothTyped
  <2>. QED BY <1>1, <1>5, <2>1, <2>2, YieldsStays
<1>7. CASE g = Stby
  <2>1. link'[Stby] = Tail(link[Stby])
    BY <1>1, <1>2, <1>7, Pair DEF Links
  <2>2. /\ Len(link[Stby]) \in Nat /\ Head(link[Stby]) = link[Stby][1]
        /\ Len(link'[Stby]) = Len(link[Stby]) - 1
        /\ \A i \in 1..Len(link'[Stby]) : link'[Stby][i] = link[Stby][i + 1]
    <3>1. PICK s \in Seq(Letter) : s = link[Stby]
      BY <1>2
    <3>2. s # << >> /\ link'[Stby] = Tail(s)
      BY <1>1, <1>7, <2>1, <3>1
    <3>3. /\ Len(s) \in Nat /\ Head(s) = s[1] /\ Len(Tail(s)) = Len(s) - 1
          /\ \A i \in 1..Len(Tail(s)) : Tail(s)[i] = s[i + 1]
      BY <3>2
    <3>. QED BY <3>1, <3>2, <3>3
  <2>3. \A i \in 1..Len(link[Stby]) : i # 1 => i - 1 \in 1..Len(link'[Stby]) /\ link'[Stby][i - 1] = link[Stby][i]
    BY <2>2
  <2>4. /\ slot'[Stby] # None => slot'[Stby].from = Prim
        /\ \/ slot'[Stby] # None
           \/ slot'[Stby] = slot[Stby] /\ body.kind # "site"
    <3>1. CASE SiteMessageIn(g, body)
      <4>1. body.kind = "site" /\ slot' = [slot EXCEPT ![Stby] = [body.msg EXCEPT !.flag = ParsedFlag(@)]]
        BY <1>7, <3>1 DEF SiteMessageIn
      <4>2. body.msg.from = Prim /\ body.msg \in SiteMessage
        <5>1. AllFrom(link[Stby], Prim)
          BY AddressedSplit
        <5>. QED BY <1>1, <1>2, <1>3, <1>7, <4>1, <5>1, TailFrom, Bodies
      <4>. DEFINE m == [body.msg EXCEPT !.flag = ParsedFlag(@)]
      <4>3. m \in SiteMessage /\ m.from = Prim
        <5>1. 0 \in Flags /\ 1 \in Flags
          BY Longests DEF Flags
        <5>. QED BY <4>2, <5>1 DEF ParsedFlag, SiteMessage
      <4>4. slot' = [slot EXCEPT ![Stby] = m]
        BY <4>1
      <4>. HIDE DEF m
      <4>5. slot'[Stby] = m
        BY <4>4, TypesSplit, Pair DEF Buffers
      <4>. QED BY <4>3, <4>5, Pair
    <3>2. CASE ReplyIn(g, body)
      BY <3>2 DEF ReplyIn, Yields
    <3>. QED BY <1>4, <1>7, <3>1, <3>2, FourNames DEF QueryIn, CommandIn
  <2>5. sb.state = "RunActive" => YieldsSoon(p)'
    <3>. SUFFICES ASSUME YieldsSoon(p) PROVE YieldsSoon(p)'
      BY DEF Yields
    <3>1. CASE seen.both <= p + (IF linkUp THEN sinceId[Prim] ELSE 0)
      BY <1>1, <1>5, <3>1 DEF YieldsSoon
    <3>2. CASE \E i \in 1..Len(link[Stby]) :
               /\ link[Stby][i].body.kind = "site"
               /\ seen.both <= p + ClusterInterval + 1 + link[Stby][i].age
      <4>1. PICK i \in 1..Len(link[Stby]) :
               /\ link[Stby][i].body.kind = "site"
               /\ seen.both <= p + ClusterInterval + 1 + link[Stby][i].age
        BY <3>2
      <4>2. CASE i # 1
        <5>1. /\ i - 1 \in 1..Len(link'[Stby])
              /\ link'[Stby][i - 1].body.kind = "site"
              /\ seen'.both <= p + ClusterInterval + 1 + link'[Stby][i - 1].age
          BY <1>5, <2>3, <4>1, <4>2
        <5>. QED BY <5>1 DEF YieldsSoon
      <4>3. CASE i = 1
        <5>1. slot'[Stby] # None
          BY <1>3, <1>7, <2>2, <2>4, <4>1, <4>3
        <5>2. seen'.both <= p + Longest
          BY <1>5, <4>1, BothTyped, Periods, Pair DEF Longest
        <5>3. seen'.both <= p + Longest' + (IF Stby \in due' THEN 1 ELSE 0)
          <6>1. seen'.both \in Nat /\ Longest' = Longest /\ Longest \in Nat
            BY <1>5, BothTyped, LongestIsNat DEF Longest
          <6>. QED BY <5>2, <6>1
        <5>. QED BY <5>1, <5>3 DEF YieldsSoon
      <4>. QED BY <4>2, <4>3
    <3>3. CASE slot[Stby] # None /\ seen.both <= p + Longest + (IF Stby \in due THEN 1 ELSE 0)
      BY <1>1, <1>5, <2>4, <3>3 DEF YieldsSoon, Longest
    <3>4. CASE \/ sb.sinceOK = 0 /\ Stby \notin due /\ seen.both <= p + Longest + 1
               \/ sb.sinceOK = 1 /\ Stby \in due /\ seen.both <= p + Longest + 2
      BY <1>1, <1>5, <3>4 DEF YieldsSoon, Longest
    <3>. QED BY <3>1, <3>2, <3>3, <3>4 DEF YieldsSoon
  <2>. QED BY <1>1, <1>5, <2>4, <2>5 DEF Yields, Longest
<1>. QED BY <1>6, <1>7, Pair

(* What the primary and the operator do.                                     *)
LEMMA YieldsElsewhere ==
  ASSUME TypeOK, TypeOK', NEW p \in Nat, Yields(p),
         SendReply \/ PrimaryPass \/ ReloadPrimaryTables \/ TablesReloaded \/ ForceTakeOver
         \/ HealLink \/ \E g \in Gateways : SetActive(g)
  PROVE  Yields(p)'
<1>1. up' = up /\ seen' = seen /\ sinceId' = sinceId /\ (linkUp => linkUp')
  BY DEF SendReply, PrimaryPass, ReloadPrimaryTables, TablesReloaded, ForceTakeOver, HealLink, SetActive
<1>2. sb'.state = sb.state /\ sb'.inState = sb.inState /\ sb'.sinceOK = sb.sinceOK
  <2>1. sb \in StandbyState
    BY TypesSplit
  <2>. QED BY <2>1 DEF SendReply, PrimaryPass, ReloadPrimaryTables, TablesReloaded, ForceTakeOver,
                       HealLink, SetActive, StandbyState
<1>3. slot'[Stby] = slot[Stby] /\ (Stby \in due' <=> Stby \in due)
  BY FourNames, Pair, TypesSplit
     DEF SendReply, PrimaryPass, ReloadPrimaryTables, TablesReloaded, ForceTakeOver, HealLink, SetActive, Buffers
<1>4. \A i \in 1..Len(link[Stby]) : i \in 1..Len(link'[Stby]) /\ link'[Stby][i] = link[Stby][i]
  <2>1. CASE SendReply
    <3>1. Send(Stby, [kind |-> "reply", flag |-> pr.reply])
      BY <2>1 DEF SendReply
    <3>2. PICK f \in Flags : f = pr.reply
      BY PrTyped
    <3>. DEFINE b == [kind |-> "reply", flag |-> f]
    <3>3. b \in Body /\ Send(Stby, b)
      BY <3>1, <3>2, Bodies
    <3>. HIDE DEF b
    <3>. DEFINE l == [body |-> b, age |-> 0]
    <3>4. link'[Stby] = link[Stby] \/ link'[Stby] = Append(link[Stby], l)
      BY <3>3, SendSends, LinkTyped, Pair
    <3>5. l \in Letter
      BY <3>3, Periods DEF Letter
    <3>6. link[Stby] \in Seq(Letter)
      BY LinkTyped, Pair
    <3>. HIDE DEF l
    <3>. QED BY <3>4, <3>5, <3>6
  <2>2. CASE ~SendReply
    <3>1. link' = link
      BY <2>2 DEF PrimaryPass, ReloadPrimaryTables, TablesReloaded, ForceTakeOver, HealLink, SetActive
    <3>. QED BY <3>1
  <2>. QED BY <2>1, <2>2
<1>5. sinceId'[Prim] >= sinceId[Prim]
  BY <1>1, BothTyped
<1>. QED BY <1>1, <1>2, <1>3, <1>4, <1>5, YieldsStays

(* A pass that only changes the state, in all the fields that count time.    *)
LEMMA PassTimes ==
  ASSUME TypeOK, NEW state, NEW new \in StandbyState, StandbyPass(state, new)
  PROVE  /\ sb.state = state /\ Stby \in due /\ due' = due \ {Stby}
         /\ sb'.state = new.state /\ sb'.sinceOK = new.sinceOK
         /\ sb'.inState = IF new.state = sb.state THEN new.inState ELSE 0
         /\ sb'.sinceReq = new.sinceReq /\ sb'.credFails = new.credFails
         /\ sb'.credsOK = new.credsOK /\ sb'.heard = new.heard /\ sb'.force = new.force
<1>1. sb' = IF new.state = sb.state THEN new ELSE [new EXCEPT !.inState = 0]
  BY DEF StandbyPass, Settle
<1>2. /\ [new EXCEPT !.inState = 0].state = new.state
      /\ [new EXCEPT !.inState = 0].sinceOK = new.sinceOK
      /\ [new EXCEPT !.inState = 0].inState = 0
      /\ [new EXCEPT !.inState = 0].sinceReq = new.sinceReq
      /\ [new EXCEPT !.inState = 0].credFails = new.credFails
      /\ [new EXCEPT !.inState = 0].credsOK = new.credsOK
      /\ [new EXCEPT !.inState = 0].heard = new.heard
      /\ [new EXCEPT !.inState = 0].force = new.force
  BY DEF StandbyState
<1>. QED BY <1>1, <1>2 DEF StandbyPass

LEMMA ReadSlotTimes ==
  ASSUME TypeOK
  PROVE  /\ ReadSlot.sinceReq = sb.sinceReq /\ ReadSlot.credFails = sb.credFails
         /\ ReadSlot.credsOK = sb.credsOK /\ (ReadSlot.heard <=> sb.heard \/ slot[Stby] # None)
<1>1. sb \in StandbyState
  BY TypesSplit
<1>. QED BY <1>1 DEF ReadSlot, StandbyState

LEMMA PassTo ==
  ASSUME TypeOK, NEW state, NEW to \in StbySyncState, StandbyPass(state, [ReadSlot EXCEPT !.state = to])
  PROVE  /\ sb.state = state /\ Stby \in due /\ due' = due \ {Stby}
         /\ sb'.state = to /\ sb'.sinceOK = (IF FromPrimary THEN 0 ELSE sb.sinceOK)
         /\ sb'.inState = (IF to = state THEN sb.inState ELSE 0)
         /\ sb'.sinceReq = sb.sinceReq /\ sb'.credFails = sb.credFails /\ sb'.credsOK = sb.credsOK
         /\ (sb'.heard <=> sb.heard \/ slot[Stby] # None) /\ sb'.force = sb.force
<1>1. PICK r \in StandbyState : r = ReadSlot
  BY ReadSlotTyped
<1>. DEFINE n == [r EXCEPT !.state = to]
<1>2. /\ n \in StandbyState /\ n.state = to /\ n.sinceOK = r.sinceOK /\ n.inState = r.inState
      /\ n.sinceReq = r.sinceReq /\ n.credFails = r.credFails /\ n.credsOK = r.credsOK
      /\ n.heard = r.heard /\ n.force = r.force
  BY DEF StandbyState
<1>3. StandbyPass(state, n)
  BY <1>1 DEF StandbyPass, Settle
<1>. HIDE DEF n
<1>4. /\ sb.state = state /\ Stby \in due /\ due' = due \ {Stby}
      /\ sb'.state = n.state /\ sb'.sinceOK = n.sinceOK
      /\ sb'.inState = IF n.state = sb.state THEN n.inState ELSE 0
      /\ sb'.sinceReq = n.sinceReq /\ sb'.credFails = n.credFails
      /\ sb'.credsOK = n.credsOK /\ sb'.heard = n.heard /\ sb'.force = n.force
  BY <1>2, <1>3, PassTimes
<1>5. /\ r.inState = sb.inState /\ r.force = sb.force /\ r.sinceOK = IF FromPrimary THEN 0 ELSE sb.sinceOK
      /\ r.sinceReq = sb.sinceReq /\ r.credFails = sb.credFails
      /\ r.credsOK = sb.credsOK /\ (r.heard <=> sb.heard \/ slot[Stby] # None)
  BY <1>1, ReadSlotTyped, ReadSlotTimes
<1>. QED BY <1>2, <1>4, <1>5

(* The passes.  While RunActive, the identifier read starts the silence anew; *)
(* the next pass finds it below the cut-over time.                           *)
LEMMA YieldsPass ==
  ASSUME TypeOK, TypeOK', NEW p \in Nat, Yields(p), StandbyStep, ~MergeCrash,
         hotcutovertime >= 2
  PROVE  Yields(p)'
<1>1. PICK to \in StbySyncState : Onward(to)
  BY StandbyPasses
<1>2. /\ Stby \in due /\ due' = due \ {Stby} /\ sb'.state = to /\ slot'[Stby] = None
      /\ up' = up /\ sinceId' = sinceId /\ linkUp' = linkUp
  BY <1>1 DEF Onward, Advances
<1>3. link'[Stby] = link[Stby]
  BY <1>1, SendsLeave DEF Onward
<1>4. seen'.both = seen.both /\ seen.both \in Nat
  <2>1. seen \in Observed
    BY TypesSplit
  <2>. QED BY <1>1, <2>1, BothTyped DEF Onward, Observed
<1>5. /\ slot'[Stby] # None => slot'[Stby].from = Prim
      /\ Stby \notin up' => sb'.state = "Reset"
      /\ seen'.both <= p + Longest' + HandoverDelay + 3
      /\ Stby \notin due'
  <2>1. Stby \in up' /\ Longest' = Longest
    BY <1>2, TypesSplit DEF Longest
  <2>. QED BY <1>2, <1>4, <2>1 DEF Yields
<1>6. ASSUME sb.state = "RunActive"
      PROVE  \/ to = "HandBackOver" /\ sb'.inState = 0 /\ PrimaryBack
             \/ to = "RunActive" /\ ~PrimaryBack /\ sb'.sinceOK = IF FromPrimary THEN 0 ELSE sb.sinceOK
  <2>1. RunActive
    BY <1>6 DEF StandbyStep, StandbyPass, MergeCrash, Reset, Startup, FindPrimary, RequestCredentials,
       WaitForCredentials, ReceivedCredentials, ConnenctToDB, FailedToAccessDB, Synchronizing,
       FailedReadTables, MergeTables, StoreTables, ActivateTables, CantContactPrimary,
       WaitForPrimaryToFail, TakingOver, TakeOverWait, HandBackOver
  <2>. DEFINE t == IF PrimaryBack THEN "HandBackOver" ELSE ReadSlot.state
  <2>2. StandbyPass("RunActive", [ReadSlot EXCEPT !.state = t])
    BY <2>1 DEF RunActive
  <2>3. t \in StbySyncState /\ ((t = "HandBackOver" /\ PrimaryBack) \/ (t = "RunActive" /\ ~PrimaryBack))
    BY <1>6, ReadSlotTyped DEF StbySyncState
  <2>. HIDE DEF t
  <2>4. PICK s \in StbySyncState : s = t
    BY <2>3
  <2>5. StandbyPass("RunActive", [ReadSlot EXCEPT !.state = s])
    BY <2>2, <2>4 DEF StandbyPass, Settle
  <2>6. sb'.state = s /\ sb'.inState = (IF s = "RunActive" THEN sb.inState ELSE 0)
        /\ sb'.sinceOK = (IF FromPrimary THEN 0 ELSE sb.sinceOK)
    BY <2>5, PassTo
  <2>. QED BY <1>2, <2>3, <2>4, <2>6
<1>7. ASSUME sb.state = "RunActive" PROVE seen.both <= p + Longest + 2
  <2>1. \A i \in 1..Len(link[Stby]) : link[Stby][i].age \in Nat /\ link[Stby][i].age <= MaxDelay
    BY BothTyped, Pair
  <2>2. sinceId[Prim] \in Nat /\ sinceId[Prim] <= ClusterInterval + 1
    BY BothTyped
  <2>3. YieldsSoon(p)
    BY <1>7 DEF Yields
  <2>4. ASSUME NEW i \in 1..Len(link[Stby]), seen.both <= p + ClusterInterval + 1 + link[Stby][i].age
        PROVE  seen.both <= p + Longest + 2
    <3>1. PICK a \in Nat : a = link[Stby][i].age /\ a <= MaxDelay
      BY <2>1
    <3>2. PICK c \in Nat : c = seen.both
      BY <1>4
    <3>3. c <= p + ClusterInterval + 1 + a
      BY <2>4, <3>1, <3>2
    <3>4. c <= p + Longest + 2
      BY <3>1, <3>3, Periods DEF Longest
    <3>. QED BY <3>2, <3>4
  <2>5. seen.both <= p + (IF linkUp THEN sinceId[Prim] ELSE 0) => seen.both <= p + Longest + 2
    BY <1>4, <2>2, Periods DEF Longest
  <2>6. seen.both <= p + Longest + (IF Stby \in due THEN 1 ELSE 0) => seen.both <= p + Longest + 2
    BY <1>4, LongestIsNat
  <2>7. seen.both <= p + Longest + 1 => seen.both <= p + Longest + 2
    BY <1>4, LongestIsNat
  <2>. QED BY <2>3, <2>4, <2>5, <2>6, <2>7 DEF YieldsSoon
<1>8. to = "HandBackOver" =>
        /\ seen'.both <= p + Longest' + 2 + sb'.inState
        /\ sb'.inState <= HandoverDelay + (IF Stby \in due' THEN 1 ELSE 0)
  <2>. SUFFICES ASSUME to = "HandBackOver"
                PROVE  /\ seen'.both <= p + Longest' + 2 + sb'.inState
                       /\ sb'.inState <= HandoverDelay + (IF Stby \in due' THEN 1 ELSE 0)
    OBVIOUS
  <2>1. sb.state = "HandBackOver" \/ sb.state = "RunActive"
    BY <1>1 DEF Onward
  <2>2. CASE sb.state = "RunActive"
    <3>1. sb'.inState = 0
      BY <1>2, <1>6, <2>2
    <3>2. Longest' = Longest
      BY DEF Longest
    <3>. QED BY <1>4, <1>5, <1>7, <2>2, <3>1, <3>2, Periods, LongestIsNat
  <2>3. CASE sb.state = "HandBackOver"
    <3>1. HandBackOver
      BY <2>3 DEF StandbyStep, StandbyPass, MergeCrash, Reset, Startup, FindPrimary, RequestCredentials,
         WaitForCredentials, ReceivedCredentials, ConnenctToDB, FailedToAccessDB, Synchronizing,
         FailedReadTables, MergeTables, StoreTables, ActivateTables, CantContactPrimary,
         WaitForPrimaryToFail, TakingOver, TakeOverWait, RunActive
    <3>. DEFINE t == IF WaitedForHandover THEN "Startup" ELSE ReadSlot.state
    <3>2. StandbyPass("HandBackOver", [ReadSlot EXCEPT !.state = t])
      BY <3>1 DEF HandBackOver
    <3>3. t \in StbySyncState /\ (t = "Startup" \/ (t = "HandBackOver" /\ ~WaitedForHandover))
      BY <2>3, ReadSlotTyped DEF StbySyncState
    <3>. HIDE DEF t
    <3>4. PICK s \in StbySyncState : s = t
      BY <3>3
    <3>5. StandbyPass("HandBackOver", [ReadSlot EXCEPT !.state = s])
      BY <3>2, <3>4 DEF StandbyPass, Settle
    <3>6. sb'.state = s /\ sb'.inState = (IF s = "HandBackOver" THEN sb.inState ELSE 0)
      BY <3>5, PassTo
    <3>7. s = "HandBackOver" /\ ~WaitedForHandover /\ sb'.inState = sb.inState
      BY <1>2, <3>3, <3>4, <3>6
    <3>8. seen.both <= p + Longest + 2 + sb.inState /\ Longest' = Longest
      BY <2>3 DEF Yields, Longest
    <3>. QED BY <1>4, <1>5, <3>7, <3>8, SbTyped, Periods DEF WaitedForHandover
  <2>. QED BY <2>1, <2>2, <2>3
<1>9. to = "RunActive" => YieldsSoon(p)'
  <2>. SUFFICES ASSUME to = "RunActive" PROVE YieldsSoon(p)'
    OBVIOUS
  <2>1. sb.state = "TakeOverWait" \/ sb.state = "RunActive"
    BY <1>1 DEF Onward
  <2>2. CASE sb.state = "TakeOverWait"
    <3>1. seen.both = 0
      BY <1>2, <2>2 DEF Yields
    <3>2. seen'.both <= p + (IF linkUp' THEN sinceId'[Prim] ELSE 0)
      BY <1>2, <1>4, <3>1, BothTyped
    <3>. QED BY <3>2 DEF YieldsSoon
  <2>3. CASE sb.state = "RunActive"
    <3>1. ~PrimaryBack /\ sb'.sinceOK = IF FromPrimary THEN 0 ELSE sb.sinceOK
      BY <1>6, <2>1, <2>3
    <3>2. YieldsSoon(p)
      BY <2>3 DEF Yields
    <3>3. CASE seen.both <= p + (IF linkUp THEN sinceId[Prim] ELSE 0)
      BY <1>2, <1>4, <3>3 DEF YieldsSoon
    <3>4. CASE \E i \in 1..Len(link[Stby]) :
               /\ link[Stby][i].body.kind = "site"
               /\ seen.both <= p + ClusterInterval + 1 + link[Stby][i].age
      BY <1>3, <1>4, <3>4 DEF YieldsSoon
    <3>5. CASE slot[Stby] # None /\ seen.both <= p + Longest + (IF Stby \in due THEN 1 ELSE 0)
      <4>1. FromPrimary
        BY <3>5 DEF Yields, FromPrimary
      <4>. QED BY <1>2, <1>4, <1>5, <3>1, <3>5, <4>1 DEF YieldsSoon, Longest
    <3>6. CASE sb.sinceOK = 0 /\ Stby \notin due
      BY <1>2, <3>6
    <3>7. CASE sb.sinceOK = 1
      BY <3>1, <3>7, Periods DEF PrimaryBack
    <3>. QED BY <3>2, <3>3, <3>4, <3>5, <3>6, <3>7 DEF YieldsSoon
  <2>. QED BY <2>1, <2>2, <2>3
<1>. QED BY <1>2, <1>5, <1>8, <1>9 DEF Yields

(* A gateway stops, or starts again.                                         *)
LEMMA YieldsStop ==
  ASSUME TypeOK, NEW p \in Nat, Yields(p), Stop(Stby)
  PROVE  Yields(p)'
<1>1. /\ up' = up \ {Stby} /\ due' = due \ {Stby} /\ slot' = [slot EXCEPT ![Stby] = None]
      /\ sb' = FreshStandby /\ seen' = [seen EXCEPT !.dark = 0]
  BY DEF Stop
<1>2. slot'[Stby] = None /\ seen'.both = seen.both /\ sb'.state = "Reset"
  BY <1>1, TypesSplit, Pair DEF Buffers, Observed, FreshStandby
<1>. QED BY <1>1, <1>2 DEF Yields, Longest

LEMMA YieldsRestart ==
  ASSUME TypeOK, TypeOK', NEW p \in Nat, Yields(p), NEW g \in Gateways, Restart(g)
  PROVE  Yields(p)'
<1>1. /\ g \notin up /\ up' = up \union {g} /\ due' = due \union {g}
      /\ seen' = [seen EXCEPT !.dark = 0]
      /\ slot' = slot /\ sinceId' = sinceId /\ link' = link /\ linkUp' = linkUp /\ sb' = sb
  BY DEF Restart
<1>2. seen'.both = seen.both
  BY <1>1, TypesSplit DEF Observed
<1>3. CASE g = Prim
  <2>1. (Stby \in due' <=> Stby \in due) /\ (Stby \in up => Stby \in up')
    BY <1>1, <1>3, FourNames
  <2>2. sinceId'[Prim] >= sinceId[Prim]
    BY <1>1, BothTyped
  <2>. QED BY <1>1, <1>2, <2>1, <2>2, YieldsStays
<1>4. CASE g = Stby
  <2>1. sb'.state = "Reset"
    BY <1>1, <1>4 DEF Yields
  <2>. QED BY <1>1, <1>2, <2>1 DEF Yields, Longest
<1>. QED BY <1>3, <1>4, Pair

LEMMA YieldsLoss ==
  ASSUME TypeOK, TypeOK', NEW p \in Nat, Yields(p), CutLink \/ Crash(Prim)
  PROVE  Yields(p + Longest)' /\ Lost' = Lost + 1
<1>1. Lost' = Lost + 1
  <2>1. faults \in Budget
    BY TypesSplit
  <2>2. \/ faults' = [faults EXCEPT !.cuts = @ + 1]
        \/ faults' = [faults EXCEPT !.crashes = @ + 1]
    BY DEF CutLink, Crash
  <2>3. \/ faults'.cuts = faults.cuts + 1 /\ faults'.crashes = faults.crashes
        \/ faults'.cuts = faults.cuts /\ faults'.crashes = faults.crashes + 1
    BY <2>1, <2>2 DEF Budget
  <2>. QED BY <2>3, FaultsTyped, Periods DEF Lost
<1>2. sinceId'[Prim] \in Nat
  BY TypesSplit, Pair, Periods DEF TypeOK
<1>3. CASE CutLink
  <2>1. up' = up /\ slot' = slot /\ due' = due /\ sb' = sb /\ seen' = seen
    BY <1>3 DEF CutLink
  <2>. QED BY <1>1, <1>2, <2>1, YieldsAfterALoss
<1>4. CASE Crash(Prim)
  <2>1. /\ up' = up \ {Prim} /\ due' = due \ {Prim} /\ slot' = [slot EXCEPT ![Prim] = None]
        /\ sb' = sb /\ seen' = [seen EXCEPT !.dark = 0]
    BY <1>4, FourNames DEF Crash, Stop
  <2>2. slot'[Stby] = slot[Stby] /\ seen'.both = seen.both
    BY <2>1, TypesSplit, FourNames, Pair DEF Buffers, Observed
  <2>3. (Stby \in due' <=> Stby \in due) /\ (Stby \in up => Stby \in up')
    BY <2>1, FourNames
  <2>. QED BY <1>1, <1>2, <2>1, <2>2, <2>3, YieldsAfterALoss
<1>. QED BY <1>3, <1>4

(* A second.  What is due, on its way or just read gets one second older, and *)
(* so do the seconds with both active.                                       *)
LEMMA YieldsTick ==
  ASSUME TypeOK, TypeOK', NEW p \in Nat, Yields(p), Tick
  PROVE  Yields(p)'
<1>1. /\ due = {} /\ due' = up /\ up' = up /\ slot' = slot /\ linkUp' = linkUp
      /\ sb'.state = sb.state
      /\ Prim \in up => sinceId'[Prim] = sinceId[Prim] + 1
  BY TickLeaves
<1>2. /\ sinceId[Prim] <= ClusterInterval
      /\ \A i \in 1..Len(link[Stby]) : link[Stby][i].age < MaxDelay
      /\ Stby \in up => sb'.sinceOK = Later(sb.sinceOK, hotcutovertime + 1)
      /\ Stby \in up /\ sb.state # "RunActive" => sb'.inState = Later(sb.inState, LongestIn)
      /\ Stby \notin up => sb' = sb
      /\ seen'.both = IF SplitBrain THEN Later(seen.both, MaxBoth + 1) ELSE 0
  BY TickClocks, Pair
<1>3. /\ seen.both \in Nat /\ sinceId[Prim] \in Nat
      /\ \A i \in 1..Len(link[Stby]) : link[Stby][i].age \in Nat
      /\ Longest \in Nat /\ Longest' = Longest
  BY BothTyped, Pair, LongestIsNat DEF Longest
<1>4. sinceId'[Prim] \in Nat
  BY TypesSplit, Pair, Periods DEF TypeOK
<1>5. /\ slot'[Stby] # None => slot'[Stby].from = Prim
      /\ Stby \notin up' => sb'.state = "Reset"
  BY <1>1 DEF Yields
<1>6. sb.state = "HandBackOver" =>
        /\ Stby \in up /\ sb.inState <= HandoverDelay
        /\ sb'.inState = sb.inState + 1 /\ seen.both <= p + Longest + 2 + sb.inState
  BY <1>1, <1>2, SbTyped, Longests, Periods DEF Yields, Later
<1>7. CASE ~SplitBrain
  <2>1. seen'.both = 0
    BY <1>2, <1>7
  <2>2. YieldsSoon(p)'
    <3>1. seen'.both <= p + (IF linkUp' THEN sinceId'[Prim] ELSE 0)
      BY <1>4, <2>1
    <3>. QED BY <3>1 DEF YieldsSoon
  <2>3. sb'.state = "HandBackOver" =>
           /\ seen'.both <= p + Longest' + 2 + sb'.inState
           /\ sb'.inState <= HandoverDelay + (IF Stby \in due' THEN 1 ELSE 0)
    BY <1>1, <1>3, <1>6, <2>1, SbTyped, Periods
  <2>4. seen'.both <= p + Longest' + HandoverDelay + 3
    BY <1>3, <2>1, Periods
  <2>. QED BY <1>5, <2>1, <2>2, <2>3, <2>4 DEF Yields
<1>8. CASE SplitBrain
  <2>1. /\ linkUp /\ Prim \in up /\ Stby \in up /\ sb.state \in {"RunActive", "HandBackOver"}
    BY <1>8, Pair DEF SplitBrain
  <2>2. seen'.both <= seen.both + 1 /\ seen'.both \in Nat
    BY <1>2, <1>3, <1>8, Periods DEF Later
  <2>3. CASE sb.state = "HandBackOver"
    <3>3. PICK c \in Nat : c = seen'.both
      BY <2>2
    <3>4. c <= p + Longest + 2 + (sb.inState + 1) /\ sb.inState + 1 <= HandoverDelay + 1
      BY <1>3, <1>6, <2>2, <2>3, <3>3, SbTyped, Periods
    <3>1. seen'.both <= p + Longest' + 2 + sb'.inState /\ sb'.inState <= HandoverDelay + 1
      BY <1>3, <1>6, <2>3, <3>3, <3>4
    <3>2. seen'.both <= p + Longest' + HandoverDelay + 3
      BY <1>3, <1>6, <2>2, <2>3, SbTyped, Periods
    <3>. QED BY <1>1, <1>5, <2>1, <2>3, <3>1, <3>2 DEF Yields
  <2>4. CASE sb.state = "RunActive"
    <3>1. YieldsSoon(p)
      BY <2>4 DEF Yields
    <3>2. YieldsSoon(p)' /\ seen'.both <= p + Longest + 2
      <4>1. CASE seen.both <= p + (IF linkUp THEN sinceId[Prim] ELSE 0)
        <5>1. seen'.both <= p + (IF linkUp' THEN sinceId'[Prim] ELSE 0)
          BY <1>1, <1>3, <2>1, <2>2, <4>1
        <5>2. seen'.both <= p + Longest + 2
          BY <1>2, <1>3, <2>1, <2>2, <4>1, LongestIsNat, Periods
        <5>. QED BY <5>1, <5>2 DEF YieldsSoon
      <4>2. CASE \E i \in 1..Len(link[Stby]) :
               /\ link[Stby][i].body.kind = "site"
               /\ seen.both <= p + ClusterInterval + 1 + link[Stby][i].age
        <5>1. PICK i \in 1..Len(link[Stby]) :
               /\ link[Stby][i].body.kind = "site"
               /\ seen.both <= p + ClusterInterval + 1 + link[Stby][i].age
          BY <4>2
        <5>2. /\ i \in 1..Len(link'[Stby]) /\ link'[Stby][i].body.kind = "site"
              /\ link'[Stby][i].age = link[Stby][i].age + 1
          BY <5>1, TickLeaves, Pair
        <5>3. PICK a \in Nat : a = link[Stby][i].age /\ a < MaxDelay
          BY <1>2, <1>3, <5>1
        <5>6. PICK c \in Nat : c = seen'.both
          BY <2>2
        <5>7. seen.both <= p + ClusterInterval + 1 + a /\ c <= seen.both + 1
          BY <2>2, <5>1, <5>3, <5>6
        <5>8. c <= p + ClusterInterval + 1 + (a + 1) /\ c <= p + Longest + 2
          BY <1>3, <5>3, <5>7, Periods DEF Longest
        <5>4. seen'.both <= p + ClusterInterval + 1 + link'[Stby][i].age
          BY <5>2, <5>3, <5>6, <5>8
        <5>5. seen'.both <= p + Longest + 2
          BY <5>6, <5>8
        <5>. QED BY <5>2, <5>4, <5>5 DEF YieldsSoon
      <4>3. CASE slot[Stby] # None /\ seen.both <= p + Longest + (IF Stby \in due THEN 1 ELSE 0)
        <5>1. slot'[Stby] # None /\ seen'.both <= p + Longest' + (IF Stby \in due' THEN 1 ELSE 0)
              /\ seen'.both <= p + Longest + 2
          BY <1>1, <1>3, <2>1, <2>2, <4>3
        <5>. QED BY <5>1 DEF YieldsSoon
      <4>4. CASE sb.sinceOK = 0 /\ Stby \notin due /\ seen.both <= p + Longest + 1
        <5>1. sb'.sinceOK = 1 /\ Stby \in due' /\ seen'.both <= p + Longest' + 2
          BY <1>1, <1>2, <1>3, <2>1, <2>2, <4>4, Periods DEF Later
        <5>. QED BY <1>3, <5>1 DEF YieldsSoon
      <4>5. CASE sb.sinceOK = 1 /\ Stby \in due
        BY <1>1, <4>5
      <4>. QED BY <3>1, <4>1, <4>2, <4>3, <4>4, <4>5 DEF YieldsSoon
    <3>3. seen'.both <= p + Longest' + HandoverDelay + 3
      BY <1>3, <2>2, <3>2, Periods
    <3>. QED BY <1>1, <1>5, <2>4, <3>2, <3>3 DEF Yields
  <2>. QED BY <2>1, <2>3, <2>4
<1>. QED BY <1>7, <1>8

LEMMA FirstYields == Init => TInv
<1>. SUFFICES ASSUME Init PROVE TInv
  OBVIOUS
<1>1. IInv
  BY FirstInvariant
<1>2. slot[Stby] = None /\ seen.both = 0 /\ sb.state = "Reset" /\ up = Gateways
  BY Pair DEF Init, FreshStandby
<1>3. Yields(0)
  BY <1>2, LongestIsNat, Periods, Pair DEF Yields
<1>4. Cost \in Nat
  BY <1>1, CostGrows DEF IInv
<1>. QED BY <1>1, <1>3, <1>4 DEF TInv, Together

(* The budget of faults: only a crash and a cut spend what Lost counts.      *)
LEMMA LostStays ==
  ASSUME TypeOK, [Next]_vars, ~CutLink, \A g \in Gateways : ~Crash(g)
  PROVE  Lost' = Lost
<1>1. faults' = faults \/ ReloadPrimaryTables \/ ForceTakeOver \/ \E g \in Gateways : SetActive(g)
  <2>1. CASE UNCHANGED vars
    BY <2>1 DEF vars
  <2>2. CASE StandbyStep /\ ~MergeCrash
    BY <2>2, StandbyPasses DEF Onward, Advances
  <2>3. CASE MergeCrash
    BY <2>3 DEF MergeCrash
  <2>4. CASE CommStep \/ SendReply \/ PrimaryPass \/ TablesReloaded \/ Tick
    BY <2>4 DEF CommStep, SendIdentifier, InterSiteMessageIn, SendReply, PrimaryPass, TablesReloaded, Tick
  <2>5. CASE Fault
    BY <2>5 DEF Fault, Restart, HealLink
  <2>6. CASE Operator
    BY <2>6 DEF Operator
  <2>7. CASE \E g \in Gateways : OtherSiteMessageIn(g)
    BY <2>7 DEF OtherSiteMessageIn
  <2>. QED BY <2>1, <2>2, <2>3, <2>4, <2>5, <2>6, <2>7 DEF Next
<1>2. faults \in Budget
  BY TypesSplit
<1>. QED BY <1>1, <1>2 DEF Lost, Budget, ReloadPrimaryTables, ForceTakeOver, SetActive, Command

LEMMA TogetherAgain ==
  ASSUME TypeOK, NEW p \in 0 .. Cost, NEW q \in Nat, Yields(q)',
         \/ q = p /\ Lost' = Lost
         \/ q = p /\ Lost' = Lost + 1
         \/ q = p + Longest /\ Lost' = Lost + 1
  PROVE  Together'
<1>1. Cost \in Nat /\ (Lost' = Lost => Cost' = Cost) /\ (Lost' = Lost + 1 => Cost' = Cost + Longest)
  BY CostGrows
<1>2. q \in 0 .. Cost'
  BY <1>1, LongestIsNat
<1>. QED BY <1>2 DEF Together

LEMMA TogetherNext ==
  ASSUME TInv, [Next]_vars, ~OtherSites, hotcutovertime >= 2
  PROVE  TInv'
<1>1. IInv /\ TypeOK /\ IInv' /\ TypeOK'
  BY NextKeeps DEF TInv, IInv
<1>2. PICK p \in 0 .. Cost : Yields(p)
  BY DEF TInv, Together
<1>3. p \in Nat /\ p + Longest \in Nat
  BY <1>1, CostGrows, LongestIsNat
<1>4. CASE CutLink \/ Crash(Prim)
  BY <1>1, <1>2, <1>3, <1>4, YieldsLoss, TogetherAgain DEF TInv
<1>5. CASE Crash(Stby)
  <2>1. Stop(Stby) /\ Lost' = Lost + 1
    <3>1. faults \in Budget
      BY <1>1, TypesSplit
    <3>2. faults'.cuts = faults.cuts /\ faults'.crashes = faults.crashes + 1
      BY <1>5, <3>1 DEF Crash, Budget
    <3>. QED BY <1>1, <1>5, <3>2, FaultsTyped, Periods DEF Crash, Lost
  <2>. QED BY <1>1, <1>2, <1>3, <2>1, YieldsStop, TogetherAgain DEF TInv
<1>6. CASE ~CutLink /\ \A g \in Gateways : ~Crash(g)
  <2>1. Lost' = Lost
    BY <1>1, <1>6, LostStays
  <2>2. Yields(p)'
    <3>1. CASE UNCHANGED vars
      BY <1>2, <3>1 DEF vars, Yields, YieldsSoon, Longest
    <3>2. CASE CommStep
      BY <1>1, <1>2, <1>3, <3>2, YieldsIdentifier, YieldsMessageIn DEF CommStep
    <3>3. CASE SendReply \/ PrimaryPass \/ TablesReloaded \/ Operator
      BY <1>1, <1>2, <1>3, <3>3, YieldsElsewhere DEF Operator
    <3>4. CASE StandbyStep /\ ~MergeCrash
      BY <1>1, <1>2, <1>3, <3>4, YieldsPass
    <3>5. CASE MergeCrash
      BY <1>1, <1>2, <1>3, <3>5, YieldsStop DEF MergeCrash
    <3>6. CASE Tick
      BY <1>1, <1>2, <1>3, <3>6, YieldsTick
    <3>7. CASE Fault
      BY <1>1, <1>2, <1>3, <1>6, <3>7, YieldsRestart, YieldsElsewhere DEF Fault
    <3>8. ~(\E g \in Gateways : OtherSiteMessageIn(g))
      BY DEF OtherSiteMessageIn
    <3>. QED BY <3>1, <3>2, <3>3, <3>4, <3>5, <3>6, <3>7, <3>8 DEF Next
  <2>. QED BY <1>1, <1>2, <1>3, <2>1, <2>2, TogetherAgain DEF TInv
<1>. QED BY <1>4, <1>5, <1>6, Pair

(* Two gateways that can talk are not both active for longer than a period of *)
(* the identifier, the delay of a message and the wait of HandBackOver, and   *)
(* once more the first two for every cut and every crash: whatever is         *)
(* reloaded, commanded, answered by the database or crashed by a merge.  A    *)
(* third gateway is left out, its identifiers would fill the buffer; the      *)
(* configuration accepts no cut-over time below 3 (settings.cpp:201).         *)
THEOREM SplitBrainEnds ==
  ASSUME ~OtherSites, hotcutovertime > 2,
         MaxBoth >= (MaxCuts + MaxCrashes + 1) * (ClusterInterval + 1 + MaxDelay) + HandoverDelay + 3
  PROVE  Spec => []SplitBrainBounded
<1>1. Init => TInv
  BY FirstYields
<1>2. TInv /\ [Next]_vars => TInv'
  BY TogetherNext, Periods
<1>3. TInv => SplitBrainBounded
  <2>. SUFFICES ASSUME TInv PROVE SplitBrainBounded
    OBVIOUS
  <2>1. PICK p \in 0 .. Cost : Yields(p)
    BY DEF TInv, Together
  <2>2. seen.both \in Nat /\ seen.both <= p + Longest + HandoverDelay + 3
    BY <2>1, BothTyped DEF TInv, IInv, Yields
  <2>3. Cost \in Nat /\ Cost <= (MaxCuts + MaxCrashes) * Longest
    BY CostGrows DEF TInv, IInv
  <2>4. (MaxCuts + MaxCrashes + 1) * Longest = (MaxCuts + MaxCrashes) * Longest + Longest
        /\ (MaxCuts + MaxCrashes) * Longest \in Nat
    <3>1. \A n, k \in Nat : n * k \in Nat /\ (n + 1) * k = n * k + k
      OBVIOUS
    <3>. QED BY <3>1, LongestIsNat, Periods
  <2>5. MaxBoth >= (MaxCuts + MaxCrashes + 1) * Longest + HandoverDelay + 3
    BY DEF Longest
  <2>. DEFINE x == (MaxCuts + MaxCrashes) * Longest
              y == (MaxCuts + MaxCrashes + 1) * Longest
  <2>6. Cost <= x /\ y = x + Longest /\ x \in Nat /\ MaxBoth >= y + HandoverDelay + 3
    BY <2>3, <2>4, <2>5
  <2>. HIDE DEF x, y
  <2>. QED BY <2>2, <2>3, <2>6, Periods, LongestIsNat DEF SplitBrainBounded
<1>. QED BY <1>1, <1>2, <1>3, PTL DEF Spec

-----------------------------------------------------------------------------
(* Nobody active: how long the hot-standby pair can be without an active      *)
(* gateway, for any periods, any delay of the messages and any number of      *)
(* crashes, cuts and reloads.                                                 *)
(*                                                                            *)
(* A gateway that is alone becomes active by itself: the standby when the     *)
(* silence has lasted the cut-over time and a lap of its states, the          *)
(* primary after its own time-out.  Two that are connected hear of each       *)
(* other: the standby orders the primary to be inactive only as long as it    *)
(* has not heard it, and the primary goes active when told that nobody is.    *)

(* What the two loops keep between them.                                      *)
Standing ==
  /\ sb.state \in {"RunActive", "HandBackOver"} => IsActive[Stby]
  /\ IsActive[Stby] /\ Stby \in due => seen.dark = 0
  /\ sb.state = "Reset" /\ Stby \in up => Stby \in due /\ seen.dark = 0
  /\ linkUp => up = Gateways
  /\ ~linkUp => link[Prim] = << >> /\ link[Stby] = << >>
  /\ slot[Prim] # None => slot[Prim].from = pr.standby
  /\ slot[Stby] # None => slot[Stby].from = Prim
  /\ ~sb.force
  /\ Stby \notin up => sb.state = "Reset"
  /\ up = {} => seen.dark = 0

(* The course of the standby's states.                                        *)
OnCourse ==
  /\ sb.state \in {"RequestCredentials", "WaitForCredentials"} => sb.heard
  /\ sb.state = "ReceivedCredentials" /\ Stby \in due => sb.sinceReq >= 1
  /\ sb.state \in {"StoreTables", "ActivateTables"} => RouteTableAllocated
  /\ sb.state = "WaitForPrimaryToFail" /\ Stby \notin due /\ PrimaryLost => sb.inState = 0

(* The standby alone: the seconds from each of its states to RunActive when   *)
(* the silence is already long enough.                                        *)
Pause == IF Stby \in due THEN 0 ELSE 1
More(period, spent) == IF spent > period THEN 0 ELSE period + 1 - spent
FromWait == TakeOverWaitTime + 2
FromSync == FromWait + 2 + (IF RouteTableAllocated THEN RebuildTime + 2 ELSE 0)
FromReceived == Largest({RetryDbxTime, 1}) + 2 + FromSync
Try == CredentialTimeout + 4
Tries == (IF sb.credFails > CredentialFailMax THEN 1 ELSE CredentialFailMax + 1 - sb.credFails) * Try
LongestLap ==
  Largest({ResponseTime + 3 + FromWait, (CredentialFailMax + 1) * Try + FromWait, FromReceived + 4})
FromStartup ==
  IF ~sb.heard THEN ResponseTime + 3 + FromWait
  ELSE IF sb.credsOK THEN FromReceived + 4 ELSE Tries + FromWait
InNext == sb.inState + Pause
ReqNext == sb.sinceReq + Pause

Lap ==
  CASE sb.state = "Reset" -> LongestLap + 1
    [] sb.state = "Startup" -> FromStartup
    [] sb.state = "FindPrimary" ->
         IF sb.heard THEN FromStartup - 1 ELSE More(ResponseTime, ReqNext) + 2 + FromWait
    [] sb.state = "RequestCredentials" -> FromStartup - 2
    [] sb.state = "WaitForCredentials" ->
         IF sb.credsOK THEN FromReceived + 1
         ELSE (Tries - Try) + More(CredentialTimeout, ReqNext) + 1 + FromWait
    [] sb.state = "ReceivedCredentials" -> More(RetryDbxTime, ReqNext + 1) + 3 + FromSync
    [] sb.state = "ConnenctToDB" -> More(RetryDbxTime, ReqNext) + 2 + FromSync
    [] sb.state = "FailedToAccessDB" -> FromSync + 1
    [] sb.state = "Synchronizing" -> FromSync
    [] sb.state = "MergeTables" -> FromSync - 1
    [] sb.state = "StoreTables" -> FromSync - 2
    [] sb.state = "ActivateTables" -> More(RebuildTime, InNext) + 1 + FromWait
    [] sb.state \in {"FailedReadTables", "CantContactPrimary"} -> FromWait + 1
    [] sb.state = "WaitForPrimaryToFail" ->
         IF InNext > hotcutovertime + RetryDbxTime THEN LongestLap + 1 ELSE FromWait
    [] sb.state = "TakingOver" -> TakeOverWaitTime + 1
    [] sb.state = "TakeOverWait" -> More(TakeOverWaitTime, InNext)
    [] OTHER -> 0

(* The seconds before that until the silence is long enough.                  *)
Mourning ==
  IF slot[Stby] # None THEN hotcutovertime + 1 + Pause ELSE hotcutovertime + 1 - sb.sinceOK

Left ==
  IF IsActive[Stby] THEN 0
  ELSE IF Mourning > 0 THEN Mourning + LongestLap + 1 ELSE Lap + Pause

AloneLimit == hotcutovertime + 3 + LongestLap
Alone == Stby \in up /\ Prim \notin up => seen.dark + Left <= AloneLimit

(* The primary runs and the connection is cut: only its own time-out.         *)
SilentLimit == RejectTime + 2
Apart(p) ==
  \/ seen.dark <= p
  \/ slot[Prim] # None /\ Prim \in due /\ seen.dark <= p + 1
  \/ /\ slot[Prim] = None /\ seen.dark <= p + pr.sinceMsg + 1
     /\ Prim \in due \/ pr.sinceMsg <= RejectTime \/ IsActive[Prim]

(* An identifier is n seconds late at most: due, on its way or to be read.    *)
Underway(s, n) == \E i \in 1..Len(s) : s[i].body.kind = "site" /\ n <= ClusterInterval + 1 + s[i].age
Coming(from, to, n) ==
  \/ n <= sinceId[from] \/ Underway(link[to], n)
  \/ slot[to] # None /\ n <= Longest + (IF to \in due THEN 1 ELSE 0)

(* Both run and are connected since second q of the dark; d are the seconds   *)
(* dark, s those since the standby heard the primary.  It will hear it, gives *)
(* its last order to be inactive soon after, and then the primary hears that  *)
(* nobody is active.                                                          *)
LastOrder == Longest + 2 + MaxDelay
OldLetter(l, q, d) ==
  /\ l.body.kind = "site" /\ l.body.msg.isactive => IsActive[Stby] \/ d <= q + l.age
  /\ l.body.kind = "be_inactive" => d <= q + Longest + 2 + l.age
Joined(q, d, s) ==
  /\ Coming(Prim, Stby, d - q) \/ Coming(Prim, Stby, s)
  /\ sb.state = "TakingOver" => d <= q + Longest + 1 + (IF Stby \in due THEN 1 ELSE 0)
  /\ \A i \in 1..Len(link[Prim]) : OldLetter(link[Prim][i], q, d)
  /\ slot[Prim] # None /\ slot[Prim].isactive =>
       IsActive[Stby] \/ d <= q + MaxDelay + (IF Prim \in due THEN 1 ELSE 0)
  /\ IsActive[Prim] \/ IsActive[Stby] \/ Coming(Stby, Prim, d - q - LastOrder)
PairLimit == SilentLimit + LastOrder + Longest + 1
Dark(p) ==
  /\ seen.dark <= p + PairLimit
  /\ ~linkUp => Apart(p)
  /\ linkUp => Joined(p + SilentLimit, seen.dark, sb.sinceOK)
Served == Prim \in up => \E p \in 0 .. faults.cuts * PairLimit : Dark(p)

DInv == IInv /\ Standing /\ OnCourse /\ Alone /\ Served

-----------------------------------------------------------------------------
(* The timetable of the standby: what each pass does to its state and clocks. *)
Steady == sb'.credFails = sb.credFails /\ sb'.sinceReq = sb.sinceReq
SyncTable ==
  \/ sb.state = "Reset" /\ sb'.state = "Startup"
  \/ sb.state = "Startup" /\ sb'.state = "FindPrimary" /\ sb'.sinceReq = 0 /\ sb'.credFails = sb.credFails
  \/ /\ sb.state = "FindPrimary" /\ Steady
     /\ sb'.state = IF sb.sinceReq > ResponseTime THEN "CantContactPrimary"
                    ELSE IF sb.heard \/ slot[Stby] # None THEN "RequestCredentials" ELSE "FindPrimary"
  \/ /\ sb.state = "RequestCredentials" /\ sb'.state = "WaitForCredentials"
     /\ sb'.sinceReq = 0 /\ sb'.credFails = sb.credFails
  \/ /\ sb.state = "WaitForCredentials" /\ sb.credsOK
     /\ sb'.state = "ReceivedCredentials" /\ sb'.sinceReq = 0
  \/ /\ sb.state = "WaitForCredentials" /\ ~sb.credsOK /\ sb.sinceReq <= CredentialTimeout
     /\ sb'.state = "WaitForCredentials" /\ Steady
  \/ /\ sb.state = "WaitForCredentials" /\ ~sb.credsOK /\ sb.sinceReq > CredentialTimeout
     /\ sb'.state = IF sb.credFails + 1 > CredentialFailMax THEN "WaitForPrimaryToFail" ELSE "Startup"
     /\ sb'.credFails = IF sb.credFails > CredentialFailMax THEN sb.credFails ELSE sb.credFails + 1
  \/ sb.state = "ReceivedCredentials" /\ sb'.state = "ConnenctToDB" /\ Steady
  \/ /\ sb.state = "ConnenctToDB" /\ Steady
     /\ \/ sb'.state \in {"FailedToAccessDB", "Synchronizing"}
        \/ sb'.state = "ConnenctToDB" /\ sb.sinceReq <= RetryDbxTime
  \/ sb.state = "FailedToAccessDB" /\ sb'.state \in {"Synchronizing", "WaitForPrimaryToFail"}
  \/ sb.state = "Synchronizing" /\ sb'.state \in {"MergeTables", "FailedReadTables"}
  \/ sb.state = "FailedReadTables" /\ sb'.state = "WaitForPrimaryToFail"
  \/ sb.state = "CantContactPrimary" /\ sb'.state = "WaitForPrimaryToFail"
  \/ sb.state = "MergeTables" /\ sb'.state = "StoreTables" /\ RouteTableAllocated
  \/ sb.state = "StoreTables" /\ sb'.state = "ActivateTables"
  \/ /\ sb.state = "ActivateTables"
     /\ \/ sb'.state = "WaitForPrimaryToFail"
        \/ sb'.state = "ActivateTables" /\ sb.inState <= RebuildTime
TakeOverTable ==
  \/ /\ sb.state = "WaitForPrimaryToFail"
     /\ \/ sb'.state = "Startup" /\ sb.inState > hotcutovertime + RetryDbxTime
        \/ sb'.state = "TakingOver" /\ (PrimaryLost \/ sb.force)
        \/ sb'.state = "WaitForPrimaryToFail" /\ ~PrimaryLost
  \/ sb.state = "TakingOver" /\ sb'.state = "TakeOverWait"
  \/ /\ sb.state = "TakeOverWait"
     /\ \/ sb'.state = "Startup" /\ PrimaryBack
        \/ sb'.state = "RunActive" /\ sb.inState > TakeOverWaitTime
        \/ sb'.state = "TakeOverWait" /\ sb.inState <= TakeOverWaitTime
     /\ IsActive'[Stby] <=> (IsActive[Stby] \/ sb.inState > TakeOverWaitTime)
  \/ sb.state = "RunActive" /\ sb'.state \in {"RunActive", "HandBackOver"} /\ IsActive'[Stby] = IsActive[Stby]
  \/ /\ sb.state = "HandBackOver"
     /\ \/ sb'.state = "HandBackOver" /\ IsActive'[Stby] = IsActive[Stby]
        \/ sb'.state = "Startup" /\ ~IsActive'[Stby]

(* What a pass does in any state.                                             *)
EachPass ==
  /\ Stby \in due /\ due' = due \ {Stby} /\ up' = up /\ sinceId' = sinceId /\ linkUp' = linkUp
  /\ pr' = pr /\ faults' = faults /\ slot'[Stby] = None /\ slot'[Prim] = slot[Prim]
  /\ seen'.dark = seen.dark /\ IsActive'[Prim] = IsActive[Prim]
  /\ sb.state \notin TakenOver => IsActive' = IsActive
  /\ sb'.credsOK = sb.credsOK /\ (sb'.heard <=> sb.heard \/ slot[Stby] # None)
  /\ sb'.force => sb.force
  /\ sb'.inState = IF sb'.state = sb.state THEN sb.inState ELSE 0
  /\ sb.state # "Reset" => sb'.sinceOK = IF FromPrimary THEN 0 ELSE sb.sinceOK
  /\ link'[Stby] = link[Stby]
  /\ \/ link'[Prim] = link[Prim]
     \/ \E b \in Body : /\ b.kind \in {"query", "be_inactive", "be_active"}
                        /\ b.kind = "be_inactive" => sb.state \in {"TakingOver", "RunActive", "HandBackOver"}
                        /\ link'[Prim] = Append(link[Prim], [body |-> b, age |-> 0])

(* The fields that a pass leaves or sets, for the record it makes.            *)
LEMMA PassKept ==
  ASSUME TypeOK, NEW state, NEW new \in StandbyState, StandbyPass(state, new)
  PROVE  /\ sb.state = state /\ sb'.state = new.state
         /\ sb'.sinceReq = new.sinceReq /\ sb'.credFails = new.credFails /\ sb'.credsOK = new.credsOK
         /\ (sb'.heard <=> new.heard) /\ sb'.sinceOK = new.sinceOK
         /\ sb'.inState = IF new.state = sb.state THEN new.inState ELSE 0
BY PassTimes

(* What the message that was read changes in the standby.                     *)
LEMMA ReadKept ==
  ASSUME TypeOK
  PROVE  \E r \in StandbyState :
           /\ r = ReadSlot /\ r.state = sb.state /\ r.inState = sb.inState
           /\ r.sinceOK = IF FromPrimary THEN 0 ELSE sb.sinceOK
           /\ r.sinceReq = sb.sinceReq /\ r.credFails = sb.credFails
           /\ r.credsOK = sb.credsOK /\ (r.heard <=> sb.heard \/ slot[Stby] # None)
BY ReadSlotTyped, ReadSlotTimes

(* A record that a pass makes keeps what no pass changes.                       *)
Fields(n) ==
  /\ n.credsOK = sb.credsOK /\ (n.heard <=> sb.heard \/ slot[Stby] # None)
  /\ n.inState = sb.inState
  /\ sb.state # "Reset" => n.sinceOK = IF FromPrimary THEN 0 ELSE sb.sinceOK
PassFields ==
  /\ sb'.credsOK = sb.credsOK /\ (sb'.heard <=> sb.heard \/ slot[Stby] # None)
  /\ sb'.inState = IF sb'.state = sb.state THEN sb.inState ELSE 0
  /\ sb.state # "Reset" => sb'.sinceOK = IF FromPrimary THEN 0 ELSE sb.sinceOK

LEMMA FieldsPassed ==
  ASSUME TypeOK, NEW state, NEW new \in StandbyState, StandbyPass(state, new), Fields(new)
  PROVE  PassFields
BY PassKept DEF Fields, PassFields

(* The values that the passes give.                                           *)
LEMMA PassValues ==
  /\ {"Startup", "FindPrimary", "CantContactPrimary", "RequestCredentials", "ReceivedCredentials",
       "WaitForPrimaryToFail", "ConnenctToDB", "FailedToAccessDB", "Synchronizing", "MergeTables",
       "FailedReadTables", "StoreTables", "ActivateTables", "WaitForCredentials", "TakingOver",
       "TakeOverWait", "RunActive", "HandBackOver"} \subseteq StbySyncState
  /\ 0 \in Flags /\ 0 \in Silence /\ 0 \in 0 .. LongestReq /\ 0 \in 0 .. (CredentialFailMax + 1)
BY Periods, Longests DEF StbySyncState, Flags, Silence

(* The row of the timetable for Reset.                                        *)
LEMMA ResetRow ==
  ASSUME TypeOK, Reset
  PROVE  sb.state = "Reset" /\ PassFields /\ sb'.state = "Startup"
<1>1. PICK r \in StandbyState :
        /\ r = ReadSlot /\ r.state = sb.state /\ r.inState = sb.inState
        /\ r.sinceOK = IF FromPrimary THEN 0 ELSE sb.sinceOK
        /\ r.sinceReq = sb.sinceReq /\ r.credFails = sb.credFails
        /\ r.credsOK = sb.credsOK /\ (r.heard <=> sb.heard \/ slot[Stby] # None)
  BY ReadKept
<1>2. sb.state = "Reset" /\ sb.state \in StbySyncState
  BY SbTyped DEF Reset, StandbyPass
<1>. DEFINE new == [r EXCEPT !.state = "Startup", !.routes = 0, !.others = 0,
                              !.inSync = FALSE, !.sinceOK = 0, !.credFails = 0]
<1>4. new \in StandbyState /\ Fields(new) /\ new.state = "Startup"
  <2>1. new \in StandbyState
    BY <1>1, PassValues DEF StandbyState
  <2>2. Fields(new)
    BY <1>1, <1>2, PassValues DEF StandbyState, Fields
  <2>3. new.state = "Startup"
    BY <1>1, <1>2, SbTyped, Periods, PassValues DEF StandbyState
  <2>. QED BY <2>1, <2>2, <2>3
<1>5. StandbyPass("Reset", new)
  BY <1>1 DEF Reset
<1>. HIDE DEF new
<1>6. PICK n \in StandbyState : n = new
  BY <1>4
<1>7. StandbyPass("Reset", n) /\ Fields(n)
  BY <1>4, <1>5, <1>6 DEF StandbyPass, Settle
<1>8. sb'.state = n.state /\ sb'.sinceReq = n.sinceReq /\ sb'.credFails = n.credFails
  BY <1>7, PassKept
<1>9. PassFields
  BY <1>7, FieldsPassed
<1>. QED BY <1>2, <1>4, <1>6, <1>8, <1>9

(* The row of the timetable for Startup.                                      *)
LEMMA StartupRow ==
  ASSUME TypeOK, Startup
  PROVE  sb.state = "Startup" /\ PassFields /\ sb'.state = "FindPrimary" /\ sb'.sinceReq = 0 /\ sb'.credFails = sb.credFails
<1>1. PICK r \in StandbyState :
        /\ r = ReadSlot /\ r.state = sb.state /\ r.inState = sb.inState
        /\ r.sinceOK = IF FromPrimary THEN 0 ELSE sb.sinceOK
        /\ r.sinceReq = sb.sinceReq /\ r.credFails = sb.credFails
        /\ r.credsOK = sb.credsOK /\ (r.heard <=> sb.heard \/ slot[Stby] # None)
  BY ReadKept
<1>2. sb.state = "Startup" /\ sb.state \in StbySyncState
  BY SbTyped DEF Startup, StandbyPass
<1>. DEFINE new == [r EXCEPT !.state = "FindPrimary", !.sinceReq = 0]
<1>4. new \in StandbyState /\ Fields(new) /\ new.state = "FindPrimary" /\ new.sinceReq = 0 /\ new.credFails = sb.credFails
  <2>1. new \in StandbyState
    BY <1>1, PassValues DEF StandbyState
  <2>2. Fields(new)
    BY <1>1, <1>2, PassValues DEF StandbyState, Fields
  <2>3. new.state = "FindPrimary" /\ new.sinceReq = 0 /\ new.credFails = sb.credFails
    BY <1>1, <1>2, SbTyped, Periods, PassValues DEF StandbyState
  <2>. QED BY <2>1, <2>2, <2>3
<1>5. StandbyPass("Startup", new)
  BY <1>1 DEF Startup
<1>. HIDE DEF new
<1>6. PICK n \in StandbyState : n = new
  BY <1>4
<1>7. StandbyPass("Startup", n) /\ Fields(n)
  BY <1>4, <1>5, <1>6 DEF StandbyPass, Settle
<1>8. sb'.state = n.state /\ sb'.sinceReq = n.sinceReq /\ sb'.credFails = n.credFails
  BY <1>7, PassKept
<1>9. PassFields
  BY <1>7, FieldsPassed
<1>. QED BY <1>2, <1>4, <1>6, <1>8, <1>9

(* The row of the timetable for FindPrimary.                                  *)
LEMMA FindPrimaryRow ==
  ASSUME TypeOK, FindPrimary
  PROVE  sb.state = "FindPrimary" /\ PassFields /\ sb'.credFails = sb.credFails /\ sb'.sinceReq = sb.sinceReq
             /\ sb'.state = (IF sb.sinceReq > ResponseTime THEN "CantContactPrimary"
                           ELSE IF sb.heard \/ slot[Stby] # None THEN "RequestCredentials" ELSE "FindPrimary")
<1>1. PICK r \in StandbyState :
        /\ r = ReadSlot /\ r.state = sb.state /\ r.inState = sb.inState
        /\ r.sinceOK = IF FromPrimary THEN 0 ELSE sb.sinceOK
        /\ r.sinceReq = sb.sinceReq /\ r.credFails = sb.credFails
        /\ r.credsOK = sb.credsOK /\ (r.heard <=> sb.heard \/ slot[Stby] # None)
  BY ReadKept
<1>2. sb.state = "FindPrimary" /\ sb.state \in StbySyncState
  BY SbTyped DEF FindPrimary, StandbyPass
<1>. DEFINE new == [r EXCEPT !.state = IF sb.sinceReq > ResponseTime THEN "CantContactPrimary"
                                       ELSE IF r.heard THEN "RequestCredentials" ELSE @]
<1>4. new \in StandbyState /\ Fields(new) /\ new.credFails = sb.credFails /\ new.sinceReq = sb.sinceReq
             /\ new.state = (IF sb.sinceReq > ResponseTime THEN "CantContactPrimary"
                           ELSE IF sb.heard \/ slot[Stby] # None THEN "RequestCredentials" ELSE "FindPrimary")
  <2>1. new \in StandbyState
    BY <1>1, PassValues DEF StandbyState
  <2>2. Fields(new)
    BY <1>1, <1>2, PassValues DEF StandbyState, Fields
  <2>3. new.credFails = sb.credFails /\ new.sinceReq = sb.sinceReq
             /\ new.state = (IF sb.sinceReq > ResponseTime THEN "CantContactPrimary"
                           ELSE IF sb.heard \/ slot[Stby] # None THEN "RequestCredentials" ELSE "FindPrimary")
    BY <1>1, <1>2, SbTyped, Periods, PassValues DEF StandbyState
  <2>. QED BY <2>1, <2>2, <2>3
<1>5. StandbyPass("FindPrimary", new)
  BY <1>1 DEF FindPrimary
<1>. HIDE DEF new
<1>6. PICK n \in StandbyState : n = new
  BY <1>4
<1>7. StandbyPass("FindPrimary", n) /\ Fields(n)
  BY <1>4, <1>5, <1>6 DEF StandbyPass, Settle
<1>8. sb'.state = n.state /\ sb'.sinceReq = n.sinceReq /\ sb'.credFails = n.credFails
  BY <1>7, PassKept
<1>9. PassFields
  BY <1>7, FieldsPassed
<1>. QED BY <1>2, <1>4, <1>6, <1>8, <1>9

(* The row of the timetable for RequestCredentials.                           *)
LEMMA RequestCredentialsRow ==
  ASSUME TypeOK, RequestCredentials
  PROVE  sb.state = "RequestCredentials" /\ PassFields /\ sb'.state = "WaitForCredentials" /\ sb'.sinceReq = 0 /\ sb'.credFails = sb.credFails
<1>1. PICK r \in StandbyState :
        /\ r = ReadSlot /\ r.state = sb.state /\ r.inState = sb.inState
        /\ r.sinceOK = IF FromPrimary THEN 0 ELSE sb.sinceOK
        /\ r.sinceReq = sb.sinceReq /\ r.credFails = sb.credFails
        /\ r.credsOK = sb.credsOK /\ (r.heard <=> sb.heard \/ slot[Stby] # None)
  BY ReadKept
<1>2. sb.state = "RequestCredentials" /\ sb.state \in StbySyncState
  BY SbTyped DEF RequestCredentials, StandbyPass
<1>. DEFINE new == [r EXCEPT !.state = "WaitForCredentials", !.sinceReq = 0]
<1>4. new \in StandbyState /\ Fields(new) /\ new.state = "WaitForCredentials" /\ new.sinceReq = 0 /\ new.credFails = sb.credFails
  <2>1. new \in StandbyState
    BY <1>1, PassValues DEF StandbyState
  <2>2. Fields(new)
    BY <1>1, <1>2, PassValues DEF StandbyState, Fields
  <2>3. new.state = "WaitForCredentials" /\ new.sinceReq = 0 /\ new.credFails = sb.credFails
    BY <1>1, <1>2, SbTyped, Periods, PassValues DEF StandbyState
  <2>. QED BY <2>1, <2>2, <2>3
<1>5. StandbyPass("RequestCredentials", new)
  BY <1>1 DEF RequestCredentials
<1>. HIDE DEF new
<1>6. PICK n \in StandbyState : n = new
  BY <1>4
<1>7. StandbyPass("RequestCredentials", n) /\ Fields(n)
  BY <1>4, <1>5, <1>6 DEF StandbyPass, Settle
<1>8. sb'.state = n.state /\ sb'.sinceReq = n.sinceReq /\ sb'.credFails = n.credFails
  BY <1>7, PassKept
<1>9. PassFields
  BY <1>7, FieldsPassed
<1>. QED BY <1>2, <1>4, <1>6, <1>8, <1>9

(* The row of the timetable for ReceivedCredentials.                          *)
LEMMA ReceivedCredentialsRow ==
  ASSUME TypeOK, ReceivedCredentials
  PROVE  sb.state = "ReceivedCredentials" /\ PassFields /\ sb'.state = "ConnenctToDB" /\ sb'.credFails = sb.credFails /\ sb'.sinceReq = sb.sinceReq
<1>1. PICK r \in StandbyState :
        /\ r = ReadSlot /\ r.state = sb.state /\ r.inState = sb.inState
        /\ r.sinceOK = IF FromPrimary THEN 0 ELSE sb.sinceOK
        /\ r.sinceReq = sb.sinceReq /\ r.credFails = sb.credFails
        /\ r.credsOK = sb.credsOK /\ (r.heard <=> sb.heard \/ slot[Stby] # None)
  BY ReadKept
<1>2. sb.state = "ReceivedCredentials" /\ sb.state \in StbySyncState
  BY SbTyped DEF ReceivedCredentials, StandbyPass
<1>. DEFINE new == [r EXCEPT !.state = "ConnenctToDB"]
<1>4. new \in StandbyState /\ Fields(new) /\ new.state = "ConnenctToDB" /\ new.credFails = sb.credFails /\ new.sinceReq = sb.sinceReq
  <2>1. new \in StandbyState
    BY <1>1, PassValues DEF StandbyState
  <2>2. Fields(new)
    BY <1>1, <1>2, PassValues DEF StandbyState, Fields
  <2>3. new.state = "ConnenctToDB" /\ new.credFails = sb.credFails /\ new.sinceReq = sb.sinceReq
    BY <1>1, <1>2, SbTyped, Periods, PassValues DEF StandbyState
  <2>. QED BY <2>1, <2>2, <2>3
<1>5. StandbyPass("ReceivedCredentials", new)
  BY <1>1 DEF ReceivedCredentials
<1>. HIDE DEF new
<1>6. PICK n \in StandbyState : n = new
  BY <1>4
<1>7. StandbyPass("ReceivedCredentials", n) /\ Fields(n)
  BY <1>4, <1>5, <1>6 DEF StandbyPass, Settle
<1>8. sb'.state = n.state /\ sb'.sinceReq = n.sinceReq /\ sb'.credFails = n.credFails
  BY <1>7, PassKept
<1>9. PassFields
  BY <1>7, FieldsPassed
<1>. QED BY <1>2, <1>4, <1>6, <1>8, <1>9

(* The row of the timetable for ConnenctToDB.                                 *)
LEMMA ConnenctToDBRow ==
  ASSUME TypeOK, ConnenctToDB
  PROVE  sb.state = "ConnenctToDB" /\ PassFields /\ sb'.credFails = sb.credFails /\ sb'.sinceReq = sb.sinceReq
             /\ (sb'.state \in {"FailedToAccessDB", "Synchronizing"}
                 \/ (sb'.state = "ConnenctToDB" /\ sb.sinceReq <= RetryDbxTime))
<1>1. PICK r \in StandbyState :
        /\ r = ReadSlot /\ r.state = sb.state /\ r.inState = sb.inState
        /\ r.sinceOK = IF FromPrimary THEN 0 ELSE sb.sinceOK
        /\ r.sinceReq = sb.sinceReq /\ r.credFails = sb.credFails
        /\ r.credsOK = sb.credsOK /\ (r.heard <=> sb.heard \/ slot[Stby] # None)
  BY ReadKept
<1>2. sb.state = "ConnenctToDB" /\ sb.state \in StbySyncState
  BY SbTyped DEF ConnenctToDB, StandbyPass
<1>3. PICK ok \in BOOLEAN : StandbyPass("ConnenctToDB",
            [ReadSlot EXCEPT !.connected = ok,
              !.state = IF sb.sinceReq > RetryDbxTime THEN "FailedToAccessDB"
                        ELSE IF ok THEN "Synchronizing" ELSE @])
  BY NamesAssumption DEF ConnenctToDB
<1>. DEFINE new == [r EXCEPT !.connected = ok,
              !.state = IF sb.sinceReq > RetryDbxTime THEN "FailedToAccessDB"
                        ELSE IF ok THEN "Synchronizing" ELSE @]
<1>4. new \in StandbyState /\ Fields(new) /\ new.credFails = sb.credFails /\ new.sinceReq = sb.sinceReq
             /\ (new.state \in {"FailedToAccessDB", "Synchronizing"}
                 \/ (new.state = "ConnenctToDB" /\ sb.sinceReq <= RetryDbxTime))
  <2>1. new \in StandbyState
    BY <1>1, PassValues DEF StandbyState
  <2>2. Fields(new)
    BY <1>1, <1>2, PassValues DEF StandbyState, Fields
  <2>3. new.credFails = sb.credFails /\ new.sinceReq = sb.sinceReq
             /\ (new.state \in {"FailedToAccessDB", "Synchronizing"}
                 \/ (new.state = "ConnenctToDB" /\ sb.sinceReq <= RetryDbxTime))
    BY <1>1, <1>2, SbTyped, Periods, PassValues DEF StandbyState
  <2>. QED BY <2>1, <2>2, <2>3
<1>5. StandbyPass("ConnenctToDB", new)
  BY <1>1, <1>3
<1>. HIDE DEF new
<1>6. PICK n \in StandbyState : n = new
  BY <1>4
<1>7. StandbyPass("ConnenctToDB", n) /\ Fields(n)
  BY <1>4, <1>5, <1>6 DEF StandbyPass, Settle
<1>8. sb'.state = n.state /\ sb'.sinceReq = n.sinceReq /\ sb'.credFails = n.credFails
  BY <1>7, PassKept
<1>9. PassFields
  BY <1>7, FieldsPassed
<1>. QED BY <1>2, <1>4, <1>6, <1>8, <1>9

(* The row of the timetable for FailedToAccessDB.                             *)
LEMMA FailedToAccessDBRow ==
  ASSUME TypeOK, FailedToAccessDB
  PROVE  sb.state = "FailedToAccessDB" /\ PassFields /\ sb'.state \in {"Synchronizing", "WaitForPrimaryToFail"}
<1>1. PICK r \in StandbyState :
        /\ r = ReadSlot /\ r.state = sb.state /\ r.inState = sb.inState
        /\ r.sinceOK = IF FromPrimary THEN 0 ELSE sb.sinceOK
        /\ r.sinceReq = sb.sinceReq /\ r.credFails = sb.credFails
        /\ r.credsOK = sb.credsOK /\ (r.heard <=> sb.heard \/ slot[Stby] # None)
  BY ReadKept
<1>2. sb.state = "FailedToAccessDB" /\ sb.state \in StbySyncState
  BY SbTyped DEF FailedToAccessDB, StandbyPass
<1>3. PICK ok \in BOOLEAN : StandbyPass("FailedToAccessDB",
            [ReadSlot EXCEPT !.connected = ok,
              !.state = IF ok THEN "Synchronizing" ELSE "WaitForPrimaryToFail"])
  BY NamesAssumption DEF FailedToAccessDB
<1>. DEFINE new == [r EXCEPT !.connected = ok,
              !.state = IF ok THEN "Synchronizing" ELSE "WaitForPrimaryToFail"]
<1>4. new \in StandbyState /\ Fields(new) /\ new.state \in {"Synchronizing", "WaitForPrimaryToFail"}
  <2>1. new \in StandbyState
    BY <1>1, PassValues DEF StandbyState
  <2>2. Fields(new)
    BY <1>1, <1>2, PassValues DEF StandbyState, Fields
  <2>3. new.state \in {"Synchronizing", "WaitForPrimaryToFail"}
    BY <1>1, <1>2, SbTyped, Periods, PassValues DEF StandbyState
  <2>. QED BY <2>1, <2>2, <2>3
<1>5. StandbyPass("FailedToAccessDB", new)
  BY <1>1, <1>3
<1>. HIDE DEF new
<1>6. PICK n \in StandbyState : n = new
  BY <1>4
<1>7. StandbyPass("FailedToAccessDB", n) /\ Fields(n)
  BY <1>4, <1>5, <1>6 DEF StandbyPass, Settle
<1>8. sb'.state = n.state /\ sb'.sinceReq = n.sinceReq /\ sb'.credFails = n.credFails
  BY <1>7, PassKept
<1>9. PassFields
  BY <1>7, FieldsPassed
<1>. QED BY <1>2, <1>4, <1>6, <1>8, <1>9

(* The row of the timetable for Synchronizing.                                *)
LEMMA SynchronizingRow ==
  ASSUME TypeOK, Synchronizing
  PROVE  sb.state = "Synchronizing" /\ PassFields /\ sb'.state \in {"MergeTables", "FailedReadTables"}
<1>1. PICK r \in StandbyState :
        /\ r = ReadSlot /\ r.state = sb.state /\ r.inState = sb.inState
        /\ r.sinceOK = IF FromPrimary THEN 0 ELSE sb.sinceOK
        /\ r.sinceReq = sb.sinceReq /\ r.credFails = sb.credFails
        /\ r.credsOK = sb.credsOK /\ (r.heard <=> sb.heard \/ slot[Stby] # None)
  BY ReadKept
<1>2. sb.state = "Synchronizing" /\ sb.state \in StbySyncState
  BY SbTyped DEF Synchronizing, StandbyPass
<1>3. PICK routes \in Flags, others \in Flags, ok \in BOOLEAN : StandbyPass("Synchronizing",
            [ReadSlot EXCEPT !.routes = routes, !.others = others, !.inSync = ok,
                !.state = IF ok THEN "MergeTables" ELSE "FailedReadTables"])
  <2>1. PICK y \in ReadOutcomes, o \in ReadOutcomes :
          LET routes == IF y THEN pr.flag ELSE sb.routes
              others == IF o THEN pr.flag ELSE sb.others
              ok     == AllRead(routes, others)
          IN  StandbyPass("Synchronizing",
                [ReadSlot EXCEPT !.routes = routes, !.others = others, !.inSync = ok,
                   !.state = IF ok THEN "MergeTables" ELSE "FailedReadTables"])
    BY DEF Synchronizing
  <2>2. PICK routes \in Flags : routes = IF y THEN pr.flag ELSE sb.routes
    BY SbTyped, PrTyped
  <2>3. PICK others \in Flags : others = IF o THEN pr.flag ELSE sb.others
    BY SbTyped, PrTyped
  <2>4. PICK ok \in BOOLEAN : ok = AllRead(routes, others)
    BY DEF AllRead
  <2>5. StandbyPass("Synchronizing",
            [ReadSlot EXCEPT !.routes = routes, !.others = others, !.inSync = ok,
                !.state = IF ok THEN "MergeTables" ELSE "FailedReadTables"])
    BY <2>1, <2>2, <2>3, <2>4
  <2>. QED BY <2>5
<1>. DEFINE new == [r EXCEPT !.routes = routes, !.others = others, !.inSync = ok,
              !.state = IF ok THEN "MergeTables" ELSE "FailedReadTables"]
<1>4. new \in StandbyState /\ Fields(new) /\ new.state \in {"MergeTables", "FailedReadTables"}
  <2>1. new \in StandbyState
    BY <1>1, PassValues DEF StandbyState
  <2>2. Fields(new)
    BY <1>1, <1>2, PassValues DEF StandbyState, Fields
  <2>3. new.state \in {"MergeTables", "FailedReadTables"}
    BY <1>1, <1>2, SbTyped, Periods, PassValues DEF StandbyState
  <2>. QED BY <2>1, <2>2, <2>3
<1>5. StandbyPass("Synchronizing", new)
  BY <1>1, <1>3
<1>. HIDE DEF new
<1>6. PICK n \in StandbyState : n = new
  BY <1>4
<1>7. StandbyPass("Synchronizing", n) /\ Fields(n)
  BY <1>4, <1>5, <1>6 DEF StandbyPass, Settle
<1>8. sb'.state = n.state /\ sb'.sinceReq = n.sinceReq /\ sb'.credFails = n.credFails
  BY <1>7, PassKept
<1>9. PassFields
  BY <1>7, FieldsPassed
<1>. QED BY <1>2, <1>4, <1>6, <1>8, <1>9

(* The row of the timetable for FailedReadTables.                             *)
LEMMA FailedReadTablesRow ==
  ASSUME TypeOK, FailedReadTables
  PROVE  sb.state = "FailedReadTables" /\ PassFields /\ sb'.state = "WaitForPrimaryToFail"
<1>1. PICK r \in StandbyState :
        /\ r = ReadSlot /\ r.state = sb.state /\ r.inState = sb.inState
        /\ r.sinceOK = IF FromPrimary THEN 0 ELSE sb.sinceOK
        /\ r.sinceReq = sb.sinceReq /\ r.credFails = sb.credFails
        /\ r.credsOK = sb.credsOK /\ (r.heard <=> sb.heard \/ slot[Stby] # None)
  BY ReadKept
<1>2. sb.state = "FailedReadTables" /\ sb.state \in StbySyncState
  BY SbTyped DEF FailedReadTables, StandbyPass
<1>. DEFINE new == [r EXCEPT !.state = "WaitForPrimaryToFail", !.connected = FALSE]
<1>4. new \in StandbyState /\ Fields(new) /\ new.state = "WaitForPrimaryToFail"
  <2>1. new \in StandbyState
    BY <1>1, PassValues DEF StandbyState
  <2>2. Fields(new)
    BY <1>1, <1>2, PassValues DEF StandbyState, Fields
  <2>3. new.state = "WaitForPrimaryToFail"
    BY <1>1, <1>2, SbTyped, Periods, PassValues DEF StandbyState
  <2>. QED BY <2>1, <2>2, <2>3
<1>5. StandbyPass("FailedReadTables", new)
  BY <1>1 DEF FailedReadTables
<1>. HIDE DEF new
<1>6. PICK n \in StandbyState : n = new
  BY <1>4
<1>7. StandbyPass("FailedReadTables", n) /\ Fields(n)
  BY <1>4, <1>5, <1>6 DEF StandbyPass, Settle
<1>8. sb'.state = n.state /\ sb'.sinceReq = n.sinceReq /\ sb'.credFails = n.credFails
  BY <1>7, PassKept
<1>9. PassFields
  BY <1>7, FieldsPassed
<1>. QED BY <1>2, <1>4, <1>6, <1>8, <1>9

(* The row of the timetable for MergeTables.                                  *)
LEMMA MergeTablesRow ==
  ASSUME TypeOK, MergeTables
  PROVE  sb.state = "MergeTables" /\ PassFields /\ sb'.state = "StoreTables" /\ RouteTableAllocated
<1>1. PICK r \in StandbyState :
        /\ r = ReadSlot /\ r.state = sb.state /\ r.inState = sb.inState
        /\ r.sinceOK = IF FromPrimary THEN 0 ELSE sb.sinceOK
        /\ r.sinceReq = sb.sinceReq /\ r.credFails = sb.credFails
        /\ r.credsOK = sb.credsOK /\ (r.heard <=> sb.heard \/ slot[Stby] # None)
  BY ReadKept
<1>2. sb.state = "MergeTables" /\ sb.state \in StbySyncState
  BY SbTyped DEF MergeTables, StandbyPass
<1>. DEFINE new == [r EXCEPT !.state = "StoreTables"]
<1>4. new \in StandbyState /\ Fields(new) /\ new.state = "StoreTables" /\ RouteTableAllocated
  <2>1. new \in StandbyState
    BY <1>1, PassValues DEF StandbyState
  <2>2. Fields(new)
    BY <1>1, <1>2, PassValues DEF StandbyState, Fields
  <2>3. new.state = "StoreTables" /\ RouteTableAllocated
    BY <1>1, <1>2, SbTyped, Periods, PassValues DEF StandbyState, MergeTables
  <2>. QED BY <2>1, <2>2, <2>3
<1>5. StandbyPass("MergeTables", new)
  BY <1>1 DEF MergeTables
<1>. HIDE DEF new
<1>6. PICK n \in StandbyState : n = new
  BY <1>4
<1>7. StandbyPass("MergeTables", n) /\ Fields(n)
  BY <1>4, <1>5, <1>6 DEF StandbyPass, Settle
<1>8. sb'.state = n.state /\ sb'.sinceReq = n.sinceReq /\ sb'.credFails = n.credFails
  BY <1>7, PassKept
<1>9. PassFields
  BY <1>7, FieldsPassed
<1>. QED BY <1>2, <1>4, <1>6, <1>8, <1>9

(* The row of the timetable for StoreTables.                                  *)
LEMMA StoreTablesRow ==
  ASSUME TypeOK, StoreTables
  PROVE  sb.state = "StoreTables" /\ PassFields /\ sb'.state = "ActivateTables"
<1>1. PICK r \in StandbyState :
        /\ r = ReadSlot /\ r.state = sb.state /\ r.inState = sb.inState
        /\ r.sinceOK = IF FromPrimary THEN 0 ELSE sb.sinceOK
        /\ r.sinceReq = sb.sinceReq /\ r.credFails = sb.credFails
        /\ r.credsOK = sb.credsOK /\ (r.heard <=> sb.heard \/ slot[Stby] # None)
  BY ReadKept
<1>2. sb.state = "StoreTables" /\ sb.state \in StbySyncState
  BY SbTyped DEF StoreTables, StandbyPass
<1>. DEFINE new == [r EXCEPT !.state = "ActivateTables", !.reload = TRUE]
<1>4. new \in StandbyState /\ Fields(new) /\ new.state = "ActivateTables"
  <2>1. new \in StandbyState
    BY <1>1, PassValues DEF StandbyState
  <2>2. Fields(new)
    BY <1>1, <1>2, PassValues DEF StandbyState, Fields
  <2>3. new.state = "ActivateTables"
    BY <1>1, <1>2, SbTyped, Periods, PassValues DEF StandbyState
  <2>. QED BY <2>1, <2>2, <2>3
<1>5. StandbyPass("StoreTables", new)
  BY <1>1 DEF StoreTables
<1>. HIDE DEF new
<1>6. PICK n \in StandbyState : n = new
  BY <1>4
<1>7. StandbyPass("StoreTables", n) /\ Fields(n)
  BY <1>4, <1>5, <1>6 DEF StandbyPass, Settle
<1>8. sb'.state = n.state /\ sb'.sinceReq = n.sinceReq /\ sb'.credFails = n.credFails
  BY <1>7, PassKept
<1>9. PassFields
  BY <1>7, FieldsPassed
<1>. QED BY <1>2, <1>4, <1>6, <1>8, <1>9

(* The row of the timetable for ActivateTables.                               *)
LEMMA ActivateTablesRow ==
  ASSUME TypeOK, ActivateTables
  PROVE  sb.state = "ActivateTables" /\ PassFields /\ (sb'.state = "WaitForPrimaryToFail" \/ (sb'.state = "ActivateTables" /\ sb.inState <= RebuildTime))
<1>1. PICK r \in StandbyState :
        /\ r = ReadSlot /\ r.state = sb.state /\ r.inState = sb.inState
        /\ r.sinceOK = IF FromPrimary THEN 0 ELSE sb.sinceOK
        /\ r.sinceReq = sb.sinceReq /\ r.credFails = sb.credFails
        /\ r.credsOK = sb.credsOK /\ (r.heard <=> sb.heard \/ slot[Stby] # None)
  BY ReadKept
<1>2. sb.state = "ActivateTables" /\ sb.state \in StbySyncState
  BY SbTyped DEF ActivateTables, StandbyPass
<1>. DEFINE new == [r EXCEPT !.state = IF ~sb.reload \/ sb.inState > RebuildTime
                                       THEN "WaitForPrimaryToFail" ELSE @]
<1>4. new \in StandbyState /\ Fields(new) /\ (new.state = "WaitForPrimaryToFail" \/ (new.state = "ActivateTables" /\ sb.inState <= RebuildTime))
  <2>1. new \in StandbyState
    BY <1>1, PassValues DEF StandbyState
  <2>2. Fields(new)
    BY <1>1, <1>2, PassValues DEF StandbyState, Fields
  <2>3. (new.state = "WaitForPrimaryToFail" \/ (new.state = "ActivateTables" /\ sb.inState <= RebuildTime))
    BY <1>1, <1>2, SbTyped, Periods, PassValues DEF StandbyState
  <2>. QED BY <2>1, <2>2, <2>3
<1>5. StandbyPass("ActivateTables", new)
  BY <1>1 DEF ActivateTables
<1>. HIDE DEF new
<1>6. PICK n \in StandbyState : n = new
  BY <1>4
<1>7. StandbyPass("ActivateTables", n) /\ Fields(n)
  BY <1>4, <1>5, <1>6 DEF StandbyPass, Settle
<1>8. sb'.state = n.state /\ sb'.sinceReq = n.sinceReq /\ sb'.credFails = n.credFails
  BY <1>7, PassKept
<1>9. PassFields
  BY <1>7, FieldsPassed
<1>. QED BY <1>2, <1>4, <1>6, <1>8, <1>9

(* The row of the timetable for CantContactPrimary.                           *)
LEMMA CantContactPrimaryRow ==
  ASSUME TypeOK, CantContactPrimary
  PROVE  sb.state = "CantContactPrimary" /\ PassFields /\ sb'.state = "WaitForPrimaryToFail"
<1>1. PICK r \in StandbyState :
        /\ r = ReadSlot /\ r.state = sb.state /\ r.inState = sb.inState
        /\ r.sinceOK = IF FromPrimary THEN 0 ELSE sb.sinceOK
        /\ r.sinceReq = sb.sinceReq /\ r.credFails = sb.credFails
        /\ r.credsOK = sb.credsOK /\ (r.heard <=> sb.heard \/ slot[Stby] # None)
  BY ReadKept
<1>2. sb.state = "CantContactPrimary" /\ sb.state \in StbySyncState
  BY SbTyped DEF CantContactPrimary, StandbyPass
<1>. DEFINE new == [r EXCEPT !.state = "WaitForPrimaryToFail"]
<1>4. new \in StandbyState /\ Fields(new) /\ new.state = "WaitForPrimaryToFail"
  <2>1. new \in StandbyState
    BY <1>1, PassValues DEF StandbyState
  <2>2. Fields(new)
    BY <1>1, <1>2, PassValues DEF StandbyState, Fields
  <2>3. new.state = "WaitForPrimaryToFail"
    BY <1>1, <1>2, SbTyped, Periods, PassValues DEF StandbyState
  <2>. QED BY <2>1, <2>2, <2>3
<1>5. StandbyPass("CantContactPrimary", new)
  BY <1>1 DEF CantContactPrimary
<1>. HIDE DEF new
<1>6. PICK n \in StandbyState : n = new
  BY <1>4
<1>7. StandbyPass("CantContactPrimary", n) /\ Fields(n)
  BY <1>4, <1>5, <1>6 DEF StandbyPass, Settle
<1>8. sb'.state = n.state /\ sb'.sinceReq = n.sinceReq /\ sb'.credFails = n.credFails
  BY <1>7, PassKept
<1>9. PassFields
  BY <1>7, FieldsPassed
<1>. QED BY <1>2, <1>4, <1>6, <1>8, <1>9

(* The row of the timetable for WaitForPrimaryToFail.                         *)
LEMMA WaitForPrimaryToFailRow ==
  ASSUME TypeOK, WaitForPrimaryToFail
  PROVE  /\ sb.state = "WaitForPrimaryToFail" /\ PassFields
         /\ \/ sb'.state = "Startup" /\ sb.inState > hotcutovertime + RetryDbxTime
            \/ sb'.state = "TakingOver" /\ (PrimaryLost \/ sb.force)
            \/ sb'.state = "WaitForPrimaryToFail" /\ ~PrimaryLost
<1>1. PICK r \in StandbyState :
        /\ r = ReadSlot /\ r.state = sb.state /\ r.inState = sb.inState
        /\ r.sinceOK = IF FromPrimary THEN 0 ELSE sb.sinceOK
        /\ r.sinceReq = sb.sinceReq /\ r.credFails = sb.credFails
        /\ r.credsOK = sb.credsOK /\ (r.heard <=> sb.heard \/ slot[Stby] # None)
  BY ReadKept
<1>2. sb.state = "WaitForPrimaryToFail" /\ sb.state \in StbySyncState
  BY SbTyped DEF WaitForPrimaryToFail, StandbyPass
<1>. DEFINE new == [r EXCEPT !.force = FALSE,
              !.state = IF ~r.inSync /\ sb.inState > hotcutovertime + RetryDbxTime THEN "Startup"
                        ELSE IF PrimaryLost \/ sb.force THEN "TakingOver" ELSE @]
<1>4. /\ new \in StandbyState /\ Fields(new)
      /\ \/ new.state = "Startup" /\ sb.inState > hotcutovertime + RetryDbxTime
         \/ new.state = "TakingOver" /\ (PrimaryLost \/ sb.force)
         \/ new.state = "WaitForPrimaryToFail" /\ ~PrimaryLost
  <2>1. new \in StandbyState
    BY <1>1, PassValues DEF StandbyState
  <2>2. Fields(new)
    BY <1>1, <1>2, PassValues DEF StandbyState, Fields
  <2>3. \/ new.state = "Startup" /\ sb.inState > hotcutovertime + RetryDbxTime
        \/ new.state = "TakingOver" /\ (PrimaryLost \/ sb.force)
        \/ new.state = "WaitForPrimaryToFail" /\ ~PrimaryLost
    BY <1>1, <1>2, SbTyped, Periods, PassValues DEF StandbyState, PrimaryLost
  <2>. QED BY <2>1, <2>2, <2>3
<1>5. StandbyPass("WaitForPrimaryToFail", new)
  BY <1>1 DEF WaitForPrimaryToFail, RetrySync
<1>. HIDE DEF new
<1>6. PICK n \in StandbyState : n = new
  BY <1>4
<1>7. StandbyPass("WaitForPrimaryToFail", n) /\ Fields(n)
  BY <1>4, <1>5, <1>6 DEF StandbyPass, Settle
<1>8. sb'.state = n.state /\ sb'.sinceReq = n.sinceReq /\ sb'.credFails = n.credFails
  BY <1>7, PassKept
<1>9. PassFields
  BY <1>7, FieldsPassed
<1>. QED BY <1>2, <1>4, <1>6, <1>8, <1>9

(* The row of the timetable for TakingOver.                                   *)
LEMMA TakingOverRow ==
  ASSUME TypeOK, TakingOver
  PROVE  sb.state = "TakingOver" /\ PassFields /\ sb'.state = "TakeOverWait"
<1>1. PICK r \in StandbyState :
        /\ r = ReadSlot /\ r.state = sb.state /\ r.inState = sb.inState
        /\ r.sinceOK = IF FromPrimary THEN 0 ELSE sb.sinceOK
        /\ r.sinceReq = sb.sinceReq /\ r.credFails = sb.credFails
        /\ r.credsOK = sb.credsOK /\ (r.heard <=> sb.heard \/ slot[Stby] # None)
  BY ReadKept
<1>2. sb.state = "TakingOver" /\ sb.state \in StbySyncState
  BY SbTyped DEF TakingOver, StandbyPass
<1>. DEFINE new == [r EXCEPT !.state = "TakeOverWait"]
<1>4. new \in StandbyState /\ Fields(new) /\ new.state = "TakeOverWait"
  <2>1. new \in StandbyState
    BY <1>1, PassValues DEF StandbyState
  <2>2. Fields(new)
    BY <1>1, <1>2, PassValues DEF StandbyState, Fields
  <2>3. new.state = "TakeOverWait"
    BY <1>1, <1>2, SbTyped, Periods, PassValues DEF StandbyState
  <2>. QED BY <2>1, <2>2, <2>3
<1>5. StandbyPass("TakingOver", new)
  BY <1>1 DEF TakingOver
<1>. HIDE DEF new
<1>6. PICK n \in StandbyState : n = new
  BY <1>4
<1>7. StandbyPass("TakingOver", n) /\ Fields(n)
  BY <1>4, <1>5, <1>6 DEF StandbyPass, Settle
<1>8. sb'.state = n.state /\ sb'.sinceReq = n.sinceReq /\ sb'.credFails = n.credFails
  BY <1>7, PassKept
<1>9. PassFields
  BY <1>7, FieldsPassed
<1>. QED BY <1>2, <1>4, <1>6, <1>8, <1>9

(* The row of the timetable for TakeOverWait.                                 *)
LEMMA TakeOverWaitRow ==
  ASSUME TypeOK, TakeOverWait
  PROVE  /\ sb.state = "TakeOverWait" /\ PassFields
         /\ \/ sb'.state = "Startup" /\ PrimaryBack
            \/ sb'.state = "RunActive" /\ sb.inState > TakeOverWaitTime
            \/ sb'.state = "TakeOverWait" /\ sb.inState <= TakeOverWaitTime
<1>1. PICK r \in StandbyState :
        /\ r = ReadSlot /\ r.state = sb.state /\ r.inState = sb.inState
        /\ r.sinceOK = IF FromPrimary THEN 0 ELSE sb.sinceOK
        /\ r.sinceReq = sb.sinceReq /\ r.credFails = sb.credFails
        /\ r.credsOK = sb.credsOK /\ (r.heard <=> sb.heard \/ slot[Stby] # None)
  BY ReadKept
<1>2. sb.state = "TakeOverWait" /\ sb.state \in StbySyncState
  BY SbTyped DEF TakeOverWait, StandbyPass
<1>. DEFINE new == [r EXCEPT !.state = IF PrimaryBack THEN "Startup"
                                       ELSE IF sb.inState > TakeOverWaitTime THEN "RunActive" ELSE @]
<1>4. /\ new \in StandbyState /\ Fields(new)
      /\ \/ new.state = "Startup" /\ PrimaryBack
         \/ new.state = "RunActive" /\ sb.inState > TakeOverWaitTime
         \/ new.state = "TakeOverWait" /\ sb.inState <= TakeOverWaitTime
  <2>1. new \in StandbyState
    BY <1>1, PassValues DEF StandbyState
  <2>2. Fields(new)
    BY <1>1, <1>2, PassValues DEF StandbyState, Fields
  <2>3. \/ new.state = "Startup" /\ PrimaryBack
        \/ new.state = "RunActive" /\ sb.inState > TakeOverWaitTime
        \/ new.state = "TakeOverWait" /\ sb.inState <= TakeOverWaitTime
    BY <1>1, <1>2, SbTyped, Periods, PassValues DEF StandbyState
  <2>. QED BY <2>1, <2>2, <2>3
<1>5. StandbyPass("TakeOverWait", new)
  BY <1>1 DEF TakeOverWait
<1>. HIDE DEF new
<1>6. PICK n \in StandbyState : n = new
  BY <1>4
<1>7. StandbyPass("TakeOverWait", n) /\ Fields(n)
  BY <1>4, <1>5, <1>6 DEF StandbyPass, Settle
<1>8. sb'.state = n.state /\ sb'.sinceReq = n.sinceReq /\ sb'.credFails = n.credFails
  BY <1>7, PassKept
<1>9. PassFields
  BY <1>7, FieldsPassed
<1>. QED BY <1>2, <1>4, <1>6, <1>8, <1>9

(* The row of the timetable for RunActive.                                    *)
LEMMA RunActiveRow ==
  ASSUME TypeOK, RunActive
  PROVE  sb.state = "RunActive" /\ PassFields /\ sb'.state \in {"RunActive", "HandBackOver"}
<1>1. PICK r \in StandbyState :
        /\ r = ReadSlot /\ r.state = sb.state /\ r.inState = sb.inState
        /\ r.sinceOK = IF FromPrimary THEN 0 ELSE sb.sinceOK
        /\ r.sinceReq = sb.sinceReq /\ r.credFails = sb.credFails
        /\ r.credsOK = sb.credsOK /\ (r.heard <=> sb.heard \/ slot[Stby] # None)
  BY ReadKept
<1>2. sb.state = "RunActive" /\ sb.state \in StbySyncState
  BY SbTyped DEF RunActive, StandbyPass
<1>. DEFINE new == [r EXCEPT !.state = IF PrimaryBack THEN "HandBackOver" ELSE @]
<1>4. new \in StandbyState /\ Fields(new) /\ new.state \in {"RunActive", "HandBackOver"}
  <2>1. new \in StandbyState
    BY <1>1, PassValues DEF StandbyState
  <2>2. Fields(new)
    BY <1>1, <1>2, PassValues DEF StandbyState, Fields
  <2>3. new.state \in {"RunActive", "HandBackOver"}
    BY <1>1, <1>2, SbTyped, Periods, PassValues DEF StandbyState
  <2>. QED BY <2>1, <2>2, <2>3
<1>5. StandbyPass("RunActive", new)
  BY <1>1 DEF RunActive
<1>. HIDE DEF new
<1>6. PICK n \in StandbyState : n = new
  BY <1>4
<1>7. StandbyPass("RunActive", n) /\ Fields(n)
  BY <1>4, <1>5, <1>6 DEF StandbyPass, Settle
<1>8. sb'.state = n.state /\ sb'.sinceReq = n.sinceReq /\ sb'.credFails = n.credFails
  BY <1>7, PassKept
<1>9. PassFields
  BY <1>7, FieldsPassed
<1>. QED BY <1>2, <1>4, <1>6, <1>8, <1>9

(* The row of the timetable for HandBackOver.                                 *)
LEMMA HandBackOverRow ==
  ASSUME TypeOK, HandBackOver
  PROVE  sb.state = "HandBackOver" /\ PassFields /\ sb'.state = (IF WaitedForHandover THEN "Startup" ELSE "HandBackOver")
<1>1. PICK r \in StandbyState :
        /\ r = ReadSlot /\ r.state = sb.state /\ r.inState = sb.inState
        /\ r.sinceOK = IF FromPrimary THEN 0 ELSE sb.sinceOK
        /\ r.sinceReq = sb.sinceReq /\ r.credFails = sb.credFails
        /\ r.credsOK = sb.credsOK /\ (r.heard <=> sb.heard \/ slot[Stby] # None)
  BY ReadKept
<1>2. sb.state = "HandBackOver" /\ sb.state \in StbySyncState
  BY SbTyped DEF HandBackOver, StandbyPass
<1>. DEFINE new == [r EXCEPT !.state = IF WaitedForHandover THEN "Startup" ELSE @]
<1>4. new \in StandbyState /\ Fields(new) /\ new.state = (IF WaitedForHandover THEN "Startup" ELSE "HandBackOver")
  <2>1. new \in StandbyState
    BY <1>1, PassValues DEF StandbyState
  <2>2. Fields(new)
    BY <1>1, <1>2, PassValues DEF StandbyState, Fields
  <2>3. new.state = (IF WaitedForHandover THEN "Startup" ELSE "HandBackOver")
    BY <1>1, <1>2, SbTyped, Periods, PassValues DEF StandbyState
  <2>. QED BY <2>1, <2>2, <2>3
<1>5. StandbyPass("HandBackOver", new)
  BY <1>1 DEF HandBackOver
<1>. HIDE DEF new
<1>6. PICK n \in StandbyState : n = new
  BY <1>4
<1>7. StandbyPass("HandBackOver", n) /\ Fields(n)
  BY <1>4, <1>5, <1>6 DEF StandbyPass, Settle
<1>8. sb'.state = n.state /\ sb'.sinceReq = n.sinceReq /\ sb'.credFails = n.credFails
  BY <1>7, PassKept
<1>9. PassFields
  BY <1>7, FieldsPassed
<1>. QED BY <1>2, <1>4, <1>6, <1>8, <1>9

(* The row of the timetable for WaitForCredentials.                           *)
LEMMA WaitForCredentialsRow ==
  ASSUME TypeOK, WaitForCredentials
  PROVE  /\ sb.state = "WaitForCredentials" /\ PassFields
         /\ \/ sb.credsOK /\ sb'.state = "ReceivedCredentials" /\ sb'.sinceReq = 0
            \/ /\ ~sb.credsOK /\ sb.sinceReq <= CredentialTimeout
               /\ sb'.state = "WaitForCredentials"
               /\ sb'.credFails = sb.credFails /\ sb'.sinceReq = sb.sinceReq
            \/ /\ ~sb.credsOK /\ sb.sinceReq > CredentialTimeout
               /\ sb'.state = IF sb.credFails + 1 > CredentialFailMax THEN "WaitForPrimaryToFail" ELSE "Startup"
               /\ sb'.credFails = IF sb.credFails > CredentialFailMax THEN sb.credFails ELSE sb.credFails + 1
<1>1. PICK r \in StandbyState :
        /\ r = ReadSlot /\ r.state = sb.state /\ r.inState = sb.inState
        /\ r.sinceOK = IF FromPrimary THEN 0 ELSE sb.sinceOK
        /\ r.sinceReq = sb.sinceReq /\ r.credFails = sb.credFails
        /\ r.credsOK = sb.credsOK /\ (r.heard <=> sb.heard \/ slot[Stby] # None)
  BY ReadKept
<1>2. sb.state = "WaitForCredentials" /\ sb.state \in StbySyncState
  BY SbTyped DEF WaitForCredentials, StandbyPass
<1>3. ASSUME NEW n \in StandbyState, StandbyPass("WaitForCredentials", n), Fields(n)
      PROVE  /\ sb.state = "WaitForCredentials" /\ PassFields
             /\ sb'.state = n.state /\ sb'.sinceReq = n.sinceReq /\ sb'.credFails = n.credFails
  <2>1. sb'.state = n.state /\ sb'.sinceReq = n.sinceReq /\ sb'.credFails = n.credFails
    BY <1>3, PassKept
  <2>2. PassFields
    BY <1>3, FieldsPassed
  <2>. QED BY <1>2, <2>1, <2>2
<1>4. CASE sb.credsOK
  <2>. DEFINE new == [r EXCEPT !.state = "ReceivedCredentials", !.sinceReq = 0,
                              !.lastFlag = sb.replyFlag, !.credFails = 0]
  <2>1. new \in StandbyState
    BY <1>1, SbTyped, PassValues DEF StandbyState
  <2>2. Fields(new) /\ new.state = "ReceivedCredentials" /\ new.sinceReq = 0
    BY <1>1, <1>2 DEF StandbyState, Fields
  <2>3. StandbyPass("WaitForCredentials", new)
    BY <1>1, <1>4 DEF WaitForCredentials, CredentialsIn
  <2>. HIDE DEF new
  <2>4. PICK n \in StandbyState : n = new
    BY <2>1
  <2>5. StandbyPass("WaitForCredentials", n) /\ Fields(n)
    BY <2>2, <2>3, <2>4 DEF StandbyPass, Settle
  <2>. QED BY <1>3, <1>4, <2>2, <2>4, <2>5
<1>5. CASE ~sb.credsOK /\ sb.sinceReq > CredentialTimeout
  <2>. DEFINE new == [r EXCEPT !.credFails = IF @ > CredentialFailMax THEN @ ELSE @ + 1,
                              !.state = IF sb.credFails + 1 > CredentialFailMax
                                        THEN "WaitForPrimaryToFail" ELSE "Startup"]
  <2>1. new \in StandbyState
    <3>1. (IF r.credFails > CredentialFailMax THEN r.credFails ELSE r.credFails + 1) \in 0 .. (CredentialFailMax + 1)
      BY <1>1, SbTyped, Periods
    <3>2. (IF sb.credFails + 1 > CredentialFailMax THEN "WaitForPrimaryToFail" ELSE "Startup") \in StbySyncState
      BY PassValues
    <3>. QED BY <1>1, <3>1, <3>2 DEF StandbyState
  <2>2. /\ Fields(new)
        /\ new.state = IF sb.credFails + 1 > CredentialFailMax THEN "WaitForPrimaryToFail" ELSE "Startup"
        /\ new.credFails = IF sb.credFails > CredentialFailMax THEN sb.credFails ELSE sb.credFails + 1
    BY <1>1, <1>2 DEF StandbyState, Fields
  <2>3. StandbyPass("WaitForCredentials", new)
    BY <1>1, <1>5 DEF WaitForCredentials, CredentialsLate
  <2>. HIDE DEF new
  <2>4. PICK n \in StandbyState : n = new
    BY <2>1
  <2>5. StandbyPass("WaitForCredentials", n) /\ Fields(n)
    BY <2>2, <2>3, <2>4 DEF StandbyPass, Settle
  <2>. QED BY <1>3, <1>5, <2>2, <2>4, <2>5
<1>6. CASE ~sb.credsOK /\ ~(sb.sinceReq > CredentialTimeout)
  <2>1. StandbyPass("WaitForCredentials", r)
    BY <1>1, <1>6 DEF WaitForCredentials
  <2>2. Fields(r)
    BY <1>1 DEF Fields
  <2>3. sb.sinceReq <= CredentialTimeout
    BY <1>6, SbTyped, Periods
  <2>. QED BY <1>1, <1>2, <1>3, <1>6, <2>1, <2>2, <2>3
<1>. QED BY <1>4, <1>5, <1>6

(* What TakeOverWait, RunActive and HandBackOver do to the flags of the two.  *)
LEMMA ActiveRows ==
  ASSUME TypeOK
  PROVE  /\ TakeOverWait => /\ IsActive'[Prim] = IsActive[Prim] /\ link' = link
                            /\ IsActive'[Stby] <=> (IsActive[Stby] \/ sb.inState > TakeOverWaitTime)
         /\ RunActive => IsActive' = IsActive
         /\ HandBackOver => /\ IsActive'[Prim] = IsActive[Prim]
                            /\ WaitedForHandover => ~IsActive'[Stby]
                            /\ ~WaitedForHandover => IsActive'[Stby] = IsActive[Stby]
<1>1. IsActive \in [Gateways -> BOOLEAN] /\ Prim # Stby /\ Prim \in Gateways /\ Stby \in Gateways
  BY TypesSplit, FourNames, Pair
<1>2. TakeOverWait => /\ IsActive'[Prim] = IsActive[Prim] /\ link' = link
                      /\ IsActive'[Stby] <=> (IsActive[Stby] \/ sb.inState > TakeOverWaitTime)
  <2>. SUFFICES ASSUME TakeOverWait
                PROVE  /\ IsActive'[Prim] = IsActive[Prim] /\ link' = link
                       /\ IsActive'[Stby] <=> (IsActive[Stby] \/ sb.inState > TakeOverWaitTime)
    OBVIOUS
  <2>1. /\ IsActive' = [IsActive EXCEPT ![Stby] = IsActive[Stby] \/ sb.inState > TakeOverWaitTime]
        /\ link' = link
    BY DEF TakeOverWait, SendNothing
  <2>. QED BY <1>1, <2>1
<1>3. RunActive => IsActive' = IsActive
  BY DEF RunActive
<1>4. HandBackOver => /\ IsActive'[Prim] = IsActive[Prim]
                      /\ WaitedForHandover => ~IsActive'[Stby]
                      /\ ~WaitedForHandover => IsActive'[Stby] = IsActive[Stby]
  <2>. SUFFICES ASSUME HandBackOver
                PROVE  /\ IsActive'[Prim] = IsActive[Prim]
                       /\ WaitedForHandover => ~IsActive'[Stby]
                       /\ ~WaitedForHandover => IsActive'[Stby] = IsActive[Stby]
    OBVIOUS
  <2>1. /\ WaitedForHandover => IsActive' = [IsActive EXCEPT ![Stby] = FALSE]
        /\ ~WaitedForHandover => IsActive' = IsActive
    BY DEF HandBackOver
  <2>. QED BY <1>1, <2>1
<1>. QED BY <1>2, <1>3, <1>4

(* Every pass of the standby follows its timetable.                           *)
LEMMA Timetable ==
  ASSUME TypeOK, StandbyStep, ~MergeCrash
  PROVE  EachPass /\ (SyncTable \/ TakeOverTable)
<1>1. PICK to \in StbySyncState : Onward(to)
  BY StandbyPasses
<1>2. PassFields /\ (SyncTable \/ TakeOverTable)
  <2>. USE DEF SyncTable, TakeOverTable, Steady
  <2>1. CASE Reset
    BY <2>1, ResetRow
  <2>2. CASE Startup
    BY <2>2, StartupRow
  <2>3. CASE FindPrimary
    BY <2>3, FindPrimaryRow
  <2>4. CASE RequestCredentials
    BY <2>4, RequestCredentialsRow
  <2>5. CASE WaitForCredentials
    BY <2>5, WaitForCredentialsRow
  <2>6. CASE ReceivedCredentials
    BY <2>6, ReceivedCredentialsRow
  <2>7. CASE ConnenctToDB
    BY <2>7, ConnenctToDBRow
  <2>8. CASE FailedToAccessDB
    BY <2>8, FailedToAccessDBRow
  <2>9. CASE Synchronizing
    BY <2>9, SynchronizingRow
  <2>10. CASE FailedReadTables
    BY <2>10, FailedReadTablesRow
  <2>11. CASE MergeTables
    BY <2>11, MergeTablesRow
  <2>12. CASE StoreTables
    BY <2>12, StoreTablesRow
  <2>13. CASE ActivateTables
    BY <2>13, ActivateTablesRow
  <2>14. CASE CantContactPrimary
    BY <2>14, CantContactPrimaryRow
  <2>15. CASE WaitForPrimaryToFail
    BY <2>15, WaitForPrimaryToFailRow
  <2>16. CASE TakingOver
    BY <2>16, TakingOverRow
  <2>17. CASE TakeOverWait
    BY <2>17, TakeOverWaitRow, ActiveRows
  <2>18. CASE RunActive
    BY <2>18, RunActiveRow, ActiveRows
  <2>19. CASE HandBackOver
    BY <2>19, HandBackOverRow, ActiveRows
  <2>. QED BY <2>1, <2>2, <2>3, <2>4, <2>5, <2>6, <2>7, <2>8, <2>9, <2>10, <2>11, <2>12, <2>13,
              <2>14, <2>15, <2>16, <2>17, <2>18, <2>19 DEF StandbyStep
<1>3. /\ Stby \in due /\ due' = due \ {Stby} /\ up' = up /\ sinceId' = sinceId /\ linkUp' = linkUp
      /\ pr' = pr /\ faults' = faults /\ slot'[Stby] = None /\ slot'[Prim] = slot[Prim]
      /\ sb'.force => sb.force
      /\ sb.state \notin TakenOver => IsActive' = IsActive
  BY <1>1 DEF Onward, Advances
<1>4. seen'.dark = seen.dark
  <2>1. seen \in Observed
    BY TypesSplit
  <2>. QED BY <1>1, <2>1 DEF Onward, Observed
<1>5. IsActive'[Prim] = IsActive[Prim]
  <2>1. CASE sb.state \notin TakenOver
    BY <1>3, <2>1
  <2>2. CASE sb.state \in TakenOver
    <3>1. TakeOverWait \/ RunActive \/ HandBackOver
      BY <2>2 DEF StandbyStep, StandbyPass, MergeCrash, Reset, Startup, FindPrimary, RequestCredentials,
         WaitForCredentials, ReceivedCredentials, ConnenctToDB, FailedToAccessDB, Synchronizing,
         FailedReadTables, MergeTables, StoreTables, ActivateTables, CantContactPrimary,
         WaitForPrimaryToFail, TakingOver, TakenOver
    <3>. QED BY <3>1, ActiveRows
  <2>. QED BY <2>1, <2>2
<1>6. link'[Stby] = link[Stby]
  BY <1>1, SendsLeave DEF Onward
<1>7. \/ link'[Prim] = link[Prim]
      \/ \E b \in Body : /\ b.kind \in {"query", "be_inactive", "be_active"}
                         /\ b.kind = "be_inactive" => sb.state \in {"TakingOver", "RunActive", "HandBackOver"}
                         /\ link'[Prim] = Append(link[Prim], [body |-> b, age |-> 0])
  <2>1. CASE sb.state = "TakeOverWait"
    <3>1. TakeOverWait
      BY <2>1 DEF StandbyStep, StandbyPass, MergeCrash, Reset, Startup, FindPrimary, RequestCredentials,
         WaitForCredentials, ReceivedCredentials, ConnenctToDB, FailedToAccessDB, Synchronizing,
         FailedReadTables, MergeTables, StoreTables, ActivateTables, CantContactPrimary,
         WaitForPrimaryToFail, TakingOver, RunActive, HandBackOver
    <3>. QED BY <3>1, ActiveRows
  <2>2. CASE sb.state # "TakeOverWait"
    <3>1. \/ link'[Prim] = link[Prim]
          \/ \E b \in Body : /\ b.kind \in {"query", "be_inactive", "be_active"}
                             /\ b.kind # "query" => sb.state \in TakenOver \cup {"TakingOver"}
                             /\ link'[Prim] = Append(link[Prim], [body |-> b, age |-> 0])
      BY <1>1, SendsLeave DEF Onward
    <3>2. sb.state \in TakenOver \cup {"TakingOver"} => sb.state \in {"TakingOver", "RunActive", "HandBackOver"}
      BY <2>2 DEF TakenOver
    <3>. QED BY <3>1, <3>2
  <2>. QED BY <2>1, <2>2
<1>8. EachPass
  BY <1>2, <1>3, <1>4, <1>5, <1>6, <1>7 DEF EachPass, PassFields
<1>. QED BY <1>2, <1>8

-----------------------------------------------------------------------------
(* The steps that leave the standby's states and clocks alone.                *)
Rests ==
  \/ SendReply \/ PrimaryPass \/ ReloadPrimaryTables \/ TablesReloaded \/ HealLink \/ CutLink
  \/ \E g \in Gateways : SendIdentifier(g) \/ InterSiteMessageIn(g)
Unmoved ==
  /\ up' = up /\ (Stby \in due' <=> Stby \in due)
  /\ sb'.state = sb.state /\ sb'.inState = sb.inState /\ sb'.sinceOK = sb.sinceOK
  /\ sb'.sinceReq = sb.sinceReq /\ sb'.credFails = sb.credFails /\ sb'.force = sb.force
  /\ (sb.heard => sb'.heard) /\ (sb.credsOK => sb'.credsOK)
  /\ seen'.dark = seen.dark /\ IsActive'[Stby] = IsActive[Stby]
  /\ slot[Stby] # None => slot'[Stby] # None
Parted == Prim \notin up =>
  sb'.heard = sb.heard /\ sb'.credsOK = sb.credsOK /\ slot'[Stby] = slot[Stby]

(* Every step without the operator and without a third gateway.               *)
LEMMA MovesSplit ==
  ASSUME Next, Commands = {}, ~OtherSites
  PROVE  \/ Tick \/ MergeCrash \/ Rests \/ (StandbyStep /\ ~MergeCrash)
         \/ \E g \in Gateways : Crash(g) \/ Restart(g)
BY DEF Next, CommStep, Operator, Fault, ForceTakeOver, SetActive, Command, OtherSiteMessageIn, Rests

(* What a message that arrives changes.                                       *)
LEMMA MessageInLeaves ==
  ASSUME TypeOK, NEW g \in Gateways, InterSiteMessageIn(g)
  PROVE  /\ g \in up /\ link[g] # << >> /\ link[g] \in Seq(Letter) /\ link' = [link EXCEPT ![g] = Tail(@)]
         /\ up' = up /\ due' = due /\ sinceId' = sinceId /\ linkUp' = linkUp /\ faults' = faults
         /\ g # Stby => sb' = sb /\ seen' = seen
         /\ g # Prim => pr' = pr /\ IsActive' = IsActive
         /\ \A h \in Gateways \ {g} : slot'[h] = slot[h]
         /\ IsActive'[Stby] = IsActive[Stby] /\ seen'.dark = seen.dark
         /\ \/ /\ Head(link[g]).body.kind = "site" /\ IsActive' = IsActive
               /\ slot'[g] # None /\ slot'[g].from = Head(link[g]).body.msg.from
               /\ slot'[g].isactive = Head(link[g]).body.msg.isactive
               /\ pr'.sinceMsg = pr.sinceMsg
               /\ g = Prim => pr'.standby = Head(link[g]).body.msg.from
            \/ /\ Head(link[g]).body.kind \in {"query", "reply"} /\ IsActive' = IsActive /\ slot' = slot
               /\ pr'.standby = pr.standby /\ pr'.sinceMsg = pr.sinceMsg
            \/ /\ Head(link[g]).body.kind \in {"be_inactive", "be_active"} /\ g = Prim
               /\ slot' = slot /\ pr' = pr
               /\ IsActive'[Prim] <=> (Head(link[g]).body.kind = "be_active")
         /\ g = Stby =>
              /\ sb'.state = sb.state /\ sb'.inState = sb.inState /\ sb'.sinceOK = sb.sinceOK
              /\ sb'.sinceReq = sb.sinceReq /\ sb'.credFails = sb.credFails /\ sb'.force = sb.force
              /\ (sb.heard => sb'.heard) /\ (sb.credsOK => sb'.credsOK)
<1>. DEFINE body == Head(link[g]).body
<1>1. /\ g \in up /\ link[g] # << >> /\ link' = [link EXCEPT ![g] = Tail(@)]
      /\ up' = up /\ due' = due /\ sinceId' = sinceId /\ linkUp' = linkUp /\ faults' = faults
      /\ SiteMessageIn(g, body) \/ QueryIn(g, body) \/ ReplyIn(g, body) \/ CommandIn(g, body)
  BY DEF InterSiteMessageIn
<1>2. /\ link[g] \in Seq(Letter) /\ body \in Body
      /\ IsActive \in [Gateways -> BOOLEAN] /\ slot \in Buffers /\ pr \in PrimaryState
      /\ sb \in StandbyState /\ seen \in Observed /\ Prim # Stby /\ Prim \in Gateways /\ Stby \in Gateways
  <2>1. link[g] \in Seq(Letter)
    BY LinkTyped
  <2>2. Head(link[g]) \in Letter
    BY <1>1, <2>1
  <2>. QED BY <2>1, <2>2, TypesSplit, FourNames, Pair DEF Letter
<1>. HIDE DEF body
<1>3. CASE SiteMessageIn(g, body)
  <2>1. /\ body.kind = "site" /\ IsActive' = IsActive
        /\ slot' = [slot EXCEPT ![g] = [body.msg EXCEPT !.flag = ParsedFlag(@)]]
        /\ g = Prim => pr' = [pr EXCEPT !.standby = body.msg.from]
        /\ g # Prim => pr' = pr
        /\ g = Stby => sb' = [sb EXCEPT !.heard = TRUE] /\ seen' = [seen EXCEPT !.heard = TRUE]
        /\ g # Stby => sb' = sb /\ seen' = seen
    BY <1>3 DEF SiteMessageIn
  <2>2. body.msg \in SiteMessage
    BY <1>2, <2>1, Bodies
  <2>3. PICK m \in SiteMessage : m = body.msg
    BY <2>2
  <2>4. PICK n \in SiteMessage : n = [m EXCEPT !.flag = ParsedFlag(@)]
    <3>1. ParsedFlag(m.flag) \in Flags
      BY Longests DEF ParsedFlag, Flags
    <3>2. [m EXCEPT !.flag = ParsedFlag(@)] \in SiteMessage
      BY <3>1 DEF SiteMessage
    <3>. QED BY <3>2
  <2>5. slot'[g] = n /\ n # None /\ n.from = m.from /\ n.isactive = m.isactive
    BY <1>2, <2>1, <2>3, <2>4, Pair DEF Buffers, SiteMessage
  <2>6. \A h \in Gateways \ {g} : slot'[h] = slot[h]
    BY <1>2, <2>1 DEF Buffers
  <2>7. pr'.sinceMsg = pr.sinceMsg /\ (g = Prim => pr'.standby = body.msg.from)
    BY <1>2, <2>1 DEF PrimaryState
  <2>8. seen'.dark = seen.dark
    BY <1>2, <2>1 DEF Observed
  <2>9. /\ sb'.state = sb.state /\ sb'.inState = sb.inState /\ sb'.sinceOK = sb.sinceOK
        /\ sb'.sinceReq = sb.sinceReq /\ sb'.credFails = sb.credFails /\ sb'.force = sb.force
        /\ (sb.heard => sb'.heard) /\ (sb.credsOK => sb'.credsOK)
    BY <1>2, <2>1 DEF StandbyState
  <2>. QED BY <1>1, <1>2, <2>1, <2>3, <2>5, <2>6, <2>7, <2>8, <2>9 DEF body
<1>4. CASE QueryIn(g, body)
  <2>1. /\ body.kind = "query" /\ g = Prim /\ pr' = [pr EXCEPT !.reply = IF @ = 0 THEN pr.flag ELSE 0]
        /\ slot' = slot /\ sb' = sb /\ IsActive' = IsActive /\ seen' = seen
    BY <1>4 DEF QueryIn
  <2>2. pr'.standby = pr.standby /\ pr'.sinceMsg = pr.sinceMsg
    BY <1>2, <2>1 DEF PrimaryState
  <2>. QED BY <1>1, <1>2, <2>1, <2>2 DEF body
<1>5. CASE ReplyIn(g, body)
  <2>1. /\ body.kind = "reply" /\ g = Stby
        /\ sb' = [sb EXCEPT !.credsOK = TRUE, !.replyFlag = body.flag, !.heard = TRUE]
        /\ slot' = slot /\ pr' = pr /\ IsActive' = IsActive /\ seen' = seen
    BY <1>5 DEF ReplyIn
  <2>2. /\ sb'.state = sb.state /\ sb'.inState = sb.inState /\ sb'.sinceOK = sb.sinceOK
        /\ sb'.sinceReq = sb.sinceReq /\ sb'.credFails = sb.credFails /\ sb'.force = sb.force
        /\ (sb.heard => sb'.heard) /\ (sb.credsOK => sb'.credsOK)
    BY <1>2, <2>1 DEF StandbyState
  <2>. QED BY <1>1, <1>2, <2>1, <2>2 DEF body
<1>6. CASE CommandIn(g, body)
  <2>1. /\ body.kind \in {"be_inactive", "be_active"} /\ g = Prim
        /\ IsActive' = [IsActive EXCEPT ![g] = (body.kind = "be_active")]
        /\ slot' = slot /\ pr' = pr /\ sb' = sb /\ seen' = seen
    BY <1>6 DEF CommandIn
  <2>2. IsActive'[Stby] = IsActive[Stby] /\ (IsActive'[Prim] <=> (body.kind = "be_active"))
    BY <1>2, <2>1
  <2>. QED BY <1>1, <1>2, <2>1, <2>2 DEF body
<1>. QED BY <1>1, <1>3, <1>4, <1>5, <1>6

(* What a pass of the primary changes.                                        *)
LEMMA PrimaryPassLeaves ==
  ASSUME TypeOK, PrimaryPass
  PROVE  /\ Prim \in due /\ due' = due \ {Prim} /\ up' = up /\ sinceId' = sinceId /\ link' = link
         /\ linkUp' = linkUp /\ sb' = sb /\ faults' = faults /\ seen' = seen
         /\ slot'[Prim] = None /\ slot'[Stby] = slot[Stby]
         /\ pr'.standby = pr.standby
         /\ pr'.sinceMsg = IF slot[Prim] # None THEN 0 ELSE pr.sinceMsg
         /\ IsActive'[Stby] = IsActive[Stby]
         /\ IsActive'[Prim] <=> \/ IsActive[Prim]
                                \/ slot[Prim] # None /\ NoActiveGateway(slot[Prim])
                                \/ slot[Prim] = None /\ StandbySilent
<1>. DEFINE p == [pr EXCEPT !.sinceMsg = IF slot[Prim] # None THEN 0 ELSE @]
            a == \/ IsActive[Prim]
                 \/ slot[Prim] # None /\ NoActiveGateway(slot[Prim])
                 \/ slot[Prim] = None /\ StandbySilent
<1>1. /\ Prim \in due /\ due' = due \ {Prim} /\ up' = up /\ sinceId' = sinceId /\ link' = link
      /\ linkUp' = linkUp /\ sb' = sb /\ faults' = faults /\ seen' = seen
      /\ pr' = Watchdog(p) /\ slot' = [slot EXCEPT ![Prim] = None]
      /\ IsActive' = [IsActive EXCEPT ![Prim] = a]
  BY DEF PrimaryPass
<1>2. /\ IsActive \in [Gateways -> BOOLEAN] /\ slot \in Buffers /\ pr \in PrimaryState
      /\ Prim # Stby /\ Prim \in Gateways /\ Stby \in Gateways
  BY TypesSplit, FourNames, Pair
<1>3. slot'[Prim] = None /\ slot'[Stby] = slot[Stby]
  BY <1>1, <1>2 DEF Buffers
<1>4. p \in PrimaryState /\ p.standby = pr.standby
      /\ p.sinceMsg = IF slot[Prim] # None THEN 0 ELSE pr.sinceMsg
  <2>1. 0 \in 0 .. RejectTime + 1
    BY Periods
  <2>. QED BY <1>2, <2>1 DEF PrimaryState
<1>. HIDE DEF p, a
<1>5. Watchdog(p).standby = p.standby /\ Watchdog(p).sinceMsg = p.sinceMsg
  BY <1>4 DEF Watchdog, PrimaryState
<1>6. IsActive'[Stby] = IsActive[Stby] /\ (IsActive'[Prim] <=> a)
  <2>1. a \in BOOLEAN
    BY DEF a
  <2>. QED BY <1>1, <1>2, <2>1
<1>. QED BY <1>1, <1>3, <1>4, <1>5, <1>6 DEF a

(* Those steps leave the standby as Unmoved and Parted say, and what is on    *)
(* the way in order.                                                          *)
LEMMA RestsLeave ==
  ASSUME TypeOK, Addressed, Standing, Rests
  PROVE  /\ Unmoved /\ Parted
         /\ linkUp' => linkUp \/ up = Gateways
         /\ ~linkUp' => link'[Prim] = << >> /\ link'[Stby] = << >>
         /\ slot'[Prim] # None => slot'[Prim].from = pr'.standby
         /\ slot'[Stby] # None => slot'[Stby].from = Prim
<1>1. /\ sb \in StandbyState /\ slot \in Buffers /\ pr \in PrimaryState /\ seen \in Observed
      /\ link \in Links /\ Prim # Stby /\ Prim \in Gateways /\ Stby \in Gateways
  BY TypesSplit, FourNames, Pair
<1>2. /\ ~linkUp => link[Prim] = << >> /\ link[Stby] = << >>
      /\ slot[Prim] # None => slot[Prim].from = pr.standby
      /\ slot[Stby] # None => slot[Stby].from = Prim
      /\ linkUp => up = Gateways
  BY DEF Standing
<1>3. CASE SendReply
  <2>1. /\ pr' = [pr EXCEPT !.reply = 0] /\ up' = up /\ IsActive' = IsActive /\ slot' = slot
        /\ due' = due /\ linkUp' = linkUp /\ sb' = sb /\ seen' = seen /\ (~linkUp => link' = link)
    BY <1>3 DEF SendReply, Send
  <2>2. pr'.standby = pr.standby
    BY <1>1, <2>1 DEF PrimaryState
  <2>. QED BY <1>2, <2>1, <2>2 DEF Unmoved, Parted
<1>4. CASE PrimaryPass
  <2>1. /\ due' = due \ {Prim} /\ up' = up /\ link' = link /\ linkUp' = linkUp /\ sb' = sb /\ seen' = seen
        /\ slot'[Prim] = None /\ slot'[Stby] = slot[Stby] /\ IsActive'[Stby] = IsActive[Stby]
    BY <1>4, PrimaryPassLeaves
  <2>. QED BY <1>1, <1>2, <2>1 DEF Unmoved, Parted
<1>5. CASE ReloadPrimaryTables
  <2>1. /\ pr' = [pr EXCEPT !.flag = @ + 1] /\ up' = up /\ IsActive' = IsActive /\ slot' = slot
        /\ due' = due /\ linkUp' = linkUp /\ sb' = sb /\ seen' = seen /\ link' = link
    BY <1>5 DEF ReloadPrimaryTables
  <2>2. pr'.standby = pr.standby
    BY <1>1, <2>1 DEF PrimaryState
  <2>. QED BY <1>2, <2>1, <2>2 DEF Unmoved, Parted
<1>6. CASE TablesReloaded
  <2>1. /\ sb' = [sb EXCEPT !.reload = FALSE] /\ up' = up /\ IsActive' = IsActive /\ slot' = slot
        /\ due' = due /\ linkUp' = linkUp /\ pr' = pr /\ seen' = seen /\ link' = link
    BY <1>6 DEF TablesReloaded
  <2>2. /\ sb'.state = sb.state /\ sb'.inState = sb.inState /\ sb'.sinceOK = sb.sinceOK
        /\ sb'.sinceReq = sb.sinceReq /\ sb'.credFails = sb.credFails /\ sb'.force = sb.force
        /\ sb'.heard = sb.heard /\ sb'.credsOK = sb.credsOK
    BY <1>1, <2>1 DEF StandbyState
  <2>. QED BY <1>2, <2>1, <2>2 DEF Unmoved, Parted
<1>7. CASE HealLink
  <2>1. /\ up = Gateways /\ up' = up /\ IsActive' = IsActive /\ slot' = slot /\ linkUp' = TRUE
        /\ due' = due /\ sb' = sb /\ pr' = pr /\ seen' = seen /\ link' = link
    BY <1>7 DEF HealLink
  <2>. QED BY <1>2, <2>1 DEF Unmoved, Parted
<1>8. CASE CutLink
  <2>1. /\ up' = up /\ IsActive' = IsActive /\ slot' = slot /\ linkUp' = FALSE
        /\ due' = due /\ sb' = sb /\ pr' = pr /\ seen' = seen /\ link' = [g \in Gateways |-> <<>>]
    BY <1>8 DEF CutLink
  <2>. QED BY <1>1, <1>2, <2>1 DEF Unmoved, Parted
<1>9. ASSUME NEW g \in Gateways, SendIdentifier(g)
      PROVE  /\ Unmoved /\ Parted
             /\ linkUp' => linkUp \/ up = Gateways
             /\ ~linkUp' => link'[Prim] = << >> /\ link'[Stby] = << >>
             /\ slot'[Prim] # None => slot'[Prim].from = pr'.standby
             /\ slot'[Stby] # None => slot'[Stby].from = Prim
  <2>1. /\ up' = up /\ IsActive' = IsActive /\ slot' = slot /\ linkUp' = linkUp /\ (~linkUp => link' = link)
        /\ due' = due /\ sb' = sb /\ pr' = pr /\ seen' = seen
    BY <1>9 DEF SendIdentifier, Send
  <2>. QED BY <1>2, <2>1 DEF Unmoved, Parted
<1>10. ASSUME NEW g \in Gateways, InterSiteMessageIn(g)
       PROVE  /\ Unmoved /\ Parted
              /\ linkUp' => linkUp \/ up = Gateways
              /\ ~linkUp' => link'[Prim] = << >> /\ link'[Stby] = << >>
              /\ slot'[Prim] # None => slot'[Prim].from = pr'.standby
              /\ slot'[Stby] # None => slot'[Stby].from = Prim
  <2>1. /\ up' = up /\ due' = due /\ linkUp' = linkUp /\ link[g] # << >>
        /\ g # Stby => sb' = sb /\ seen' = seen
        /\ g # Prim => pr' = pr /\ IsActive' = IsActive
        /\ \A h \in Gateways \ {g} : slot'[h] = slot[h]
        /\ IsActive'[Stby] = IsActive[Stby] /\ seen'.dark = seen.dark
    BY <1>10, MessageInLeaves
  <2>2. linkUp /\ up = Gateways
    BY <1>2, <2>1, Pair
  <2>3. Unmoved
    <3>1. /\ sb'.state = sb.state /\ sb'.inState = sb.inState /\ sb'.sinceOK = sb.sinceOK
          /\ sb'.sinceReq = sb.sinceReq /\ sb'.credFails = sb.credFails /\ sb'.force = sb.force
          /\ (sb.heard => sb'.heard) /\ (sb.credsOK => sb'.credsOK)
      <4>1. CASE g = Stby
        BY <1>10, <4>1, MessageInLeaves
      <4>2. CASE g # Stby
        BY <2>1, <4>2
      <4>. QED BY <4>1, <4>2
    <3>2. slot[Stby] # None => slot'[Stby] # None
      <4>1. CASE g = Stby
        BY <1>10, <4>1, MessageInLeaves
      <4>2. CASE g # Stby
        BY <2>1, <4>2, <1>1
      <4>. QED BY <4>1, <4>2
    <3>. QED BY <2>1, <3>1, <3>2 DEF Unmoved
  <2>4. slot'[Prim] # None => slot'[Prim].from = pr'.standby
    <3>1. CASE g = Prim
      BY <1>2, <1>10, <3>1, MessageInLeaves
    <3>2. CASE g # Prim
      BY <1>1, <1>2, <2>1, <3>2
    <3>. QED BY <3>1, <3>2
  <2>5. slot'[Stby] # None => slot'[Stby].from = Prim
    <3>1. CASE g = Stby
      <4>1. link[Stby] \in Seq(Letter) /\ link[Stby] # << >> /\ AllFrom(link[Stby], Prim)
        BY <1>10, <3>1, MessageInLeaves, AddressedSplit
      <4>2. Head(link[Stby]).body.kind = "site" => Head(link[Stby]).body.msg.from = Prim
        BY <4>1, TailFrom
      <4>3. \/ /\ Head(link[Stby]).body.kind = "site"
               /\ slot'[Stby].from = Head(link[Stby]).body.msg.from
            \/ slot' = slot
        BY <1>10, <3>1, MessageInLeaves
      <4>. QED BY <1>2, <4>2, <4>3
    <3>2. CASE g # Stby
      BY <1>1, <1>2, <2>1, <3>2
    <3>. QED BY <3>1, <3>2
  <2>. QED BY <1>1, <2>1, <2>2, <2>3, <2>4, <2>5 DEF Parted
<1>11. CASE \E g \in Gateways : SendIdentifier(g)
  BY <1>9, <1>11
<1>12. CASE \E g \in Gateways : InterSiteMessageIn(g)
  BY <1>10, <1>12
<1>. QED BY <1>3, <1>4, <1>5, <1>6, <1>7, <1>8, <1>11, <1>12 DEF Rests

(* What a stop and a restart change.                                          *)
LEMMA StopLeaves ==
  ASSUME TypeOK, NEW g \in Gateways, Stop(g)
  PROVE  /\ up' = up \ {g} /\ due' = due \ {g} /\ ~IsActive'[g] /\ slot'[g] = None
         /\ \A h \in Gateways \ {g} : IsActive'[h] = IsActive[h] /\ slot'[h] = slot[h]
         /\ ~linkUp' /\ link'[Prim] = << >> /\ link'[Stby] = << >>
         /\ g = Stby => sb'.state = "Reset" /\ ~sb'.force /\ pr' = pr
         /\ g # Stby => sb' = sb
         /\ seen'.dark = 0
<1>1. /\ up' = up \ {g} /\ due' = due \ {g} /\ IsActive' = [IsActive EXCEPT ![g] = FALSE]
      /\ slot' = [slot EXCEPT ![g] = None] /\ linkUp' = FALSE /\ link' = [h \in Gateways |-> <<>>]
      /\ pr' = (IF g = Prim THEN FreshPrimary(pr.flag) ELSE pr)
      /\ sb' = (IF g = Stby THEN FreshStandby ELSE sb)
      /\ seen' = [seen EXCEPT !.dark = 0]
  BY DEF Stop
<1>2. /\ IsActive \in [Gateways -> BOOLEAN] /\ slot \in Buffers /\ seen \in Observed
      /\ Prim # Stby /\ Prim \in Gateways /\ Stby \in Gateways
  BY TypesSplit, FourNames, Pair
<1>3. FreshStandby.state = "Reset" /\ FreshStandby.force = FALSE
  BY DEF FreshStandby
<1>4. seen'.dark = 0
  BY <1>1, <1>2 DEF Observed
<1>5. slot'[g] = None /\ \A h \in Gateways \ {g} : slot'[h] = slot[h]
  BY <1>1, <1>2 DEF Buffers
<1>. QED BY <1>1, <1>2, <1>3, <1>4, <1>5

(* What a restart changes.                                                    *)
LEMMA RestartLeaves ==
  ASSUME TypeOK, NEW g \in Gateways, Restart(g)
  PROVE  /\ g \notin up /\ up' = up \cup {g} /\ due' = due \cup {g} /\ (IsActive'[g] <=> g = Prim)
         /\ \A h \in Gateways \ {g} : IsActive'[h] = IsActive[h]
         /\ slot' = slot /\ linkUp' = linkUp /\ link' = link /\ sb' = sb /\ faults' = faults
         /\ sinceId' = sinceId
         /\ pr'.standby = pr.standby /\ seen'.dark = 0
<1>1. /\ g \notin up /\ up' = up \cup {g} /\ due' = due \cup {g}
      /\ IsActive' = [IsActive EXCEPT ![g] = (g = Prim)]
      /\ slot' = slot /\ linkUp' = linkUp /\ link' = link /\ sb' = sb /\ faults' = faults
      /\ sinceId' = sinceId
      /\ pr' = (IF g = Prim THEN [pr EXCEPT !.flag = Later(@, LastFlag)] ELSE pr)
      /\ seen' = [seen EXCEPT !.dark = 0]
  BY DEF Restart, StartsActive
<1>2. /\ IsActive \in [Gateways -> BOOLEAN] /\ seen \in Observed /\ pr \in PrimaryState
  BY TypesSplit
<1>3. seen'.dark = 0
  BY <1>1, <1>2 DEF Observed
<1>4. pr'.standby = pr.standby
  BY <1>1, <1>2 DEF PrimaryState
<1>. QED BY <1>1, <1>2, <1>3, <1>4

(* While the connection is cut a pass sends nothing.                          *)
LEMMA CutPassSendsNothing ==
  ASSUME TypeOK, StandbyStep, ~MergeCrash, ~linkUp
  PROVE  link' = link
<1>1. PICK to \in StbySyncState : Onward(to)
  BY StandbyPasses
<1>. QED BY <1>1 DEF Onward, Sends, Send

(* Standing and OnCourse are kept by every step.                              *)
LEMMA RestsStand ==
  ASSUME TypeOK, Addressed, Standing, OnCourse, Rests
  PROVE  Standing' /\ OnCourse'
<1>1. Unmoved /\ (linkUp' => linkUp \/ up = Gateways)
      /\ (~linkUp' => link'[Prim] = << >> /\ link'[Stby] = << >>)
      /\ (slot'[Prim] # None => slot'[Prim].from = pr'.standby)
      /\ (slot'[Stby] # None => slot'[Stby].from = Prim)
  BY RestsLeave
<1>2. Standing'
  BY <1>1 DEF Standing, Unmoved
<1>3. OnCourse'
  BY <1>1 DEF OnCourse, Unmoved, PrimaryLost
<1>. QED BY <1>2, <1>3

(* A pass of the standby keeps them.                                          *)
LEMMA PassStands ==
  ASSUME TypeOK, Standing, OnCourse, StandbyStep, ~MergeCrash
  PROVE  Standing' /\ OnCourse'
<1>1. EachPass /\ (SyncTable \/ TakeOverTable)
  BY Timetable
<1>2. ~linkUp => link' = link
  BY CutPassSendsNothing
<1>3. /\ Stby \in due /\ due' = due \ {Stby} /\ up' = up /\ linkUp' = linkUp /\ pr' = pr
      /\ slot'[Prim] = slot[Prim] /\ slot'[Stby] = None /\ seen'.dark = seen.dark
      /\ (sb.state \notin TakenOver => IsActive' = IsActive)
      /\ (sb'.heard <=> sb.heard \/ slot[Stby] # None) /\ (sb'.force => sb.force)
      /\ sb'.inState = (IF sb'.state = sb.state THEN sb.inState ELSE 0)
      /\ (sb.state # "Reset" => sb'.sinceOK = IF FromPrimary THEN 0 ELSE sb.sinceOK)
  BY <1>1 DEF EachPass
<1>4. Stby \in up
  BY <1>3, TypesSplit
<1>5. sb'.state \in {"RunActive", "HandBackOver"} => IsActive'[Stby]
  <2>1. CASE SyncTable
    BY <2>1 DEF SyncTable
  <2>2. CASE TakeOverTable
    BY <2>2 DEF TakeOverTable, Standing
  <2>. QED BY <1>1, <2>1, <2>2
<1>6. sb'.state # "Reset"
  <2>1. CASE SyncTable
    BY <2>1 DEF SyncTable
  <2>2. CASE TakeOverTable
    BY <2>2 DEF TakeOverTable
  <2>. QED BY <1>1, <2>1, <2>2
<1>7. Standing'
  BY <1>2, <1>3, <1>4, <1>5, <1>6 DEF Standing
<1>8. sb'.state \in {"RequestCredentials", "WaitForCredentials"} => sb'.heard
  <2>1. CASE SyncTable
    BY <1>3, <2>1 DEF SyncTable, OnCourse
  <2>2. CASE TakeOverTable
    BY <2>2 DEF TakeOverTable
  <2>. QED BY <1>1, <2>1, <2>2
<1>9. sb'.state \in {"StoreTables", "ActivateTables"} => RouteTableAllocated
  <2>1. CASE SyncTable
    BY <1>3, <2>1 DEF SyncTable, OnCourse
  <2>2. CASE TakeOverTable
    BY <2>2 DEF TakeOverTable
  <2>. QED BY <1>1, <2>1, <2>2
<1>10. sb'.state = "WaitForPrimaryToFail" /\ PrimaryLost' => sb'.inState = 0
  <2>1. CASE sb.state # "WaitForPrimaryToFail"
    BY <1>3, <2>1
  <2>2. CASE sb.state = "WaitForPrimaryToFail" /\ sb'.state = "WaitForPrimaryToFail"
    <3>1. ~PrimaryLost
      <4>1. CASE SyncTable
        BY <2>2, <4>1 DEF SyncTable
      <4>2. CASE TakeOverTable
        BY <2>2, <4>2 DEF TakeOverTable
      <4>. QED BY <1>1, <4>1, <4>2
    <3>2. ~(sb'.sinceOK > hotcutovertime)
      BY <1>3, <2>2, <3>1, Periods DEF PrimaryLost
    <3>. QED BY <3>2 DEF PrimaryLost
  <2>. QED BY <2>1, <2>2
<1>11. OnCourse'
  BY <1>3, <1>8, <1>9, <1>10 DEF OnCourse
<1>. QED BY <1>7, <1>11

(* So does a second,                                                          *)
LEMMA TickStands ==
  ASSUME TypeOK, Standing, OnCourse, Tick
  PROVE  Standing' /\ OnCourse'
<1>1. /\ due = {} /\ due' = up /\ up' = up /\ IsActive' = IsActive /\ slot' = slot /\ linkUp' = linkUp
      /\ sb'.state = sb.state /\ sb'.force = sb.force
      /\ \A g \in Gateways : Len(link'[g]) = Len(link[g])
      /\ link' \in Links
  BY TickLeaves
<1>2. /\ Stby \in up => sb'.sinceReq = Later(sb.sinceReq, LongestReq)
      /\ Stby \notin up => sb' = sb
      /\ sb'.heard = sb.heard /\ pr'.standby = pr.standby
      /\ seen'.dark = IF Covered \/ up = {} THEN 0 ELSE Later(seen.dark, MaxDark + 1)
  BY TickClocks
<1>3. IsActive[Stby] => Covered
  BY Pair DEF Covered
<1>4. ~linkUp => link'[Prim] = << >> /\ link'[Stby] = << >>
  <2>1. link \in Links
    BY LinkTyped
  <2>2. \A g \in Gateways : link[g] = << >> => link'[g] = << >>
    BY <1>1, <2>1 DEF Links
  <2>. QED BY <2>2, Pair DEF Standing
<1>5. Standing'
  BY <1>1, <1>2, <1>3, <1>4 DEF Standing
<1>6. sb'.state = "ReceivedCredentials" /\ Stby \in due' => sb'.sinceReq >= 1
  BY <1>1, <1>2, SbTyped, Longests, Periods DEF Later
<1>7. ~(sb'.state = "WaitForPrimaryToFail" /\ Stby \notin due')
  BY <1>1 DEF Standing
<1>8. OnCourse'
  BY <1>1, <1>2, <1>6, <1>7 DEF OnCourse
<1>. QED BY <1>5, <1>8

(* a process that stops,                                                      *)
LEMMA StopStands ==
  ASSUME TypeOK, Standing, OnCourse, NEW g \in Gateways, Stop(g)
  PROVE  Standing' /\ OnCourse'
<1>1. /\ up' = up \ {g} /\ due' = due \ {g} /\ ~IsActive'[g] /\ slot'[g] = None
      /\ \A h \in Gateways \ {g} : IsActive'[h] = IsActive[h] /\ slot'[h] = slot[h]
      /\ ~linkUp' /\ link'[Prim] = << >> /\ link'[Stby] = << >>
      /\ g = Stby => sb'.state = "Reset" /\ ~sb'.force /\ pr' = pr
      /\ g # Stby => sb' = sb
      /\ seen'.dark = 0
  BY StopLeaves
<1>2. Prim # Stby /\ Prim \in Gateways /\ Stby \in Gateways /\ (g = Prim \/ g = Stby)
  BY FourNames, Pair
<1>3. CASE g = Stby
  BY <1>1, <1>2, <1>3 DEF Standing, OnCourse
<1>4. CASE g = Prim
  BY <1>1, <1>2, <1>4 DEF Standing, OnCourse, PrimaryLost
<1>. QED BY <1>2, <1>3, <1>4

(* and one that starts again.                                                 *)
LEMMA RestartStands ==
  ASSUME TypeOK, Standing, OnCourse, NEW g \in Gateways, Restart(g)
  PROVE  Standing' /\ OnCourse'
<1>1. /\ g \notin up /\ up' = up \cup {g} /\ due' = due \cup {g} /\ (IsActive'[g] <=> g = Prim)
      /\ \A h \in Gateways \ {g} : IsActive'[h] = IsActive[h]
      /\ slot' = slot /\ linkUp' = linkUp /\ link' = link /\ sb' = sb
      /\ pr'.standby = pr.standby /\ seen'.dark = 0
  BY RestartLeaves
<1>2. Prim # Stby /\ Prim \in Gateways /\ Stby \in Gateways /\ (g = Prim \/ g = Stby)
  BY FourNames, Pair
<1>3. ~linkUp
  BY <1>1 DEF Standing
<1>4. CASE g = Stby
  BY <1>1, <1>2, <1>3, <1>4 DEF Standing, OnCourse
<1>5. CASE g = Prim
  BY <1>1, <1>2, <1>3, <1>5 DEF Standing, OnCourse, PrimaryLost
<1>. QED BY <1>2, <1>4, <1>5

-----------------------------------------------------------------------------
(* The lengths of the timetable.                                              *)
LEMMA LapConstants ==
  /\ FromWait \in Nat /\ FromWait = TakeOverWaitTime + 2
  /\ FromSync \in Nat /\ FromSync >= FromWait + 2
  /\ RouteTableAllocated => FromSync = FromWait + RebuildTime + 4
  /\ FromReceived \in Nat /\ FromReceived >= FromSync + 3 /\ FromReceived >= RetryDbxTime + 2 + FromSync
  /\ Try \in Nat /\ Try = CredentialTimeout + 4
  /\ (CredentialFailMax + 1) * Try \in Nat
  /\ LongestLap \in Nat /\ LongestLap >= ResponseTime + 3 + FromWait
  /\ LongestLap >= (CredentialFailMax + 1) * Try + FromWait /\ LongestLap >= FromReceived + 4
  /\ AloneLimit = hotcutovertime + 3 + LongestLap
<1>1. FromWait \in Nat /\ FromWait = TakeOverWaitTime + 2
  BY Periods DEF FromWait
<1>2. /\ FromSync \in Nat /\ FromSync >= FromWait + 2
      /\ RouteTableAllocated => FromSync = FromWait + RebuildTime + 4
  BY <1>1, Periods DEF FromSync
<1>3. Largest({RetryDbxTime, 1}) \in Nat /\ Largest({RetryDbxTime, 1}) >= RetryDbxTime /\ Largest({RetryDbxTime, 1}) >= 1
  <2>1. {RetryDbxTime, 1} = {RetryDbxTime, 1, 1}
    OBVIOUS
  <2>. QED BY <2>1, LargestOfThree, Periods
<1>4. FromReceived \in Nat /\ FromReceived >= FromSync + 3 /\ FromReceived >= RetryDbxTime + 2 + FromSync
  BY <1>2, <1>3, Periods DEF FromReceived
<1>5. Try \in Nat /\ Try = CredentialTimeout + 4
  BY Periods DEF Try
<1>6. (CredentialFailMax + 1) * Try \in Nat
  <2>1. \A n, k \in Nat : (n + 1) * k \in Nat
    OBVIOUS
  <2>. QED BY <1>5, <2>1, Periods
<1>7. PICK t \in Nat : t = (CredentialFailMax + 1) * Try
  BY <1>6
<1>8. /\ LongestLap \in Nat /\ LongestLap >= ResponseTime + 3 + FromWait
      /\ LongestLap >= t + FromWait /\ LongestLap >= FromReceived + 4
  <2>1. ResponseTime + 3 + FromWait \in Nat /\ t + FromWait \in Nat /\ FromReceived + 4 \in Nat
    BY <1>1, <1>4, Periods
  <2>2. LongestLap = Largest({ResponseTime + 3 + FromWait, t + FromWait, FromReceived + 4})
    BY <1>7 DEF LongestLap
  <2>3. PICK a \in Nat, b \in Nat, c \in Nat :
          a = ResponseTime + 3 + FromWait /\ b = t + FromWait /\ c = FromReceived + 4
    BY <2>1
  <2>4. LongestLap = Largest({a, b, c})
    BY <2>2, <2>3
  <2>5. LongestLap \in Nat /\ a <= LongestLap /\ b <= LongestLap /\ c <= LongestLap
    BY <2>4, LargestOfThree
  <2>. QED BY <2>3, <2>5
<1>. QED BY <1>1, <1>2, <1>4, <1>5, <1>6, <1>7, <1>8 DEF AloneLimit

(* The lengths are constants.                                                 *)
LEMMA LapConstantsStay ==
  /\ FromWait' = FromWait /\ FromSync' = FromSync /\ FromReceived' = FromReceived
  /\ Try' = Try /\ LongestLap' = LongestLap /\ AloneLimit' = AloneLimit
BY DEF FromWait, FromSync, FromReceived, Try, LongestLap, AloneLimit, Largest

(* The attempts that are left.                                                *)
LEMMA TriesLeft ==
  ASSUME TypeOK
  PROVE  Tries \in Nat /\ Tries >= Try /\ Tries <= (CredentialFailMax + 1) * Try
<1>1. PICK c \in Nat : c = sb.credFails /\ c <= CredentialFailMax + 1
  BY SbTyped
<1>2. PICK k \in Nat : k = Try
  BY LapConstants
<1>3. PICK n \in Nat : n = (IF c > CredentialFailMax THEN 1 ELSE CredentialFailMax + 1 - c)
                       /\ n >= 1 /\ n <= CredentialFailMax + 1
  BY <1>1, Periods
<1>4. Tries = n * k
  BY <1>1, <1>2, <1>3 DEF Tries
<1>5. \A m, a, b \in Nat : a >= 1 /\ a <= b => a * m \in Nat /\ a * m >= m /\ a * m <= b * m
  <2>. SUFFICES ASSUME NEW m \in Nat, NEW a \in Nat, NEW b \in Nat, a >= 1, a <= b
                PROVE  a * m \in Nat /\ a * m >= m /\ a * m <= b * m
    OBVIOUS
  <2>1. \A i, j \in Nat : i * j \in Nat
    OBVIOUS
  <2>2. PICK d \in Nat : a = d + 1
    <3>1. a - 1 \in Nat /\ a = (a - 1) + 1
      OBVIOUS
    <3>. QED BY <3>1
  <2>3. PICK e \in Nat : b = a + e
    <3>1. b - a \in Nat /\ b = a + (b - a)
      OBVIOUS
    <3>. QED BY <3>1
  <2>4. a * m = d * m + m /\ b * m = a * m + e * m
    BY <2>2, <2>3
  <2>. QED BY <2>1, <2>4
<1>6. n * k \in Nat /\ n * k >= k /\ n * k <= (CredentialFailMax + 1) * k
  BY <1>3, <1>5, Periods
<1>. QED BY <1>2, <1>4, <1>6

(* An attempt that fails takes one from those that are left.                  *)
LEMMA TriesGo ==
  ASSUME TypeOK, TypeOK'
  PROVE  /\ sb'.credFails = sb.credFails => Tries' = Tries
         /\ sb.credFails + 1 <= CredentialFailMax /\ sb'.credFails = sb.credFails + 1 => Tries' = Tries - Try
         /\ Tries' \in Nat /\ Tries' >= Try /\ Tries' <= (CredentialFailMax + 1) * Try
<1>1. PICK c \in Nat : c = sb.credFails /\ c <= CredentialFailMax + 1
  BY SbTyped
<1>2. PICK k \in Nat : k = Try
  BY LapConstants
<1>3. sb'.credFails = sb.credFails => Tries' = Tries
  BY LapConstantsStay DEF Tries
<1>4. ASSUME c + 1 <= CredentialFailMax, sb'.credFails = c + 1
      PROVE  Tries' = Tries - Try
  <2>1. Tries = (CredentialFailMax + 1 - c) * k
    BY <1>1, <1>2, <1>4, Periods DEF Tries
  <2>2. Tries' = (CredentialFailMax + 1 - (c + 1)) * k
    <3>1. Tries' = (IF sb'.credFails > CredentialFailMax THEN 1 ELSE CredentialFailMax + 1 - sb'.credFails) * k
      BY <1>2, LapConstantsStay DEF Tries
    <3>. QED BY <1>1, <1>4, <3>1, Periods
  <2>3. PICK n \in Nat : n + 1 = CredentialFailMax + 1 - c
    <3>1. CredentialFailMax - c \in Nat /\ (CredentialFailMax - c) + 1 = CredentialFailMax + 1 - c
      BY <1>1, <1>4, Periods
    <3>. QED BY <3>1
  <2>4. n = CredentialFailMax + 1 - (c + 1)
    BY <1>1, <2>3, Periods
  <2>5. (n + 1) * k = n * k + k /\ n * k \in Nat
    BY <1>2
  <2>6. Tries = n * k + k /\ Tries' = n * k
    BY <2>1, <2>2, <2>3, <2>4, <2>5
  <2>. QED BY <1>2, <2>5, <2>6
<1>5. Tries' \in Nat /\ Tries' >= Try /\ Tries' <= (CredentialFailMax + 1) * Try
  <2>1. PICK d \in Nat : d = sb'.credFails /\ d <= CredentialFailMax + 1
    <3>1. sb' \in StandbyState
      BY DEF TypeOK
    <3>. QED BY <3>1, Periods DEF StandbyState
  <2>2. PICK n \in Nat : n = (IF d > CredentialFailMax THEN 1 ELSE CredentialFailMax + 1 - d)
                         /\ n >= 1 /\ n <= CredentialFailMax + 1
    BY <2>1, Periods
  <2>3. Tries' = n * k
    BY <1>2, <2>1, <2>2, LapConstantsStay DEF Tries
  <2>4. PICK e \in Nat : CredentialFailMax + 1 = n + e
    <3>1. CredentialFailMax + 1 - n \in Nat /\ CredentialFailMax + 1 = n + (CredentialFailMax + 1 - n)
      BY <2>2, Periods
    <3>. QED BY <3>1
  <2>5. PICK f \in Nat : n = f + 1
    <3>1. n - 1 \in Nat /\ n = (n - 1) + 1
      BY <2>2
    <3>. QED BY <3>1
  <2>6. (n + e) * k = n * k + e * k /\ n * k = f * k + k /\ e * k \in Nat /\ f * k \in Nat /\ n * k \in Nat
    BY <2>5
  <2>. QED BY <1>2, <2>3, <2>4, <2>6
<1>. QED BY <1>1, <1>3, <1>4, <1>5

(* The lap from each state, read from its definition.                         *)
LapValues ==
  /\ sb.state = "Reset" => Lap = LongestLap + 1
  /\ sb.state = "Startup" => Lap = FromStartup
  /\ sb.state = "FindPrimary" =>
       Lap = IF sb.heard THEN FromStartup - 1 ELSE More(ResponseTime, ReqNext) + 2 + FromWait
  /\ sb.state = "RequestCredentials" => Lap = FromStartup - 2
  /\ sb.state = "WaitForCredentials" =>
       Lap = IF sb.credsOK THEN FromReceived + 1
             ELSE (Tries - Try) + More(CredentialTimeout, ReqNext) + 1 + FromWait
  /\ sb.state = "ReceivedCredentials" => Lap = More(RetryDbxTime, ReqNext + 1) + 3 + FromSync
  /\ sb.state = "ConnenctToDB" => Lap = More(RetryDbxTime, ReqNext) + 2 + FromSync
  /\ sb.state = "FailedToAccessDB" => Lap = FromSync + 1
  /\ sb.state = "Synchronizing" => Lap = FromSync
  /\ sb.state = "MergeTables" => Lap = FromSync - 1
  /\ sb.state = "StoreTables" => Lap = FromSync - 2
  /\ sb.state = "ActivateTables" => Lap = More(RebuildTime, InNext) + 1 + FromWait
  /\ sb.state \in {"FailedReadTables", "CantContactPrimary"} => Lap = FromWait + 1
  /\ sb.state = "WaitForPrimaryToFail" =>
       Lap = IF InNext > hotcutovertime + RetryDbxTime THEN LongestLap + 1 ELSE FromWait
  /\ sb.state = "TakingOver" => Lap = TakeOverWaitTime + 1
  /\ sb.state = "TakeOverWait" => Lap = More(TakeOverWaitTime, InNext)
  /\ sb.state \in {"RunActive", "HandBackOver"} => Lap = 0

LEMMA LapRead == LapValues
BY DEF LapValues, Lap

(* The same after a step.                                                     *)
LEMMA LapReadNext ==
  /\ sb'.state = "Reset" => Lap' = LongestLap + 1
  /\ sb'.state = "Startup" => Lap' = FromStartup'
  /\ sb'.state = "FindPrimary" =>
       Lap' = IF sb'.heard THEN FromStartup' - 1 ELSE More(ResponseTime, ReqNext') + 2 + FromWait
  /\ sb'.state = "RequestCredentials" => Lap' = FromStartup' - 2
  /\ sb'.state = "WaitForCredentials" =>
       Lap' = IF sb'.credsOK THEN FromReceived + 1
              ELSE (Tries' - Try) + More(CredentialTimeout, ReqNext') + 1 + FromWait
  /\ sb'.state = "ReceivedCredentials" => Lap' = More(RetryDbxTime, ReqNext' + 1) + 3 + FromSync
  /\ sb'.state = "ConnenctToDB" => Lap' = More(RetryDbxTime, ReqNext') + 2 + FromSync
  /\ sb'.state = "FailedToAccessDB" => Lap' = FromSync + 1
  /\ sb'.state = "Synchronizing" => Lap' = FromSync
  /\ sb'.state = "MergeTables" => Lap' = FromSync - 1
  /\ sb'.state = "StoreTables" => Lap' = FromSync - 2
  /\ sb'.state = "ActivateTables" => Lap' = More(RebuildTime, InNext') + 1 + FromWait
  /\ sb'.state \in {"FailedReadTables", "CantContactPrimary"} => Lap' = FromWait + 1
  /\ sb'.state = "WaitForPrimaryToFail" =>
       Lap' = IF InNext' > hotcutovertime + RetryDbxTime THEN LongestLap + 1 ELSE FromWait
  /\ sb'.state = "TakingOver" => Lap' = TakeOverWaitTime + 1
  /\ sb'.state = "TakeOverWait" => Lap' = More(TakeOverWaitTime, InNext')
  /\ sb'.state \in {"RunActive", "HandBackOver"} => Lap' = 0
<1>1. LapValues'
  BY LapRead, PTL
<1>. QED BY <1>1, LapConstantsStay DEF LapValues, More

(* The way from Startup, read from its definition after a step.               *)
LEMMA FromStartupNext ==
  ASSUME TypeOK, TypeOK'
  PROVE  FromStartup' = IF ~sb'.heard THEN ResponseTime + 3 + FromWait
                        ELSE IF sb'.credsOK THEN FromReceived + 4 ELSE Tries' + FromWait
BY LapConstantsStay DEF FromStartup

(* More is the rest of a period.                                              *)
LEMMA MoreLess ==
  ASSUME NEW p \in Nat, NEW n \in Nat
  PROVE  /\ More(p, n) \in Nat /\ More(p, n) <= p + 1
         /\ n > p => More(p, n) = 0
         /\ n <= p => More(p, n + 1) + 1 = More(p, n)
         /\ n >= 1 => More(p, n) <= p
         /\ n >= 2 /\ p >= 1 => More(p, n) <= p - 1
BY DEF More

(* No state is further away than the longest lap.                             *)
LEMMA LapBound ==
  ASSUME TypeOK, OnCourse
  PROVE  Lap \in Nat /\ Lap <= LongestLap + 1
<1>1. /\ sb.state \in StbySyncState /\ sb.inState \in Nat /\ sb.sinceReq \in Nat
      /\ sb.heard \in BOOLEAN /\ sb.credsOK \in BOOLEAN
  BY SbTyped
<1>2. PICK q \in Nat, n \in Nat : q = ReqNext /\ n = InNext
  BY <1>1 DEF ReqNext, InNext, Pause
<1>3. /\ More(ResponseTime, q) \in Nat /\ More(ResponseTime, q) <= ResponseTime + 1
      /\ More(CredentialTimeout, q) \in Nat /\ More(CredentialTimeout, q) <= CredentialTimeout + 1
      /\ More(RetryDbxTime, q) \in Nat /\ More(RetryDbxTime, q) <= RetryDbxTime + 1
      /\ More(RetryDbxTime, q + 1) \in Nat /\ More(RetryDbxTime, q + 1) <= RetryDbxTime + 1
      /\ More(RebuildTime, n) \in Nat /\ More(RebuildTime, n) <= RebuildTime + 1
      /\ More(TakeOverWaitTime, n) \in Nat /\ More(TakeOverWaitTime, n) <= TakeOverWaitTime + 1
  <2>1. \A p, k \in Nat : More(p, k) \in Nat /\ More(p, k) <= p + 1
    BY MoreLess
  <2>2. q + 1 \in Nat
    OBVIOUS
  <2>. QED BY <2>1, <2>2, Periods
<1>4. PICK t \in Nat, m \in Nat :
        t = Tries /\ m = (CredentialFailMax + 1) * Try /\ t >= Try /\ t <= m /\ LongestLap >= m + FromWait
  BY TriesLeft, LapConstants
<1>5. FromStartup \in Nat /\ FromStartup >= 2 /\ FromStartup <= LongestLap
  BY <1>1, <1>4, LapConstants, Periods DEF FromStartup
<1>6. LapValues
  BY LapRead
<1>7. sb.state = "ActivateTables" => RouteTableAllocated
  BY DEF OnCourse
<1>. HIDE DEF More
<1>8. CASE sb.state \in {"Reset", "Startup", "FindPrimary", "RequestCredentials", "FailedToAccessDB",
                         "Synchronizing", "MergeTables", "StoreTables", "FailedReadTables",
                         "CantContactPrimary", "WaitForPrimaryToFail", "TakingOver", "RunActive", "HandBackOver"}
  BY <1>1, <1>2, <1>3, <1>5, <1>6, <1>8, LapConstants, Periods DEF LapValues
<1>9. CASE sb.state = "WaitForCredentials"
  BY <1>1, <1>2, <1>3, <1>4, <1>6, <1>9, LapConstants, Periods DEF LapValues
<1>10. CASE sb.state \in {"ReceivedCredentials", "ConnenctToDB", "ActivateTables", "TakeOverWait"}
  BY <1>1, <1>2, <1>3, <1>6, <1>7, <1>10, LapConstants, Periods DEF LapValues
<1>. QED BY <1>1, <1>8, <1>9, <1>10 DEF StbySyncState

(* So the standby is never further away than AloneLimit.                      *)
LEMMA LeftBound ==
  ASSUME TypeOK, OnCourse
  PROVE  Left \in Nat /\ Left <= AloneLimit
<1>1. PICK l \in Nat : l = Lap /\ l <= LongestLap + 1
  BY LapBound
<1>2. PICK s \in Nat : s = sb.sinceOK /\ s <= hotcutovertime + 1
  BY SbTyped
<1>3. Mourning \in Nat /\ Mourning <= hotcutovertime + 2 /\ Pause \in {0, 1}
  BY <1>2, Periods DEF Mourning, Pause
<1>4. Mourning <= hotcutovertime + 2 /\ Mourning + LongestLap + 1 <= AloneLimit
  BY <1>3, LapConstants, Periods
<1>. QED BY <1>1, <1>3, <1>4, LapConstants, Periods DEF Left

(* One pass of a standby that is alone for long enough comes one step nearer. *)
LEMMA LapPass ==
  ASSUME TypeOK, TypeOK', OnCourse, OnCourse', EachPass, SyncTable \/ TakeOverTable,
         slot[Stby] = None, PrimaryLost, sb.state # "Reset",
         sb.state \notin {"RunActive", "HandBackOver"}
  PROVE  IsActive'[Stby] \/ Lap' + 1 <= Lap
<1>1. /\ sb.state \in StbySyncState /\ sb.inState \in Nat /\ sb.sinceReq \in Nat
      /\ sb.heard \in BOOLEAN /\ sb.credsOK \in BOOLEAN
  BY SbTyped
<1>2. sb'.inState \in Nat /\ sb'.sinceReq \in Nat /\ sb'.heard \in BOOLEAN /\ sb'.credsOK \in BOOLEAN
  BY Longests DEF TypeOK, StandbyState
<1>3. /\ Stby \in due /\ Stby \notin due' /\ sb'.credsOK = sb.credsOK /\ (sb'.heard <=> sb.heard)
      /\ sb'.inState = IF sb'.state = sb.state THEN sb.inState ELSE 0
  BY DEF EachPass
<1>4. PICK x \in Nat, y \in Nat, i \in Nat, j \in Nat :
        /\ x = sb.sinceReq /\ y = sb'.sinceReq /\ i = sb.inState /\ j = sb'.inState
        /\ ReqNext = x /\ ReqNext' = y + 1 /\ InNext = i /\ InNext' = j + 1
  BY <1>1, <1>2, <1>3 DEF ReqNext, InNext, Pause
<1>5. PICK t \in Nat, u \in Nat : /\ t = Tries /\ u = Tries' /\ t >= Try /\ u >= Try
                                  /\ sb'.credFails = sb.credFails => u = t
                                  /\ sb.credFails + 1 <= CredentialFailMax /\ sb'.credFails = sb.credFails + 1 => u = t - Try
                                  /\ t + FromWait <= LongestLap /\ u + FromWait <= LongestLap
  BY TriesLeft, TriesGo, LapConstants
<1>6. FromStartup = IF ~sb.heard THEN ResponseTime + 3 + FromWait
                    ELSE IF sb.credsOK THEN FromReceived + 4 ELSE t + FromWait
  BY <1>5 DEF FromStartup
<1>7. FromStartup' = IF ~sb'.heard THEN ResponseTime + 3 + FromWait
                     ELSE IF sb'.credsOK THEN FromReceived + 4 ELSE u + FromWait
  BY <1>5, FromStartupNext
<1>8. \A p, n \in Nat : /\ More(p, n) \in Nat /\ More(p, n) <= p + 1
                        /\ n > p => More(p, n) = 0
                        /\ n <= p => More(p, n + 1) + 1 = More(p, n)
                        /\ n >= 1 => More(p, n) <= p
                        /\ n >= 2 /\ p >= 1 => More(p, n) <= p - 1
  BY MoreLess
<1>9. LapValues
  BY LapRead
<1>. HIDE DEF More
<1>10. CASE sb.state = "Startup" /\ sb'.state = "FindPrimary" /\ sb'.sinceReq = 0 /\ sb'.credFails = sb.credFails
  <2>1. y + 1 = 1 /\ More(ResponseTime, y + 1) \in Nat /\ More(ResponseTime, y + 1) <= ResponseTime
    <3>1. y + 1 = 1
      BY <1>4, <1>10
    <3>2. More(ResponseTime, 1) \in Nat /\ More(ResponseTime, 1) <= ResponseTime
      BY <1>8, Periods
    <3>. QED BY <3>1, <3>2
  <2>2. Lap = FromStartup /\ Lap' = IF sb'.heard THEN FromStartup' - 1 ELSE More(ResponseTime, y + 1) + 2 + FromWait
    BY <1>4, <1>9, <1>10, LapReadNext DEF LapValues
  <2>. QED BY <1>1, <1>2, <1>3, <1>5, <1>6, <1>7, <1>10, <2>1, <2>2, LapConstants, Periods
<1>11. CASE /\ sb.state = "FindPrimary" /\ Steady
            /\ sb'.state = IF sb.sinceReq > ResponseTime THEN "CantContactPrimary"
                           ELSE IF sb.heard \/ slot[Stby] # None THEN "RequestCredentials" ELSE "FindPrimary"
  <2>1. Lap = IF sb.heard THEN FromStartup - 1 ELSE More(ResponseTime, x) + 2 + FromWait
    BY <1>4, <1>9, <1>11 DEF LapValues
  <2>2. More(ResponseTime, x) \in Nat /\ (x <= ResponseTime => More(ResponseTime, x + 1) + 1 = More(ResponseTime, x))
    BY <1>8, Periods
  <2>3. CASE sb.sinceReq > ResponseTime
    <3>1. Lap' = FromWait + 1
      BY <1>11, <2>3, LapReadNext
    <3>. QED BY <1>5, <1>6, <2>1, <2>2, <3>1, LapConstants, Periods
  <2>4. CASE ~(sb.sinceReq > ResponseTime) /\ sb.heard
    <3>1. Lap' = FromStartup' - 2
      BY <1>11, <2>4, LapReadNext
    <3>. QED BY <1>2, <1>3, <1>5, <1>6, <1>7, <1>11, <2>1, <2>4, <3>1, LapConstants, Periods DEF Steady
  <2>5. CASE ~(sb.sinceReq > ResponseTime) /\ ~sb.heard
    <3>1. sb'.state = "FindPrimary" /\ ~sb'.heard /\ y = x /\ x <= ResponseTime
      BY <1>3, <1>4, <1>11, <2>5, Periods DEF Steady
    <3>2. Lap' = More(ResponseTime, x + 1) + 2 + FromWait
      BY <1>4, <3>1, LapReadNext
    <3>3. More(ResponseTime, x + 1) \in Nat
      <4>1. x + 1 \in Nat
        OBVIOUS
      <4>. QED BY <1>8, <4>1, Periods
    <3>. QED BY <2>1, <2>2, <2>5, <3>1, <3>2, <3>3, LapConstants
  <2>. QED BY <2>3, <2>4, <2>5
<1>12. CASE /\ sb.state = "RequestCredentials" /\ sb'.state = "WaitForCredentials"
            /\ sb'.sinceReq = 0 /\ sb'.credFails = sb.credFails
  <2>1. Lap = FromStartup - 2 /\ sb.heard
    BY <1>9, <1>12 DEF LapValues, OnCourse
  <2>2. Lap' = IF sb'.credsOK THEN FromReceived + 1
               ELSE (u - Try) + More(CredentialTimeout, y + 1) + 1 + FromWait
    BY <1>4, <1>5, <1>12, LapReadNext
  <2>3. y + 1 = 1 /\ More(CredentialTimeout, y + 1) \in Nat /\ More(CredentialTimeout, y + 1) <= CredentialTimeout
    BY <1>4, <1>8, <1>12, Periods
  <2>. QED BY <1>3, <1>5, <1>6, <1>12, <2>1, <2>2, <2>3, LapConstants, Periods
<1>13. CASE sb.state = "WaitForCredentials" /\ sb.credsOK /\ sb'.state = "ReceivedCredentials" /\ sb'.sinceReq = 0
  <2>1. Lap = FromReceived + 1
    BY <1>9, <1>13 DEF LapValues
  <2>2. Lap' = More(RetryDbxTime, y + 1 + 1) + 3 + FromSync
    BY <1>4, <1>13, LapReadNext
  <2>3. y + 1 + 1 = 2 /\ y + 1 + 1 \in Nat
    BY <1>4, <1>13
  <2>4. /\ More(RetryDbxTime, 2) \in Nat /\ (RetryDbxTime >= 1 => More(RetryDbxTime, 2) <= RetryDbxTime - 1)
        /\ RetryDbxTime = 0 => More(RetryDbxTime, 2) = 0
    BY <1>8, Periods
  <2>. QED BY <2>1, <2>2, <2>3, <2>4, LapConstants, Periods
<1>14. CASE /\ sb.state = "WaitForCredentials" /\ ~sb.credsOK /\ sb.sinceReq <= CredentialTimeout
            /\ sb'.state = "WaitForCredentials" /\ Steady
  <2>1. Lap = (t - Try) + More(CredentialTimeout, x) + 1 + FromWait
    BY <1>4, <1>5, <1>9, <1>14 DEF LapValues
  <2>2. Lap' = (t - Try) + More(CredentialTimeout, x + 1) + 1 + FromWait
    BY <1>3, <1>4, <1>5, <1>14, LapReadNext DEF Steady
  <2>3. x + 1 \in Nat /\ x <= CredentialTimeout
    BY <1>4, <1>14
  <2>4. /\ More(CredentialTimeout, x + 1) + 1 = More(CredentialTimeout, x)
        /\ More(CredentialTimeout, x) \in Nat /\ More(CredentialTimeout, x + 1) \in Nat
    BY <1>8, <2>3, Periods
  <2>. QED BY <1>5, <2>1, <2>2, <2>4, LapConstants
<1>15. CASE /\ sb.state = "WaitForCredentials" /\ ~sb.credsOK /\ sb.sinceReq > CredentialTimeout
            /\ sb'.state = IF sb.credFails + 1 > CredentialFailMax THEN "WaitForPrimaryToFail" ELSE "Startup"
            /\ sb'.credFails = IF sb.credFails > CredentialFailMax THEN sb.credFails ELSE sb.credFails + 1
  <2>1. Lap = (t - Try) + 0 + 1 + FromWait
    <3>1. Lap = (t - Try) + More(CredentialTimeout, x) + 1 + FromWait
      BY <1>4, <1>5, <1>9, <1>15 DEF LapValues
    <3>2. More(CredentialTimeout, x) = 0
      BY <1>4, <1>8, <1>15, Periods
    <3>. QED BY <3>1, <3>2
  <2>2. CASE sb.credFails + 1 > CredentialFailMax
    <3>1. sb'.state = "WaitForPrimaryToFail" /\ j = 0
      BY <1>3, <1>4, <1>15, <2>2
    <3>2. ~(j + 1 > hotcutovertime + RetryDbxTime)
      BY <3>1, Periods
    <3>3. Lap' = FromWait
      BY <1>4, <3>1, <3>2, LapReadNext
    <3>. QED BY <1>5, <2>1, <3>3, LapConstants
  <2>3. CASE ~(sb.credFails + 1 > CredentialFailMax)
    <3>1. sb.credFails \in Nat
      BY SbTyped
    <3>2. sb.credFails + 1 <= CredentialFailMax /\ sb'.credFails = sb.credFails + 1 /\ sb'.state = "Startup"
      BY <1>15, <2>3, <3>1, Periods
    <3>3. u = t - Try
      BY <1>5, <3>2
    <3>4. sb'.heard /\ ~sb'.credsOK
      BY <1>3, <1>15 DEF OnCourse
    <3>5. Lap' = u + FromWait
      BY <1>7, <3>2, <3>4, LapReadNext
    <3>. QED BY <1>5, <2>1, <3>3, <3>5, LapConstants
  <2>. QED BY <2>2, <2>3
<1>16. CASE sb.state = "ReceivedCredentials" /\ sb'.state = "ConnenctToDB" /\ Steady
  <2>1. Lap = More(RetryDbxTime, x + 1) + 3 + FromSync /\ Lap' = More(RetryDbxTime, x + 1) + 2 + FromSync
    BY <1>4, <1>9, <1>16, LapReadNext DEF LapValues, Steady
  <2>2. x + 1 \in Nat
    OBVIOUS
  <2>3. More(RetryDbxTime, x + 1) \in Nat
    BY <1>8, <2>2, Periods
  <2>. QED BY <2>1, <2>3, LapConstants
<1>17. CASE /\ sb.state = "ConnenctToDB" /\ Steady
            /\ \/ sb'.state \in {"FailedToAccessDB", "Synchronizing"}
               \/ sb'.state = "ConnenctToDB" /\ sb.sinceReq <= RetryDbxTime
  <2>1. Lap = More(RetryDbxTime, x) + 2 + FromSync
    BY <1>4, <1>9, <1>17 DEF LapValues
  <2>2. More(RetryDbxTime, x) \in Nat /\ (x <= RetryDbxTime => More(RetryDbxTime, x + 1) + 1 = More(RetryDbxTime, x))
    BY <1>8, Periods
  <2>3. CASE sb'.state \in {"FailedToAccessDB", "Synchronizing"}
    <3>1. Lap' <= FromSync + 1 /\ Lap' \in Nat
      BY <2>3, LapReadNext, LapConstants
    <3>. QED BY <2>1, <2>2, <3>1, LapConstants
  <2>4. CASE sb'.state = "ConnenctToDB" /\ sb.sinceReq <= RetryDbxTime
    <3>1. Lap' = More(RetryDbxTime, x + 1) + 2 + FromSync
      BY <1>4, <1>17, <2>4, LapReadNext DEF Steady
    <3>2. x + 1 \in Nat /\ x <= RetryDbxTime
      BY <1>4, <2>4
    <3>3. More(RetryDbxTime, x + 1) \in Nat
      BY <1>8, <3>2, Periods
    <3>. QED BY <2>1, <2>2, <3>1, <3>2, <3>3, LapConstants
  <2>. QED BY <1>17, <2>3, <2>4
<1>18. CASE sb.state = "FailedToAccessDB" /\ sb'.state \in {"Synchronizing", "WaitForPrimaryToFail"}
  <2>1. Lap = FromSync + 1
    BY <1>9, <1>18 DEF LapValues
  <2>2. sb'.state = "WaitForPrimaryToFail" => Lap' = FromWait
    <3>1. sb'.state = "WaitForPrimaryToFail" => j = 0
      BY <1>3, <1>4, <1>18
    <3>. QED BY <1>4, <3>1, LapReadNext, Periods
  <2>3. sb'.state = "Synchronizing" => Lap' = FromSync
    BY LapReadNext
  <2>. QED BY <1>18, <2>1, <2>2, <2>3, LapConstants
<1>19. CASE sb.state = "Synchronizing" /\ sb'.state \in {"MergeTables", "FailedReadTables"}
  <2>1. Lap = FromSync /\ (sb'.state = "MergeTables" => Lap' = FromSync - 1)
        /\ (sb'.state = "FailedReadTables" => Lap' = FromWait + 1)
    BY <1>9, <1>19, LapReadNext DEF LapValues
  <2>. QED BY <1>19, <2>1, LapConstants
<1>20. CASE sb.state \in {"FailedReadTables", "CantContactPrimary"} /\ sb'.state = "WaitForPrimaryToFail"
  <2>1. j = 0
    BY <1>3, <1>4, <1>20
  <2>2. Lap = FromWait + 1 /\ Lap' = FromWait
    BY <1>4, <1>9, <1>20, <2>1, LapReadNext, Periods DEF LapValues
  <2>. QED BY <2>2, LapConstants
<1>21. CASE sb.state = "MergeTables" /\ sb'.state = "StoreTables"
  <2>1. Lap = FromSync - 1 /\ Lap' = FromSync - 2
    BY <1>9, <1>21, LapReadNext DEF LapValues
  <2>. QED BY <2>1, LapConstants
<1>22. CASE sb.state = "StoreTables" /\ sb'.state = "ActivateTables"
  <2>1. j = 0 /\ RouteTableAllocated
    BY <1>3, <1>4, <1>22 DEF OnCourse
  <2>2. Lap = FromSync - 2 /\ Lap' = More(RebuildTime, 1) + 1 + FromWait
    BY <1>4, <1>9, <1>22, <2>1, LapReadNext DEF LapValues
  <2>3. More(RebuildTime, 1) \in Nat /\ More(RebuildTime, 1) <= RebuildTime
    BY <1>8, Periods
  <2>. QED BY <2>1, <2>2, <2>3, LapConstants, Periods
<1>23. CASE /\ sb.state = "ActivateTables"
            /\ \/ sb'.state = "WaitForPrimaryToFail"
               \/ sb'.state = "ActivateTables" /\ sb.inState <= RebuildTime
  <2>1. Lap = More(RebuildTime, i) + 1 + FromWait /\ More(RebuildTime, i) \in Nat
    BY <1>4, <1>8, <1>9, <1>23, Periods DEF LapValues
  <2>2. CASE sb'.state = "WaitForPrimaryToFail"
    <3>1. j = 0
      BY <1>3, <1>4, <1>23, <2>2
    <3>2. Lap' = FromWait
      BY <1>4, <2>2, <3>1, LapReadNext, Periods
    <3>. QED BY <2>1, <3>2, LapConstants
  <2>3. CASE sb'.state = "ActivateTables" /\ sb.inState <= RebuildTime
    <3>1. j = i /\ i <= RebuildTime /\ i + 1 \in Nat
      BY <1>3, <1>4, <1>23, <2>3
    <3>2. Lap' = More(RebuildTime, i + 1) + 1 + FromWait
      BY <1>4, <2>3, <3>1, LapReadNext
    <3>3. More(RebuildTime, i + 1) + 1 = More(RebuildTime, i) /\ More(RebuildTime, i + 1) \in Nat
      BY <1>8, <3>1, Periods
    <3>. QED BY <2>1, <3>2, <3>3, LapConstants
  <2>. QED BY <1>23, <2>2, <2>3
<1>24. CASE /\ sb.state = "WaitForPrimaryToFail"
            /\ \/ sb'.state = "Startup" /\ sb.inState > hotcutovertime + RetryDbxTime
               \/ sb'.state = "TakingOver"
  <2>1. Lap = IF i > hotcutovertime + RetryDbxTime THEN LongestLap + 1 ELSE FromWait
    BY <1>4, <1>9, <1>24 DEF LapValues
  <2>2. CASE sb'.state = "Startup" /\ sb.inState > hotcutovertime + RetryDbxTime
    <3>1. Lap = LongestLap + 1
      BY <1>4, <2>1, <2>2
    <3>2. Lap' = FromStartup'
      BY <2>2, LapReadNext
    <3>3. PICK w \in Nat, r \in Nat, l \in Nat :
            /\ w = FromWait /\ r = FromReceived /\ l = LongestLap
            /\ ResponseTime + 3 + w <= l /\ r + 4 <= l
      BY LapConstants
    <3>4. u + w <= l
      BY <1>5, <3>3
    <3>5. FromStartup' \in {ResponseTime + 3 + w, r + 4, u + w}
      BY <1>2, <1>7, <3>3
    <3>6. PICK f \in Nat : FromStartup' = f /\ f <= l
      BY <3>3, <3>4, <3>5, Periods
    <3>7. Lap = l + 1 /\ Lap' = f
      BY <3>1, <3>2, <3>3, <3>6
    <3>8. f + 1 <= l + 1
      BY <3>6
    <3>9. Lap' + 1 <= Lap
      BY <3>7, <3>8
    <3>. QED BY <3>9
  <2>3. CASE sb'.state = "TakingOver"
    <3>1. Lap' = TakeOverWaitTime + 1
      BY <2>3, LapReadNext
    <3>. QED BY <2>1, <3>1, LapConstants, Periods
  <2>. QED BY <1>24, <2>2, <2>3
<1>25. CASE sb.state = "TakingOver" /\ sb'.state = "TakeOverWait"
  <2>1. j = 0
    BY <1>3, <1>4, <1>25
  <2>2. Lap = TakeOverWaitTime + 1 /\ Lap' = More(TakeOverWaitTime, 1)
    BY <1>4, <1>9, <1>25, <2>1, LapReadNext DEF LapValues
  <2>3. More(TakeOverWaitTime, 1) \in Nat /\ More(TakeOverWaitTime, 1) <= TakeOverWaitTime
    BY <1>8, Periods
  <2>. QED BY <2>2, <2>3, Periods
<1>26. CASE sb.state = "TakeOverWait" /\ sb'.state = "TakeOverWait" /\ sb.inState <= TakeOverWaitTime
  <2>1. j = i /\ i <= TakeOverWaitTime /\ i + 1 \in Nat
    BY <1>3, <1>4, <1>26
  <2>2. Lap = More(TakeOverWaitTime, i) /\ Lap' = More(TakeOverWaitTime, i + 1)
    BY <1>4, <1>9, <1>26, <2>1, LapReadNext DEF LapValues
  <2>3. More(TakeOverWaitTime, i + 1) + 1 = More(TakeOverWaitTime, i) /\ More(TakeOverWaitTime, i + 1) \in Nat
    BY <1>8, <2>1, Periods
  <2>. QED BY <2>2, <2>3
<1>27. CASE /\ sb.state = "TakeOverWait"
            /\ \/ sb'.state = "Startup" /\ PrimaryBack
               \/ sb'.state = "RunActive" /\ sb.inState > TakeOverWaitTime
            /\ IsActive'[Stby] <=> (IsActive[Stby] \/ sb.inState > TakeOverWaitTime)
  <2>1. ~PrimaryBack
    BY SbTyped, Periods DEF PrimaryBack, PrimaryLost
  <2>. QED BY <1>27, <2>1
<1>28. CASE SyncTable
  BY <1>28, <1>10, <1>11, <1>12, <1>13, <1>14, <1>15, <1>16, <1>17, <1>18, <1>19, <1>20, <1>21, <1>22, <1>23
  DEF SyncTable
<1>29. CASE TakeOverTable
  BY <1>29, <1>24, <1>25, <1>26, <1>27 DEF TakeOverTable
<1>. QED BY <1>28, <1>29

(* A second brings the clocks of the states to the value that the next pass   *)
(* reads.                                                                     *)
LEMMA LapTick ==
  ASSUME TypeOK, TypeOK', Tick, Stby \in up, sb.state # "RunActive"
  PROVE  Lap' = Lap
<1>1. /\ sb.state \in StbySyncState /\ sb.inState \in Nat /\ sb.inState <= LongestIn
      /\ sb.sinceReq \in Nat /\ sb.sinceReq <= LongestReq
  BY SbTyped
<1>2. /\ due = {} /\ due' = up /\ sb'.state = sb.state
  BY TickLeaves
<1>3. /\ sb'.sinceReq = Later(sb.sinceReq, LongestReq) /\ sb'.inState = Later(sb.inState, LongestIn)
      /\ sb'.credFails = sb.credFails /\ sb'.credsOK = sb.credsOK /\ sb'.heard = sb.heard
  BY TickClocks
<1>4. PICK x \in Nat, y \in Nat, i \in Nat, j \in Nat :
        /\ x = sb.sinceReq /\ x <= LongestReq /\ y = Later(x, LongestReq)
        /\ i = sb.inState /\ i <= LongestIn /\ j = Later(i, LongestIn)
        /\ ReqNext = x + 1 /\ ReqNext' = y /\ InNext = i + 1 /\ InNext' = j
  <2>1. PICK x \in Nat, i \in Nat : x = sb.sinceReq /\ i = sb.inState /\ x <= LongestReq /\ i <= LongestIn
    BY <1>1
  <2>2. PICK y \in Nat, j \in Nat : y = Later(x, LongestReq) /\ j = Later(i, LongestIn)
    BY DEF Later
  <2>3. ReqNext = x + 1 /\ InNext = i + 1
    BY <1>2, <2>1 DEF ReqNext, InNext, Pause
  <2>4. ReqNext' = y /\ InNext' = j
    <3>1. sb'.sinceReq = y /\ sb'.inState = j /\ Stby \in due'
      BY <1>2, <1>3, <2>1, <2>2
    <3>. QED BY <3>1 DEF ReqNext, InNext, Pause
  <2>. QED BY <2>1, <2>2, <2>3, <2>4
<1>5. Tries' = Tries
  BY <1>3, TriesGo
<1>6. FromStartup' = FromStartup
  BY <1>3, <1>5, FromStartupNext DEF FromStartup
<1>7. \A p \in Nat : p < LongestReq => More(p, y) = More(p, x + 1) /\ More(p, y + 1) = More(p, x + 1 + 1)
  BY <1>4, Longests DEF Later, More
<1>8. \A p \in Nat : p < LongestIn => More(p, j) = More(p, i + 1)
  BY <1>4, Longests DEF Later, More
<1>9. (j > hotcutovertime + RetryDbxTime) <=> (i + 1 > hotcutovertime + RetryDbxTime)
  BY <1>4, Longests, Periods DEF Later
<1>10. /\ More(ResponseTime, y) = More(ResponseTime, x + 1)
       /\ More(CredentialTimeout, y) = More(CredentialTimeout, x + 1)
       /\ More(RetryDbxTime, y) = More(RetryDbxTime, x + 1)
       /\ More(RetryDbxTime, y + 1) = More(RetryDbxTime, x + 1 + 1)
       /\ More(RebuildTime, j) = More(RebuildTime, i + 1)
       /\ More(TakeOverWaitTime, j) = More(TakeOverWaitTime, i + 1)
  BY <1>7, <1>8, Longests, Periods
<1>11. LapValues
  BY LapRead
<1>. HIDE DEF More
<1>12. CASE sb.state \in {"Reset", "Startup", "FailedToAccessDB", "RequestCredentials",
                          "Synchronizing", "MergeTables", "StoreTables", "FailedReadTables",
                          "CantContactPrimary", "TakingOver", "HandBackOver"}
  BY <1>2, <1>6, <1>11, <1>12, LapReadNext DEF LapValues
<1>13. CASE sb.state \in {"FindPrimary", "ConnenctToDB", "ActivateTables", "TakeOverWait"}
  BY <1>2, <1>3, <1>4, <1>6, <1>10, <1>11, <1>13, LapReadNext DEF LapValues
<1>14. CASE sb.state \in {"WaitForCredentials", "ReceivedCredentials"}
  BY <1>2, <1>3, <1>4, <1>5, <1>10, <1>11, <1>14, LapReadNext DEF LapValues
<1>15. CASE sb.state = "WaitForPrimaryToFail"
  BY <1>2, <1>4, <1>9, <1>11, <1>15, LapReadNext DEF LapValues
<1>. QED BY <1>1, <1>12, <1>13, <1>14, <1>15 DEF StbySyncState

-----------------------------------------------------------------------------
(* Left, read from its definition after a step.                               *)
LEMMA LeftNext ==
  Left' = IF IsActive'[Stby] THEN 0
          ELSE IF Mourning' > 0 THEN Mourning' + LongestLap + 1 ELSE Lap' + Pause'
BY LapConstantsStay DEF Left

(* Mourning, read from its definition after a step.                           *)
LEMMA MourningNext ==
  Mourning' = IF slot'[Stby] # None THEN hotcutovertime + 1 + Pause' ELSE hotcutovertime + 1 - sb'.sinceOK
BY DEF Mourning

Bounds == TypeOK /\ OnCourse => Lap \in Nat /\ Lap <= LongestLap + 1 /\ Left \in Nat /\ Left <= AloneLimit

(* Those two bounds as one statement,                                         *)
LEMMA BoundsHold == Bounds
BY LapBound, LeftBound DEF Bounds

(* which therefore holds after a step too.                                    *)
LEMMA BoundsNext ==
  ASSUME TypeOK', OnCourse'
  PROVE  /\ Lap' \in Nat /\ Lap' <= LongestLap' + 1
         /\ Left' \in Nat /\ Left' <= AloneLimit'
<1>1. Bounds'
  BY BoundsHold, PTL
<1>. QED BY <1>1 DEF Bounds

(* The standby alone has its full time when the dark begins.                  *)
LEMMA AloneFresh ==
  ASSUME TypeOK', OnCourse', seen'.dark = 0
  PROVE  Alone'
<1>1. Left' \in Nat /\ Left' <= AloneLimit'
  BY BoundsNext
<1>2. PICK l \in Nat : Left' = l
  BY <1>1
<1>3. seen'.dark + Left' <= AloneLimit'
  BY <1>1, <1>2
<1>. QED BY <1>3 DEF Alone

(* A pass of its own brings it nearer or lets the second pass.                *)
LEMMA AlonePass ==
  ASSUME TypeOK, TypeOK', Standing, OnCourse, OnCourse', Alone, StandbyStep, ~MergeCrash
  PROVE  Alone'
<1>1. EachPass /\ (SyncTable \/ TakeOverTable)
  BY Timetable
<1>2. /\ Stby \in due /\ Stby \notin due' /\ Stby \in up /\ up' = up /\ seen'.dark = seen.dark
      /\ slot'[Stby] = None
      /\ (sb.state # "Reset" => sb'.sinceOK = IF FromPrimary THEN 0 ELSE sb.sinceOK)
  BY <1>1, TypesSplit DEF EachPass
<1>3. CASE seen.dark = 0
  BY <1>2, <1>3, AloneFresh
<1>4. CASE seen.dark # 0
  <2>. SUFFICES ASSUME Prim \notin up
                PROVE  seen'.dark + Left' <= AloneLimit'
    BY <1>2 DEF Alone
  <2>1. ~IsActive[Stby] /\ sb.state \notin {"Reset", "RunActive", "HandBackOver"}
    BY <1>2, <1>4 DEF Standing
  <2>2. PICK d \in Nat : d = seen.dark
    BY BothTyped
  <2>3. Left \in Nat /\ d + Left <= AloneLimit
    BY <1>2, <2>2, LeftBound DEF Alone
  <2>4. Pause = 0 /\ Pause' = 1
    BY <1>2 DEF Pause
  <2>5. PICK s \in Nat : s = sb.sinceOK /\ s <= hotcutovertime + 1
    BY SbTyped
  <2>6. Lap' \in Nat /\ Lap' <= LongestLap' + 1
    BY BoundsNext
  <2>7. PICK m \in Nat : Lap' = m /\ m <= LongestLap + 1
    BY <2>6, LapConstantsStay
  <2>8. PICK l \in Nat : LongestLap = l
    BY LapConstants
  <2>9. CASE slot[Stby] # None
    <3>1. Mourning = hotcutovertime + 1 /\ Left = hotcutovertime + 1 + l + 1
      BY <2>1, <2>4, <2>8, <2>9, Periods DEF Left, Mourning
    <3>2. PICK k \in Nat : Mourning' = k /\ k <= hotcutovertime + 1
      <4>1. sb'.sinceOK = 0 \/ sb'.sinceOK = s
        BY <1>2, <2>1, <2>5
      <4>2. hotcutovertime + 1 \in Nat /\ hotcutovertime + 1 - s \in Nat
        BY <2>5, Periods
      <4>3. Mourning' = hotcutovertime + 1 \/ Mourning' = hotcutovertime + 1 - s
        BY <1>2, <4>1, Periods, MourningNext
      <4>. QED BY <2>5, <4>2, <4>3, Periods
    <3>3. PICK n \in Nat : Left' = n /\ n <= hotcutovertime + 1 + l + 1
      <4>1. Left' = IF IsActive'[Stby] THEN 0 ELSE IF k > 0 THEN k + l + 1 ELSE m + 1
        BY <2>4, <2>7, <2>8, <3>2, LeftNext
      <4>2. k + l + 1 <= hotcutovertime + 1 + l + 1 /\ m + 1 <= hotcutovertime + 1 + l + 1
        BY <2>7, <2>8, <3>2, Periods
      <4>3. Left' \in {0, k + l + 1, m + 1}
        BY <4>1
      <4>. QED BY <4>2, <4>3, Periods
    <3>4. d + n <= AloneLimit
      BY <2>3, <3>1, <3>3, LapConstants, Periods
    <3>. QED BY <1>2, <2>2, <3>3, <3>4, LapConstantsStay
  <2>10. CASE slot[Stby] = None
    <3>1. sb'.sinceOK = s
      BY <1>2, <2>1, <2>5, <2>10 DEF FromPrimary
    <3>2. PICK k \in Nat : Mourning = k /\ Mourning' = k /\ k = hotcutovertime + 1 - s
      <4>1. hotcutovertime + 1 - s \in Nat
        BY <2>5, Periods
      <4>. QED BY <1>2, <2>5, <2>10, <3>1, <4>1, MourningNext DEF Mourning
    <3>3. CASE k > 0
      <4>1. Left = k + l + 1
        BY <2>1, <2>8, <3>2, <3>3 DEF Left
      <4>2. Left' = 0 \/ Left' = k + l + 1
        BY <2>8, <3>2, <3>3, LeftNext
      <4>3. d + Left' <= AloneLimit
        BY <2>3, <4>1, <4>2, LapConstants
      <4>. QED BY <1>2, <2>2, <4>3, LapConstantsStay
    <3>4. CASE ~(k > 0)
      <4>1. PrimaryLost
        BY <2>5, <3>2, <3>4, Periods DEF PrimaryLost
      <4>2. IsActive'[Stby] \/ Lap' + 1 <= Lap
        BY <1>1, <2>1, <2>10, <4>1, LapPass
      <4>3. PICK a \in Nat : Lap = a
        BY LapBound
      <4>4. Left = a
        BY <2>1, <2>4, <3>2, <3>4, <4>3 DEF Left
      <4>5. Left' = 0 \/ (Left' = m + 1 /\ m + 1 <= a)
        <5>1. Left' = IF IsActive'[Stby] THEN 0 ELSE m + 1
          BY <2>4, <2>7, <3>2, <3>4, LeftNext
        <5>. QED BY <2>7, <4>2, <4>3, <5>1
      <4>6. d + Left' <= AloneLimit
        BY <2>3, <4>4, <4>5, LapConstants, Periods
      <4>. QED BY <1>2, <2>2, <4>6, LapConstantsStay
    <3>. QED BY <3>3, <3>4
  <2>. QED BY <2>9, <2>10
<1>. QED BY <1>3, <1>4

(* A second in the dark is a second less to go.                               *)
LEMMA AloneTick ==
  ASSUME TypeOK, TypeOK', Standing, OnCourse, OnCourse', Alone, Tick
  PROVE  Alone'
<1>1. /\ due = {} /\ due' = up /\ up' = up /\ IsActive' = IsActive /\ slot' = slot
      /\ sb'.state = sb.state
  BY TickLeaves
<1>2. /\ Stby \in up => sb'.sinceOK = Later(sb.sinceOK, hotcutovertime + 1)
      /\ seen'.dark = IF Covered \/ up = {} THEN 0 ELSE Later(seen.dark, MaxDark + 1)
  BY TickClocks
<1>3. CASE seen'.dark = 0
  BY <1>3, AloneFresh
<1>4. CASE seen'.dark # 0
  <2>. SUFFICES ASSUME Prim \notin up, Stby \in up
                PROVE  seen'.dark + Left' <= AloneLimit'
    BY <1>1 DEF Alone
  <2>1. ~IsActive[Stby] /\ ~IsActive'[Stby] /\ sb.state # "RunActive"
    BY <1>1, <1>2, <1>4, Pair DEF Standing, Covered
  <2>2. PICK d \in Nat : d = seen.dark
    BY BothTyped
  <2>3. PICK e \in Nat : e = seen'.dark /\ e <= d + 1
    <3>1. Later(d, MaxDark + 1) \in Nat /\ Later(d, MaxDark + 1) <= d + 1
      BY Periods DEF Later
    <3>. QED BY <1>2, <2>2, <3>1
  <2>4. Left \in Nat /\ d + Left <= AloneLimit
    BY <2>2, LeftBound DEF Alone
  <2>5. Pause = 1 /\ Pause' = 0
    BY <1>1 DEF Pause
  <2>6. PICK m \in Nat, l \in Nat : Lap = m /\ Lap' = m /\ LongestLap = l /\ m <= l + 1
    BY <2>1, LapBound, LapTick, LapConstants
  <2>7. PICK s \in Nat, t \in Nat : /\ s = sb.sinceOK /\ s <= hotcutovertime + 1 /\ t = sb'.sinceOK
                                    /\ t = IF s < hotcutovertime + 1 THEN s + 1 ELSE s
    <3>1. PICK s \in Nat : s = sb.sinceOK /\ s <= hotcutovertime + 1
      BY SbTyped
    <3>2. PICK t \in Nat : t = IF s < hotcutovertime + 1 THEN s + 1 ELSE s
      OBVIOUS
    <3>3. sb'.sinceOK = t
      BY <1>2, <3>1, <3>2 DEF Later
    <3>. QED BY <3>1, <3>2, <3>3
  <2>8. PICK a \in Nat, b \in Nat : /\ Mourning = a /\ Mourning' = b
                                    /\ a = b + 1 \/ (a = 0 /\ b = 0)
    <3>1. CASE slot[Stby] # None
      <4>1. Mourning = hotcutovertime + 1 + 1 /\ Mourning' = hotcutovertime + 1 + 0
        BY <1>1, <2>5, <3>1, MourningNext DEF Mourning
      <4>. QED BY <4>1, Periods
    <3>2. CASE slot[Stby] = None
      <4>1. Mourning = hotcutovertime + 1 - s /\ Mourning' = hotcutovertime + 1 - t
        BY <1>1, <2>7, <3>2, MourningNext DEF Mourning
      <4>. QED BY <2>7, <4>1, Periods
    <3>. QED BY <3>1, <3>2
  <2>9. Left = IF a > 0 THEN a + l + 1 ELSE m + 1
    BY <2>1, <2>5, <2>6, <2>8 DEF Left
  <2>10. Left' = IF b > 0 THEN b + l + 1 ELSE m + 0
    BY <2>1, <2>5, <2>6, <2>8, LeftNext
  <2>11. PICK x \in Nat, y \in Nat : Left = x /\ Left' = y /\ y + 1 <= x
    <3>1. PICK x \in Nat : x = IF a > 0 THEN a + l + 1 ELSE m + 1
      OBVIOUS
    <3>2. PICK y \in Nat : y = IF b > 0 THEN b + l + 1 ELSE m + 0
      OBVIOUS
    <3>3. y + 1 <= x
      BY <2>6, <2>8, <3>1, <3>2
    <3>. QED BY <2>9, <2>10, <3>1, <3>2, <3>3
  <2>12. e + y <= AloneLimit
    BY <2>3, <2>4, <2>11, LapConstants, Periods
  <2>. QED BY <2>3, <2>11, <2>12, LapConstantsStay
<1>. QED BY <1>3, <1>4

(* The standby alone, when it does not run itself.                            *)
LEMMA AloneRests ==
  ASSUME TypeOK, TypeOK', Addressed, Standing, OnCourse, Alone, Rests
  PROVE  Alone'
<1>1. Unmoved /\ Parted
  BY RestsLeave
<1>. SUFFICES ASSUME Stby \in up, Prim \notin up
              PROVE  seen'.dark + Left' <= AloneLimit'
  BY <1>1 DEF Unmoved, Alone
<1>2. /\ sb'.state = sb.state /\ sb'.inState = sb.inState /\ sb'.sinceOK = sb.sinceOK
      /\ sb'.sinceReq = sb.sinceReq /\ sb'.credFails = sb.credFails
      /\ sb'.heard = sb.heard /\ sb'.credsOK = sb.credsOK /\ slot'[Stby] = slot[Stby]
      /\ IsActive'[Stby] = IsActive[Stby] /\ (Stby \in due' <=> Stby \in due) /\ seen'.dark = seen.dark
  BY <1>1 DEF Unmoved, Parted
<1>3. Pause' = Pause /\ Mourning' = Mourning /\ ReqNext' = ReqNext /\ InNext' = InNext
  BY <1>2 DEF Pause, Mourning, ReqNext, InNext
<1>4. Tries' = Tries
  BY <1>2, TriesGo
<1>5. FromStartup' = FromStartup
  BY <1>2, <1>4, FromStartupNext DEF FromStartup
<1>6. Lap' = Lap
  BY <1>2, <1>3, <1>4, <1>5, LapConstantsStay DEF Lap, More
<1>7. Left' = Left
  BY <1>2, <1>3, <1>6, LapConstantsStay DEF Left
<1>. QED BY <1>2, <1>7, LapConstantsStay DEF Alone

-----------------------------------------------------------------------------
(* Identifiers on their way.                                                  *)
LEMMA UnderwayStays ==
  ASSUME NEW s \in Seq(Letter), NEW l \in Letter, NEW n \in Int, Underway(s, n)
  PROVE  Underway(Append(s, l), n)
<1>1. PICK i \in 1..Len(s) : s[i].body.kind = "site" /\ n <= ClusterInterval + 1 + s[i].age
  BY DEF Underway
<1>2. i \in 1..Len(Append(s, l)) /\ Append(s, l)[i] = s[i]
  OBVIOUS
<1>. QED BY <1>1, <1>2 DEF Underway

(* An identifier just sent is underway.                                       *)
LEMMA UnderwayNow ==
  ASSUME NEW s \in Seq(Letter), NEW l \in Letter, NEW n \in Int, l.body.kind = "site",
         n <= ClusterInterval + 1 + l.age
  PROVE  Underway(Append(s, l), n)
<1>1. Len(s) + 1 \in 1..Len(Append(s, l)) /\ Append(s, l)[Len(s) + 1] = l
  OBVIOUS
<1>. QED BY <1>1 DEF Underway

(* Taking the first letter leaves it underway, or it was the identifier.      *)
LEMMA UnderwayTail ==
  ASSUME NEW s \in Seq(Letter), s # << >>, NEW n \in Int, Underway(s, n)
  PROVE  \/ Underway(Tail(s), n)
         \/ Head(s).body.kind = "site" /\ n <= Longest
<1>1. PICK i \in 1..Len(s) : s[i].body.kind = "site" /\ n <= ClusterInterval + 1 + s[i].age
  BY DEF Underway
<1>2. CASE i = 1
  <2>1. Head(s) = s[1] /\ s[1] \in Letter
    BY <1>1, <1>2
  <2>2. PICK a \in Nat : a = s[1].age /\ a <= MaxDelay
    BY <2>1, Periods DEF Letter
  <2>3. n <= ClusterInterval + 1 + a
    BY <1>1, <1>2, <2>2
  <2>4. n <= Longest
    BY <2>2, <2>3, Periods DEF Longest
  <2>. QED BY <1>1, <1>2, <2>1, <2>4
<1>3. CASE i # 1
  <2>1. i - 1 \in 1..Len(Tail(s)) /\ Tail(s)[i - 1] = s[i]
    BY <1>1, <1>3
  <2>. QED BY <1>1, <2>1 DEF Underway
<1>. QED BY <1>2, <1>3

(* A second later it is a second later at most.                               *)
LEMMA UnderwayOlder ==
  ASSUME NEW s \in Seq(Letter), NEW t \in Seq(Letter), NEW n \in Int, Underway(s, n), Len(t) = Len(s),
         \A i \in 1..Len(s) : t[i].body = s[i].body /\ t[i].age = s[i].age + 1
  PROVE  Underway(t, n + 1)
<1>1. PICK i \in 1..Len(s) : s[i].body.kind = "site" /\ n <= ClusterInterval + 1 + s[i].age
  BY DEF Underway
<1>2. PICK a \in Nat : a = s[i].age
  <2>1. s[i] \in Letter
    BY <1>1
  <2>. QED BY <2>1, Periods DEF Letter
<1>3. n + 1 <= ClusterInterval + 1 + (a + 1)
  BY <1>1, <1>2, Periods
<1>4. i \in 1..Len(t) /\ t[i].body.kind = "site" /\ t[i].age = a + 1
  BY <1>1, <1>2
<1>. QED BY <1>3, <1>4 DEF Underway

(* An identifier underway is no later than its period and its delay.          *)
LEMMA UnderwayBound ==
  ASSUME NEW s \in Seq(Letter), NEW n \in Int, Underway(s, n)
  PROVE  n <= Longest
<1>1. PICK i \in 1..Len(s) : s[i].body.kind = "site" /\ n <= ClusterInterval + 1 + s[i].age
  BY DEF Underway
<1>2. PICK a \in Nat : a = s[i].age /\ a <= MaxDelay
  <2>1. s[i] \in Letter
    BY <1>1
  <2>. QED BY <2>1, Periods DEF Letter
<1>3. n <= ClusterInterval + 1 + a
  BY <1>1, <1>2
<1>. QED BY <1>2, <1>3, Periods DEF Longest

(* The types of the identifiers' clocks and of the connection.                *)
LEMMA ClocksTyped ==
  ASSUME TypeOK, NEW g \in Gateways
  PROVE  sinceId[g] \in Nat /\ sinceId[g] <= ClusterInterval + 1 /\ link[g] \in Seq(Letter)
BY TypesSplit, LinkTyped, Periods DEF Clocks

(* An identifier is never later than its period, its delay and a pass.        *)
LEMMA ComingBound ==
  ASSUME TypeOK, NEW from \in Gateways, NEW to \in Gateways, NEW n \in Int, Coming(from, to, n)
  PROVE  n <= Longest + 1
<1>1. PICK c \in Nat : c = sinceId[from] /\ c <= ClusterInterval + 1
  BY ClocksTyped
<1>2. PICK l \in Nat : Longest = l /\ l >= ClusterInterval + 1
  BY LongestIsNat, Periods DEF Longest
<1>3. n <= c => n <= Longest + 1
  BY <1>1, <1>2, Periods
<1>4. Underway(link[to], n) => n <= Longest + 1
  BY ClocksTyped, UnderwayBound, LongestIsNat
<1>. QED BY <1>1, <1>3, <1>4, LongestIsNat DEF Coming

(* One that is not late at all is coming.                                     *)
LEMMA ComingEarly ==
  ASSUME TypeOK, NEW from \in Gateways, NEW to, NEW n \in Int, n <= 0
  PROVE  Coming(from, to, n)
<1>1. PICK c \in Nat : c = sinceId[from]
  BY ClocksTyped
<1>2. n <= sinceId[from]
  BY <1>1
<1>. QED BY <1>2 DEF Coming

(* The same after a step.                                                     *)
LEMMA ComingEarlyNext ==
  ASSUME TypeOK', NEW from \in Gateways, NEW to, NEW n \in Int, n <= 0
  PROVE  Coming(from, to, n)'
<1>1. sinceId'[from] \in Nat
  BY Periods DEF TypeOK
<1>2. PICK c \in Nat : c = sinceId'[from]
  BY <1>1
<1>3. n <= sinceId'[from]
  BY <1>2
<1>. QED BY <1>3 DEF Coming

(* What leaves it coming.                                                     *)
LEMMA ComingStays ==
  ASSUME TypeOK, NEW from \in Gateways, NEW to \in Gateways, NEW n \in Int, Coming(from, to, n),
         sinceId'[from] = sinceId[from],
         Underway(link[to], n) => Underway(link'[to], n) \/ (slot'[to] # None /\ n <= Longest),
         slot[to] # None => slot'[to] # None /\ (to \in due' <=> to \in due)
  PROVE  Coming(from, to, n)'
<1>1. Longest' = Longest
  BY DEF Longest
<1>2. CASE n <= sinceId[from]
  BY <1>2 DEF Coming
<1>3. CASE Underway(link[to], n)
  <2>1. CASE Underway(link'[to], n)
    <3>1. PICK i \in 1..Len(link'[to]) : link'[to][i].body.kind = "site" /\ n <= ClusterInterval + 1 + link'[to][i].age
      BY <2>1 DEF Underway
    <3>. QED BY <3>1 DEF Coming, Underway
  <2>2. CASE slot'[to] # None /\ n <= Longest
    <3>1. n <= Longest' + (IF to \in due' THEN 1 ELSE 0)
      BY <1>1, <2>2, LongestIsNat
    <3>. QED BY <2>2, <3>1 DEF Coming
  <2>. QED BY <1>3, <2>1, <2>2
<1>4. CASE slot[to] # None /\ n <= Longest + (IF to \in due THEN 1 ELSE 0)
  BY <1>1, <1>4 DEF Coming
<1>. QED BY <1>2, <1>3, <1>4 DEF Coming

(* The identifier that a gateway sends.                                       *)
LEMMA IdentifierSends ==
  ASSUME TypeOK, NEW g \in Gateways, SendIdentifier(g), linkUp
  PROVE  \E l \in Letter :
           /\ l.body.kind = "site" /\ l.age = 0 /\ l.body.msg.isactive = IsActive[g]
           /\ link'[Peer(g)] = Append(link[Peer(g)], l)
           /\ \A h \in Gateways \ {Peer(g)} : link'[h] = link[h]
           /\ \A h \in Gateways \ {g} : sinceId'[h] = sinceId[h]
<1>1. /\ sinceId' = [sinceId EXCEPT ![g] = 0]
      /\ Send(Peer(g), [kind |-> "site", msg |-> [from |-> g, isactive |-> IsActive[g], flag |-> pr.flag]])
  BY DEF SendIdentifier
<1>2. PICK m \in SiteMessage : m = [from |-> g, isactive |-> IsActive[g], flag |-> pr.flag]
  BY PrTyped, TypesSplit DEF SiteMessage, Sites
<1>. DEFINE b == [kind |-> "site", msg |-> m]
            h == Peer(g)
<1>3. b \in Body /\ b.kind = "site" /\ Send(h, b) /\ h \in Gateways /\ b.msg.isactive = IsActive[g]
  BY <1>1, <1>2, Bodies, Pair
<1>. HIDE DEF b, h
<1>. DEFINE l == [body |-> b, age |-> 0]
<1>4. link' = [link EXCEPT ![h] = Append(link[h], l)]
  BY <1>3 DEF Send
<1>5. l \in Letter /\ l.body.kind = "site" /\ l.age = 0 /\ l.body.msg.isactive = IsActive[g]
  BY <1>3, Periods DEF Letter
<1>. HIDE DEF l
<1>6. link'[h] = Append(link[h], l) /\ \A x \in Gateways \ {h} : link'[x] = link[x]
  BY <1>3, <1>4, LinkTyped DEF Links
<1>7. \A x \in Gateways \ {g} : sinceId'[x] = sinceId[x]
  BY <1>1, TypesSplit DEF Clocks
<1>. QED BY <1>5, <1>6, <1>7 DEF h

(* Sending an identifier keeps one coming.                                    *)
LEMMA ComingIdentifier ==
  ASSUME TypeOK, NEW from \in Gateways, NEW to \in Gateways, to = Peer(from), NEW n \in Int, Coming(from, to, n),
         NEW g \in Gateways, SendIdentifier(g), linkUp
  PROVE  Coming(from, to, n)'
<1>1. PICK l \in Letter :
           /\ l.body.kind = "site" /\ l.age = 0
           /\ link'[Peer(g)] = Append(link[Peer(g)], l)
           /\ \A h \in Gateways \ {Peer(g)} : link'[h] = link[h]
           /\ \A h \in Gateways \ {g} : sinceId'[h] = sinceId[h]
  BY IdentifierSends
<1>2. slot' = slot /\ due' = due
  BY DEF SendIdentifier
<1>3. link[to] \in Seq(Letter)
  BY ClocksTyped
<1>4. Underway(link[to], n) => Underway(link'[to], n)
  BY <1>1, <1>3, UnderwayStays
<1>5. CASE from = g /\ n <= sinceId[from]
  <2>1. PICK c \in Nat : c = sinceId[from] /\ c <= ClusterInterval + 1
    BY ClocksTyped
  <2>2. n <= ClusterInterval + 1 + l.age
    BY <1>1, <1>5, <2>1, Periods
  <2>3. link'[to] = Append(link[to], l)
    BY <1>1, <1>5
  <2>4. Underway(link'[to], n)
    BY <1>1, <1>3, <2>2, <2>3, UnderwayNow
  <2>. QED BY <2>4 DEF Coming, Underway
<1>6. CASE from = g /\ ~(n <= sinceId[from])
  <2>1. CASE Underway(link[to], n)
    <3>1. Underway(link'[to], n)
      BY <1>4, <2>1
    <3>. QED BY <3>1 DEF Coming, Underway
  <2>2. CASE slot[to] # None /\ n <= Longest + (IF to \in due THEN 1 ELSE 0)
    BY <1>2, <2>2 DEF Coming, Longest
  <2>. QED BY <1>6, <2>1, <2>2 DEF Coming
<1>7. CASE from # g
  BY <1>1, <1>2, <1>4, <1>7, ComingStays
<1>. QED BY <1>5, <1>6, <1>7

(* A message that arrives.                                                    *)
LEMMA ComingMessageIn ==
  ASSUME TypeOK, NEW from \in Gateways, NEW to \in Gateways, NEW n \in Int, Coming(from, to, n),
         NEW g \in Gateways, InterSiteMessageIn(g)
  PROVE  Coming(from, to, n)'
<1>1. /\ link[g] # << >> /\ link' = [link EXCEPT ![g] = Tail(@)] /\ due' = due /\ sinceId' = sinceId
      /\ \A h \in Gateways \ {g} : slot'[h] = slot[h]
      /\ \/ Head(link[g]).body.kind = "site" /\ slot'[g] # None
         \/ Head(link[g]).body.kind # "site" /\ slot' = slot
  BY MessageInLeaves
<1>2. link[to] \in Seq(Letter) /\ link \in Links
  BY ClocksTyped, LinkTyped
<1>3. CASE to = g
  <2>1. link'[to] = Tail(link[to])
    BY <1>1, <1>2, <1>3 DEF Links
  <2>2. Underway(link[to], n) => Underway(link'[to], n) \/ (Head(link[g]).body.kind = "site" /\ n <= Longest)
    BY <1>1, <1>2, <1>3, <2>1, UnderwayTail
  <2>. QED BY <1>1, <1>3, <2>2, ComingStays
<1>4. CASE to # g
  <2>1. link'[to] = link[to] /\ slot'[to] = slot[to]
    BY <1>1, <1>2, <1>4 DEF Links
  <2>. QED BY <1>1, <2>1, ComingStays
<1>. QED BY <1>3, <1>4

(* A second.                                                                  *)
LEMMA ComingTick ==
  ASSUME TypeOK, TypeOK', NEW from \in Gateways, NEW to \in Gateways, from \in up, to \in up,
         NEW n \in Int, Coming(from, to, n), Tick
  PROVE  Coming(from, to, n + 1)'
<1>1. /\ due = {} /\ due' = up /\ slot' = slot /\ link' \in Links
      /\ Len(link'[to]) = Len(link[to])
      /\ \A i \in 1..Len(link[to]) : /\ link'[to][i].body = link[to][i].body
                                     /\ link'[to][i].age = link[to][i].age + 1
  BY TickLeaves
<1>2. PICK c \in Nat : c = sinceId[from] /\ c <= ClusterInterval /\ sinceId'[from] = c + 1
  <2>1. PICK c \in Nat : c = sinceId[from] /\ c <= ClusterInterval
    BY ClocksTyped, TickClocks
  <2>2. sinceId' = [g \in Gateways |-> IF g \in up THEN Later(sinceId[g], ClusterInterval + 1) ELSE 0]
    BY DEF Tick
  <2>3. sinceId'[from] = Later(c, ClusterInterval + 1)
    BY <2>1, <2>2
  <2>. QED BY <2>1, <2>3, Periods DEF Later
<1>3. CASE n <= sinceId[from]
  BY <1>2, <1>3 DEF Coming
<1>4. CASE Underway(link[to], n)
  <2>1. link[to] \in Seq(Letter) /\ link'[to] \in Seq(Letter)
    BY <1>1, ClocksTyped DEF Links
  <2>2. Underway(link'[to], n + 1)
    BY <1>1, <1>4, <2>1, UnderwayOlder
  <2>. QED BY <2>2 DEF Coming, Underway
<1>5. CASE slot[to] # None /\ n <= Longest + (IF to \in due THEN 1 ELSE 0)
  <2>1. n + 1 <= Longest' + (IF to \in due' THEN 1 ELSE 0)
    BY <1>1, <1>5, LongestIsNat DEF Longest
  <2>. QED BY <1>1, <1>5, <2>1 DEF Coming
<1>. QED BY <1>3, <1>4, <1>5 DEF Coming

-----------------------------------------------------------------------------
(* The primary alone, or cut off.                                             *)
LEMMA DarkTyped ==
  ASSUME TypeOK
  PROVE  seen.dark \in Nat /\ seen.dark <= MaxDark + 1
BY Periods DEF TypeOK

(* The primary alone becomes active after its time-out.                       *)
LEMMA ApartBound ==
  ASSUME TypeOK, NEW p \in Nat, Apart(p)
  PROVE  seen.dark <= p + SilentLimit
<1>1. PICK d \in Nat : d = seen.dark
  BY DarkTyped
<1>2. PICK m \in Nat : m = pr.sinceMsg /\ m <= RejectTime + 1
  BY PrTyped, Periods
<1>3. d <= p \/ d <= p + 1 \/ d <= p + m + 1
  BY <1>1, <1>2 DEF Apart
<1>4. d <= p + SilentLimit
  BY <1>2, <1>3, Periods DEF SilentLimit
<1>. QED BY <1>1, <1>4

(* The same after a step.                                                     *)
LEMMA ApartNext ==
  ASSUME TypeOK', NEW p \in Nat, Apart(p)'
  PROVE  seen'.dark <= p + SilentLimit
<1>1. seen'.dark \in Nat /\ pr'.sinceMsg \in Nat /\ pr'.sinceMsg <= RejectTime + 1
  BY Periods DEF TypeOK, PrimaryState
<1>2. PICK d \in Nat : d = seen'.dark
  BY <1>1
<1>3. PICK m \in Nat : m = pr'.sinceMsg /\ m <= RejectTime + 1
  BY <1>1
<1>4. d <= p \/ d <= p + 1 \/ d <= p + m + 1
  BY <1>2, <1>3 DEF Apart
<1>5. d <= p + SilentLimit
  BY <1>3, <1>4, Periods DEF SilentLimit
<1>. QED BY <1>2, <1>5

(* What leaves the primary's silence alone.                                   *)
LEMMA ApartStays ==
  ASSUME NEW p \in Nat, Apart(p),
         seen'.dark = seen.dark, slot'[Prim] = slot[Prim], (Prim \in due' <=> Prim \in due),
         pr'.sinceMsg = pr.sinceMsg, IsActive'[Prim] = IsActive[Prim]
  PROVE  Apart(p)'
BY DEF Apart

(* A pass of the primary ends the silence by a message or by its time-out.    *)
LEMMA ApartPrimaryPass ==
  ASSUME TypeOK, NEW p \in Nat, Apart(p), PrimaryPass
  PROVE  Apart(p)'
<1>1. /\ due' = due \ {Prim} /\ slot'[Prim] = None /\ seen' = seen
      /\ pr'.sinceMsg = IF slot[Prim] # None THEN 0 ELSE pr.sinceMsg
      /\ IsActive[Prim] \/ (slot[Prim] = None /\ StandbySilent) => IsActive'[Prim]
  BY PrimaryPassLeaves
<1>2. PICK d \in Nat : d = seen.dark
  BY DarkTyped
<1>3. PICK m \in Nat : m = pr.sinceMsg /\ m <= RejectTime + 1
  BY PrTyped, Periods
<1>4. seen'.dark = d
  BY <1>1, <1>2
<1>5. CASE d <= p
  BY <1>4, <1>5 DEF Apart
<1>6. CASE slot[Prim] # None /\ d <= p + 1
  <2>1. pr'.sinceMsg = 0
    BY <1>1, <1>6
  <2>2. d <= p + 0 + 1 /\ 0 <= RejectTime
    BY <1>6, Periods
  <2>. QED BY <1>1, <1>4, <2>1, <2>2 DEF Apart
<1>7. CASE slot[Prim] = None /\ d <= p + m + 1
  <2>1. pr'.sinceMsg = m
    BY <1>1, <1>3, <1>7
  <2>2. m <= RejectTime \/ IsActive'[Prim]
    BY <1>1, <1>3, <1>7, Periods DEF StandbySilent
  <2>. QED BY <1>1, <1>4, <1>7, <2>1, <2>2 DEF Apart
<1>. QED BY <1>2, <1>3, <1>5, <1>6, <1>7 DEF Apart

(* A second in the dark is a second of silence for the primary.               *)
LEMMA ApartTick ==
  ASSUME TypeOK, Prim \in up, NEW p \in Nat, Apart(p), Tick
  PROVE  Apart(p)'
<1>1. due = {} /\ due' = up /\ slot' = slot
  BY TickLeaves
<1>2. PICK d \in Nat : d = seen.dark
  BY DarkTyped
<1>3. PICK m \in Nat : m = pr.sinceMsg /\ m <= RejectTime + 1
  BY PrTyped, Periods
<1>4. PICK k \in Nat : k = Later(m, RejectTime + 1)
  BY <1>3, Periods DEF Later
<1>5. pr'.sinceMsg = k
  BY <1>3, <1>4, TickClocks
<1>6. CASE Covered
  <2>1. seen'.dark = 0
    BY <1>6, TickClocks
  <2>2. 0 <= p
    OBVIOUS
  <2>. QED BY <2>1, <2>2 DEF Apart
<1>7. CASE ~Covered
  <2>1. up # {}
    OBVIOUS
  <2>2. seen'.dark = Later(d, MaxDark + 1)
    BY <1>2, <1>7, <2>1, TickClocks
  <2>3. PICK e \in Nat : seen'.dark = e /\ e <= d + 1
    BY <2>2, Periods DEF Later
  <2>4. ~IsActive[Prim]
    BY <1>7, Pair DEF Covered
  <2>5. CASE d <= p
    <3>1. e <= p + 1 /\ e <= p + k + 1
      BY <2>3, <2>5
    <3>. QED BY <1>1, <1>5, <2>3, <3>1 DEF Apart
  <2>6. CASE slot[Prim] = None /\ d <= p + m + 1 /\ m <= RejectTime
    <3>1. k = m + 1
      BY <1>4, <2>6, Periods DEF Later
    <3>2. e <= p + k + 1
      BY <2>3, <2>6, <3>1
    <3>. QED BY <1>1, <1>5, <2>3, <2>6, <3>2 DEF Apart
  <2>. QED BY <1>1, <1>2, <1>3, <2>4, <2>5, <2>6 DEF Apart
<1>. QED BY <1>6, <1>7

(* Nothing arrives over a connection that is cut.                             *)
LEMMA ApartRests ==
  ASSUME TypeOK, Standing, ~linkUp, NEW p \in Nat, Apart(p), Rests
  PROVE  Apart(p)'
<1>1. CASE PrimaryPass
  BY <1>1, ApartPrimaryPass
<1>2. CASE SendReply \/ ReloadPrimaryTables
  <2>1. pr'.sinceMsg = pr.sinceMsg
    BY <1>2, TypesSplit DEF SendReply, ReloadPrimaryTables, PrimaryState
  <2>2. slot' = slot /\ seen' = seen /\ due' = due /\ IsActive' = IsActive
    BY <1>2 DEF SendReply, ReloadPrimaryTables
  <2>. QED BY <2>1, <2>2, ApartStays
<1>3. CASE TablesReloaded \/ CutLink \/ HealLink \/ \E g \in Gateways : SendIdentifier(g)
  <2>1. slot' = slot /\ seen' = seen /\ due' = due /\ IsActive' = IsActive /\ pr' = pr
    BY <1>3 DEF TablesReloaded, CutLink, HealLink, SendIdentifier
  <2>. QED BY <2>1, ApartStays
<1>4. ~\E g \in Gateways : InterSiteMessageIn(g)
  BY Pair, FourNames DEF Standing, InterSiteMessageIn
<1>. QED BY <1>1, <1>2, <1>3, <1>4 DEF Rests

(* The standby's passes do not touch the primary that is cut off.             *)
LEMMA ApartPass ==
  ASSUME TypeOK, NEW p \in Nat, Apart(p), StandbyStep, ~MergeCrash
  PROVE  Apart(p)'
<1>1. EachPass
  BY Timetable
<1>. QED BY <1>1, ApartStays, FourNames DEF EachPass

-----------------------------------------------------------------------------
(* What is said of the moment after a step.                                   *)
LEMMA JoinedNow ==
  ASSUME NEW q \in Nat, NEW d \in Nat, NEW s \in Nat, seen'.dark = d, sb'.sinceOK = s, Joined(q, d, s)'
  PROVE  Joined(q, seen.dark, sb.sinceOK)'
BY DEF Joined, OldLetter, Coming, Underway, LastOrder, Longest

(* An identifier that is less late is coming too.                             *)
LEMMA ComingLess ==
  ASSUME TypeOK', NEW from \in Gateways, NEW to \in Gateways, NEW n \in Int, Coming(from, to, n)',
         NEW m \in Int, m <= n
  PROVE  Coming(from, to, m)'
<1>0. sinceId'[from] \in Nat
  BY Periods DEF TypeOK
<1>1. link'[to] \in Seq(Letter)
  BY DEF TypeOK, Letter
<1>2. PICK c \in Nat : c = sinceId'[from]
  BY <1>0
<1>3. CASE n <= c
  <2>1. m <= c
    BY <1>3
  <2>. QED BY <1>2, <2>1 DEF Coming
<1>4. CASE Underway(link[to], n)'
  <2>1. PICK i \in 1..Len(link'[to]) : link'[to][i].body.kind = "site" /\ n <= ClusterInterval + 1 + link'[to][i].age
    BY <1>4 DEF Underway
  <2>2. link'[to][i] \in Letter
    BY <1>1
  <2>3. PICK a \in Nat : a = link'[to][i].age
    BY <2>2, Periods DEF Letter
  <2>4. m <= ClusterInterval + 1 + link'[to][i].age
    BY <2>1, <2>3, Periods
  <2>. QED BY <2>1, <2>4 DEF Coming, Underway
<1>5. CASE slot'[to] # None /\ n <= Longest' + (IF to \in due' THEN 1 ELSE 0)
  <2>1. PICK l \in Nat : l = Longest /\ Longest' = l
    BY LongestIsNat DEF Longest
  <2>2. m <= l + (IF to \in due' THEN 1 ELSE 0)
    BY <1>5, <2>1
  <2>. QED BY <1>5, <2>1, <2>2 DEF Coming
<1>. QED BY <1>2, <1>3, <1>4, <1>5 DEF Coming

(* With the passes of the second done, none is later than Longest.            *)
LEMMA ComingQuiet ==
  ASSUME TypeOK, NEW from \in Gateways, NEW to \in Gateways, to \notin due, NEW n \in Int, Coming(from, to, n)
  PROVE  n <= Longest
<1>1. PICK c \in Nat : c = sinceId[from] /\ c <= ClusterInterval + 1
  BY ClocksTyped
<1>2. PICK l \in Nat : Longest = l /\ l >= ClusterInterval + 1
  BY LongestIsNat, Periods DEF Longest
<1>3. n <= c => n <= Longest
  BY <1>1, <1>2, Periods
<1>4. Underway(link[to], n) => n <= Longest
  BY ClocksTyped, UnderwayBound
<1>. QED BY <1>1, <1>2, <1>3, <1>4 DEF Coming

(* The time of the last order is a constant.                                  *)
LEMMA LastOrderIsNat ==
  LastOrder \in Nat /\ LastOrder' = LastOrder /\ LastOrder >= MaxDelay + 2 /\ Longest' = Longest
BY Periods DEF LastOrder, Longest

(* Early, or nothing that counts has moved.                                   *)
LEMMA JoinedEarly ==
  ASSUME TypeOK', NEW q \in Nat, NEW d \in Nat, NEW s \in Nat, d <= q
  PROVE  Joined(q, d, s)'
<1>1. PICK l \in Nat : l = Longest /\ Longest' = l
  BY LongestIsNat DEF Longest
<1>2. PICK o \in Nat : o = LastOrder /\ LastOrder' = o
  BY LastOrderIsNat
<1>3. d - q \in Int /\ d - q <= 0 /\ d - q - o \in Int /\ d - q - o <= 0
  OBVIOUS
<1>4. Coming(Prim, Stby, d - q)'
  BY <1>3, ComingEarlyNext, Pair
<1>5. Coming(Stby, Prim, d - q - o)'
  BY <1>3, ComingEarlyNext, Pair
<1>6. d <= q + l + 1 + (IF Stby \in due' THEN 1 ELSE 0)
  OBVIOUS
<1>7. d <= q + MaxDelay + (IF Prim \in due' THEN 1 ELSE 0)
  BY Periods
<1>8. \A i \in 1..Len(link'[Prim]) : OldLetter(link[Prim][i], q, d)'
  <2>. SUFFICES ASSUME NEW i \in 1..Len(link'[Prim]) PROVE OldLetter(link[Prim][i], q, d)'
    OBVIOUS
  <2>1. link'[Prim] \in Seq(Letter)
    BY Pair DEF TypeOK, Letter
  <2>4. link'[Prim][i] \in Letter
    BY <2>1
  <2>2. PICK a \in Nat : link'[Prim][i].age = a
    BY <2>4, Periods DEF Letter
  <2>3. d <= q + a /\ d <= q + l + 2 + a
    OBVIOUS
  <2>. QED BY <1>1, <2>2, <2>3 DEF OldLetter
<1>. QED BY <1>1, <1>2, <1>4, <1>5, <1>6, <1>7, <1>8 DEF Joined

(* The steps that move neither the standby nor what the primary has been told.*)
LEMMA JoinedStays ==
  ASSUME TypeOK, NEW q \in Nat, NEW d \in Nat, NEW s \in Nat, Joined(q, d, s),
         sb'.state = sb.state, due' = due, slot' = slot, sinceId' = sinceId,
         IsActive' = IsActive, link'[Prim] = link[Prim],
         \/ link'[Stby] = link[Stby]
         \/ \E l \in Letter : link'[Stby] = Append(link[Stby], l)
  PROVE  Joined(q, d, s)'
<1>1. Longest' = Longest /\ LastOrder' = LastOrder
  BY LastOrderIsNat
<1>2. link[Prim] \in Seq(Letter) /\ link[Stby] \in Seq(Letter)
  BY ClocksTyped, Pair
<1>3. PICK t \in Int : t = d - q - LastOrder
  BY LastOrderIsNat
<1>4. \A n \in Int : Underway(link[Stby], n) => Underway(link'[Stby], n)
  BY <1>2, UnderwayStays
<1>5. \A n \in Int : Coming(Prim, Stby, n) => Coming(Prim, Stby, n)'
  BY <1>4, ComingStays, Pair
<1>6. Coming(Stby, Prim, t) => Coming(Stby, Prim, t)'
  BY ComingStays, Pair
<1>7. Coming(Prim, Stby, d - q)' \/ Coming(Prim, Stby, s)'
  BY <1>5 DEF Joined
<1>8. IsActive'[Prim] \/ IsActive'[Stby] \/ Coming(Stby, Prim, t)'
  BY <1>3, <1>6 DEF Joined
<1>9. \A i \in 1..Len(link'[Prim]) : OldLetter(link[Prim][i], q, d)'
  BY <1>1 DEF Joined, OldLetter
<1>. QED BY <1>1, <1>3, <1>7, <1>8, <1>9 DEF Joined

(* Replies and reloads keep Joined.                                           *)
LEMMA ReplyJoins ==
  ASSUME TypeOK, NEW q \in Nat, NEW d \in Nat, NEW s \in Nat, Joined(q, d, s),
         SendReply \/ ReloadPrimaryTables \/ TablesReloaded
  PROVE  Joined(q, d, s)'
<1>1. due' = due /\ slot' = slot /\ sinceId' = sinceId /\ IsActive' = IsActive
  BY DEF SendReply, ReloadPrimaryTables, TablesReloaded
<1>2. sb'.state = sb.state
  BY TypesSplit DEF SendReply, ReloadPrimaryTables, TablesReloaded, StandbyState
<1>3. CASE link' = link
  BY <1>1, <1>2, <1>3, JoinedStays
<1>4. CASE SendReply /\ linkUp
  <2>1. [kind |-> "reply", flag |-> pr.reply] \in Body
    BY PrTyped, Bodies
  <2>. DEFINE b == [kind |-> "reply", flag |-> pr.reply]
              l == [body |-> b, age |-> 0]
  <2>2. l \in Letter
    BY <2>1, Periods DEF Letter
  <2>3. link' = [link EXCEPT ![Stby] = Append(link[Stby], l)]
    BY <1>4 DEF SendReply, Send
  <2>. HIDE DEF l, b
  <2>4. link'[Prim] = link[Prim] /\ link'[Stby] = Append(link[Stby], l)
    BY <2>3, LinkTyped, Pair, FourNames DEF Links
  <2>. QED BY <1>1, <1>2, <2>2, <2>4, JoinedStays
<1>. QED BY <1>3, <1>4 DEF SendReply, Send, ReloadPrimaryTables, TablesReloaded

(* An identifier sent keeps Joined: it tells what the sender is.              *)
LEMMA IdentifierJoins ==
  ASSUME TypeOK, linkUp, NEW q \in Nat, NEW d \in Nat, NEW s \in Nat, Joined(q, d, s),
         NEW g \in Gateways, SendIdentifier(g)
  PROVE  Joined(q, d, s)'
<1>1. PICK l \in Letter :
           /\ l.body.kind = "site" /\ l.age = 0 /\ l.body.msg.isactive = IsActive[g]
           /\ link'[Peer(g)] = Append(link[Peer(g)], l)
           /\ \A h \in Gateways \ {Peer(g)} : link'[h] = link[h]
  BY IdentifierSends
<1>2. slot' = slot /\ due' = due /\ sb' = sb /\ IsActive' = IsActive
  BY DEF SendIdentifier
<1>3. Longest' = Longest /\ LastOrder' = LastOrder
  BY LastOrderIsNat
<1>4. PICK t \in Int : t = d - q - LastOrder
  BY LastOrderIsNat
<1>5. \A n \in Int : Coming(Prim, Stby, n) => Coming(Prim, Stby, n)'
  BY ComingIdentifier, Pair
<1>6. Coming(Stby, Prim, t) => Coming(Stby, Prim, t)'
  BY ComingIdentifier, Pair
<1>7. Coming(Prim, Stby, d - q)' \/ Coming(Prim, Stby, s)'
  BY <1>5 DEF Joined
<1>8. IsActive'[Prim] \/ IsActive'[Stby] \/ Coming(Stby, Prim, t)'
  BY <1>2, <1>4, <1>6 DEF Joined
<1>9. \A i \in 1..Len(link'[Prim]) : OldLetter(link[Prim][i], q, d)'
  <2>. SUFFICES ASSUME NEW i \in 1..Len(link'[Prim]) PROVE OldLetter(link[Prim][i], q, d)'
    OBVIOUS
  <2>1. \A j \in 1..Len(link[Prim]) : OldLetter(link[Prim][j], q, d)
    BY DEF Joined
  <2>2. link[Prim] \in Seq(Letter)
    BY ClocksTyped, Pair
  <2>3. CASE i \in 1..Len(link[Prim]) /\ link'[Prim][i] = link[Prim][i]
    BY <1>2, <1>3, <2>1, <2>3 DEF OldLetter
  <2>4. CASE g = Stby /\ link'[Prim][i] = l
    BY <1>1, <1>2, <2>4 DEF OldLetter
  <2>5. g = Stby => link'[Prim] = Append(link[Prim], l)
    BY <1>1, Pair
  <2>6. g = Prim => link'[Prim] = link[Prim]
    BY <1>1, Pair, FourNames
  <2>. QED BY <2>2, <2>3, <2>4, <2>5, <2>6, Pair
<1>. QED BY <1>2, <1>3, <1>4, <1>7, <1>8, <1>9 DEF Joined

(* The letters behind the first.                                              *)
LEMMA TailIndex ==
  ASSUME NEW w \in Seq(Letter), w # << >>, NEW i \in 1..Len(Tail(w))
  PROVE  i + 1 \in 1..Len(w) /\ Tail(w)[i] = w[i + 1]
OBVIOUS

(* A message that arrives keeps Joined: an order to be inactive is not older  *)
(* than LastOrder.                                                            *)
LEMMA MessageInJoins ==
  ASSUME TypeOK, TypeOK', NEW q \in Nat, NEW d \in Nat, NEW s \in Nat, Joined(q, d, s),
         NEW g \in Gateways, InterSiteMessageIn(g)
  PROVE  Joined(q, d, s)'
<1>1. /\ link[g] # << >> /\ link[g] \in Seq(Letter) /\ link' = [link EXCEPT ![g] = Tail(@)]
      /\ due' = due /\ sb'.state = sb.state /\ IsActive'[Stby] = IsActive[Stby]
      /\ \A h \in Gateways \ {g} : slot'[h] = slot[h]
      /\ g # Prim => IsActive' = IsActive
      /\ \/ /\ Head(link[g]).body.kind = "site" /\ IsActive' = IsActive
            /\ slot'[g].isactive = Head(link[g]).body.msg.isactive
         \/ Head(link[g]).body.kind \in {"query", "reply"} /\ IsActive' = IsActive /\ slot' = slot
         \/ /\ Head(link[g]).body.kind \in {"be_inactive", "be_active"} /\ g = Prim /\ slot' = slot
            /\ IsActive'[Prim] <=> (Head(link[g]).body.kind = "be_active")
  <2>1. Prim # Stby
    BY FourNames
  <2>. QED BY <2>1, MessageInLeaves, Pair
<1>2. PICK k \in Nat : k = Longest /\ Longest' = k
  BY LastOrderIsNat, LongestIsNat
<1>3. PICK o \in Nat : o = LastOrder /\ LastOrder' = o /\ o = k + 2 + MaxDelay
  BY <1>2, LastOrderIsNat DEF LastOrder
<1>4. PICK t \in Int : t = d - q - o
  OBVIOUS
<1>5. \A n \in Int : Coming(Prim, Stby, n) => Coming(Prim, Stby, n)'
  BY ComingMessageIn, Pair
<1>6. Coming(Stby, Prim, t) => Coming(Stby, Prim, t)'
  BY ComingMessageIn, Pair
<1>7. Coming(Prim, Stby, d - q)' \/ Coming(Prim, Stby, s)'
  BY <1>5 DEF Joined
<1>8. link[Prim] \in Seq(Letter) /\ (g = Prim => link'[Prim] = Tail(link[Prim])) /\ (g # Prim => link'[Prim] = link[Prim])
  BY <1>1, ClocksTyped, LinkTyped, Pair DEF Links
<1>9. \A i \in 1..Len(link'[Prim]) : OldLetter(link[Prim][i], q, d)'
  <2>. SUFFICES ASSUME NEW i \in 1..Len(link'[Prim]) PROVE OldLetter(link[Prim][i], q, d)'
    OBVIOUS
  <2>1. \A j \in 1..Len(link[Prim]) : OldLetter(link[Prim][j], q, d)
    BY DEF Joined
  <2>2. PICK j \in 1..Len(link[Prim]) : link'[Prim][i] = link[Prim][j]
    <3>1. CASE g = Prim
      <4>0. link'[Prim] = Tail(link[Prim]) /\ link[Prim] # << >>
        BY <1>1, <1>8, <3>1
      <4>1. i + 1 \in 1..Len(link[Prim]) /\ Tail(link[Prim])[i] = link[Prim][i + 1]
        BY <1>8, <4>0, TailIndex
      <4>. QED BY <4>0, <4>1
    <3>. QED BY <1>8, <3>1
  <2>3. OldLetter(link[Prim][j], q, d)
    BY <2>1
  <2>. QED BY <1>1, <1>2, <2>2, <2>3 DEF OldLetter
<1>10. g = Prim => /\ OldLetter(Head(link[Prim]), q, d)
                   /\ \E a \in Nat : a = Head(link[Prim]).age /\ a <= MaxDelay
  <2>. SUFFICES ASSUME g = Prim
                PROVE  /\ OldLetter(Head(link[Prim]), q, d)
                       /\ \E a \in Nat : a = Head(link[Prim]).age /\ a <= MaxDelay
    OBVIOUS
  <2>1. Head(link[Prim]) = link[Prim][1] /\ 1 \in 1..Len(link[Prim]) /\ Head(link[Prim]) \in Letter
    BY <1>1, <1>8
  <2>2. OldLetter(Head(link[Prim]), q, d)
    BY <2>1 DEF Joined
  <2>. QED BY <2>1, <2>2, Periods DEF Letter
<1>11. slot'[Prim] # None /\ slot'[Prim].isactive =>
         IsActive'[Stby] \/ d <= q + MaxDelay + (IF Prim \in due' THEN 1 ELSE 0)
  <2>. SUFFICES ASSUME slot'[Prim] # None, slot'[Prim].isactive, ~IsActive'[Stby]
                PROVE  d <= q + MaxDelay + (IF Prim \in due' THEN 1 ELSE 0)
    OBVIOUS
  <2>1. CASE slot'[Prim] = slot[Prim]
    BY <1>1, <2>1 DEF Joined
  <2>2. CASE slot'[Prim] # slot[Prim]
    <3>1. g = Prim /\ Head(link[Prim]).body.kind = "site" /\ Head(link[Prim]).body.msg.isactive
      BY <1>1, <2>2, Pair
    <3>2. PICK a \in Nat : a = Head(link[Prim]).age /\ a <= MaxDelay
      BY <1>10, <3>1
    <3>3. d <= q + a
      BY <1>1, <1>10, <3>1, <3>2 DEF OldLetter
    <3>. QED BY <3>2, <3>3, Periods
  <2>. QED BY <2>1, <2>2
<1>12. IsActive'[Prim] \/ IsActive'[Stby] \/ Coming(Stby, Prim, t)'
  <2>1. CASE IsActive'[Prim] = IsActive[Prim]
    BY <1>1, <1>3, <1>4, <1>6, <2>1 DEF Joined
  <2>2. CASE Head(link[g]).body.kind = "be_inactive" /\ g = Prim
    <3>1. PICK a \in Nat : a = Head(link[Prim]).age /\ a <= MaxDelay
      BY <1>10, <2>2
    <3>2. d <= q + k + 2 + a
      BY <1>2, <1>10, <2>2, <3>1 DEF OldLetter
    <3>3. t <= 0
      BY <1>3, <1>4, <3>1, <3>2, Periods
    <3>. QED BY <3>3, ComingEarlyNext, Pair
  <2>3. CASE IsActive'[Prim]
    BY <2>3
  <2>. QED BY <1>1, <2>1, <2>2, <2>3
<1>. QED BY <1>1, <1>2, <1>3, <1>4, <1>7, <1>9, <1>11, <1>12 DEF Joined

(* A pass of the primary keeps Joined: told that nobody is active it is.      *)
LEMMA PrimaryPassJoins ==
  ASSUME TypeOK, TypeOK', Standing, NEW q \in Nat, NEW d \in Nat, NEW s \in Nat, Joined(q, d, s), PrimaryPass
  PROVE  Joined(q, d, s)'
<1>1. /\ Prim \in due /\ due' = due \ {Prim} /\ sinceId' = sinceId /\ link' = link /\ sb' = sb
      /\ slot'[Prim] = None /\ slot'[Stby] = slot[Stby] /\ IsActive'[Stby] = IsActive[Stby]
      /\ IsActive[Prim] \/ (slot[Prim] # None /\ NoActiveGateway(slot[Prim])) => IsActive'[Prim]
  BY PrimaryPassLeaves
<1>2. PICK k \in Nat : k = Longest /\ Longest' = k
  BY LastOrderIsNat, LongestIsNat
<1>3. PICK o \in Nat : o = LastOrder /\ LastOrder' = o /\ o = k + 2 + MaxDelay
  BY <1>2, LastOrderIsNat DEF LastOrder
<1>4. PICK t \in Int : t = d - q - o
  OBVIOUS
<1>5. \A n \in Int : Coming(Prim, Stby, n) => Coming(Prim, Stby, n)'
  BY <1>1, ComingStays, Pair, FourNames
<1>6. Coming(Prim, Stby, d - q)' \/ Coming(Prim, Stby, s)'
  BY <1>5 DEF Joined
<1>7. \A i \in 1..Len(link'[Prim]) : OldLetter(link[Prim][i], q, d)'
  BY <1>1, <1>2 DEF Joined, OldLetter
<1>8. IsActive'[Prim] \/ IsActive'[Stby] \/ Coming(Stby, Prim, t)'
  <2>1. CASE slot[Prim] = None
    <3>1. Coming(Stby, Prim, t) => Coming(Stby, Prim, t)'
      BY <1>1, <2>1, ComingStays, Pair
    <3>. QED BY <1>1, <1>3, <1>4, <3>1 DEF Joined
  <2>2. CASE slot[Prim] # None /\ ~slot[Prim].isactive
    BY <1>1, <2>2 DEF NoActiveGateway, Standing
  <2>3. CASE slot[Prim] # None /\ slot[Prim].isactive /\ ~IsActive[Stby]
    <3>1. d <= q + MaxDelay + 1
      BY <1>1, <2>3 DEF Joined
    <3>2. t <= 0
      BY <1>3, <1>4, <3>1, Periods
    <3>. QED BY <3>2, ComingEarlyNext, Pair
  <2>. QED BY <1>1, <2>1, <2>2, <2>3
<1>9. sb'.state = "TakingOver" => d <= q + k + 1 + (IF Stby \in due' THEN 1 ELSE 0)
  BY <1>1, <1>2, FourNames DEF Joined
<1>. QED BY <1>1, <1>2, <1>3, <1>4, <1>6, <1>7, <1>8, <1>9 DEF Joined

(* A pass of the standby: it takes over only when the primary has been silent.*)
LEMMA PassJoins ==
  ASSUME TypeOK, TypeOK', Standing, hotcutovertime >= ClusterInterval + MaxDelay + 2,
         NEW q \in Nat, NEW d \in Nat, NEW s \in Nat, NEW e \in Nat,
         seen.dark = d, sb.sinceOK = s, sb'.sinceOK = e, Joined(q, d, s), StandbyStep, ~MergeCrash
  PROVE  Joined(q, d, e)'
<1>1. EachPass /\ (SyncTable \/ TakeOverTable)
  BY Timetable
<1>2. /\ Stby \in due /\ due' = due \ {Stby} /\ sinceId' = sinceId /\ slot'[Stby] = None
      /\ slot'[Prim] = slot[Prim] /\ IsActive'[Prim] = IsActive[Prim]
      /\ (sb.state \notin TakenOver => IsActive' = IsActive)
      /\ (sb.state # "Reset" => e = IF FromPrimary THEN 0 ELSE s)
      /\ link'[Stby] = link[Stby]
      /\ \/ link'[Prim] = link[Prim]
         \/ \E b \in Body : /\ b.kind \in {"query", "be_inactive", "be_active"}
                            /\ b.kind = "be_inactive" => sb.state \in {"TakingOver", "RunActive", "HandBackOver"}
                            /\ link'[Prim] = Append(link[Prim], [body |-> b, age |-> 0])
  BY <1>1 DEF EachPass
<1>3. CASE d = 0
  BY <1>3, JoinedEarly
<1>4. CASE d # 0
  <2>1. ~IsActive[Stby] /\ sb.state \notin {"Reset", "RunActive", "HandBackOver"} /\ ~sb.force
    BY <1>2, <1>4, TypesSplit DEF Standing
  <2>2. PICK k \in Nat : k = Longest /\ Longest' = k /\ hotcutovertime >= k + 1
    BY LastOrderIsNat, LongestIsNat, Periods DEF Longest
  <2>3. PICK o \in Nat : o = LastOrder /\ LastOrder' = o
    BY LastOrderIsNat
  <2>4. PICK t \in Int : t = d - q - o
    OBVIOUS
  <2>5. Coming(Prim, Stby, d - q)' \/ Coming(Prim, Stby, e)'
    <3>1. CASE slot[Stby] # None
      <4>1. e = 0
        BY <1>2, <2>1, <3>1 DEF Standing, FromPrimary
      <4>. QED BY <4>1, ComingEarlyNext, Pair
    <3>2. CASE slot[Stby] = None
      <4>1. e = s
        BY <1>2, <2>1, <3>2 DEF FromPrimary
      <4>2. \A n \in Int : Coming(Prim, Stby, n) => Coming(Prim, Stby, n)'
        BY <1>2, <3>2, ComingStays, Pair
      <4>. QED BY <4>1, <4>2 DEF Joined
    <3>. QED BY <3>1, <3>2
  <2>6. sb'.state = "TakingOver" => d <= q + k + 1
    <3>. SUFFICES ASSUME sb'.state = "TakingOver" PROVE d <= q + k + 1
      OBVIOUS
    <3>1. s > hotcutovertime
      BY <1>1, <2>1 DEF SyncTable, TakeOverTable, PrimaryLost
    <3>2. ~Coming(Prim, Stby, s)
      BY <2>2, <3>1, ComingBound, Periods, Pair
    <3>3. Coming(Prim, Stby, d - q)
      BY <3>2 DEF Joined
    <3>4. d - q \in Int /\ d - q <= k + 1
      BY <2>2, <3>3, ComingBound, Pair
    <3>. QED BY <3>4
  <2>7. \A i \in 1..Len(link'[Prim]) : OldLetter(link[Prim][i], q, d)'
    <3>. SUFFICES ASSUME NEW i \in 1..Len(link'[Prim]) PROVE OldLetter(link[Prim][i], q, d)'
      OBVIOUS
    <3>1. link[Prim] \in Seq(Letter)
      BY ClocksTyped, Pair
    <3>2. CASE i \in 1..Len(link[Prim]) /\ link'[Prim][i] = link[Prim][i]
      <4>1. OldLetter(link[Prim][i], q, d)
        BY <3>2 DEF Joined
      <4>. QED BY <2>1, <2>2, <3>2, <4>1 DEF OldLetter
    <3>3. ASSUME NEW b \in Body, b.kind \in {"query", "be_inactive", "be_active"},
                 b.kind = "be_inactive" => sb.state = "TakingOver", link'[Prim][i] = [body |-> b, age |-> 0]
          PROVE  OldLetter(link[Prim][i], q, d)'
      <4>1. b.kind = "be_inactive" => d <= q + k + 2 + 0
        BY <1>2, <2>2, <3>3 DEF Joined
      <4>. QED BY <2>2, <3>3, <4>1 DEF OldLetter
    <3>4. CASE link'[Prim] = link[Prim]
      BY <3>2, <3>4
    <3>5. ASSUME NEW b \in Body, b.kind \in {"query", "be_inactive", "be_active"},
                 b.kind = "be_inactive" => sb.state \in {"TakingOver", "RunActive", "HandBackOver"},
                 link'[Prim] = Append(link[Prim], [body |-> b, age |-> 0])
          PROVE  OldLetter(link[Prim][i], q, d)'
      <4>. DEFINE l == [body |-> b, age |-> 0]
      <4>1. l \in Letter
        BY Periods DEF Letter
      <4>2. link'[Prim] = Append(link[Prim], l)
        BY <3>5
      <4>3. link'[Prim][i] = l => OldLetter(link[Prim][i], q, d)'
        BY <2>1, <3>3, <3>5
      <4>. HIDE DEF l
      <4>4. \/ i \in 1..Len(link[Prim]) /\ link'[Prim][i] = link[Prim][i]
            \/ link'[Prim][i] = l
        BY <3>1, <4>1, <4>2
      <4>. QED BY <3>2, <4>3, <4>4
    <3>. QED BY <1>2, <3>4, <3>5
  <2>8. slot'[Prim] # None /\ slot'[Prim].isactive =>
          IsActive'[Stby] \/ d <= q + MaxDelay + (IF Prim \in due' THEN 1 ELSE 0)
    BY <1>2, <2>1, FourNames DEF Joined
  <2>9. IsActive'[Prim] \/ IsActive'[Stby] \/ Coming(Stby, Prim, t)'
    <3>1. link[Prim] \in Seq(Letter)
      BY ClocksTyped, Pair
    <3>2. Underway(link[Prim], t) => Underway(link'[Prim], t)
      <4>1. ASSUME NEW b \in Body, link'[Prim] = Append(link[Prim], [body |-> b, age |-> 0]), Underway(link[Prim], t)
            PROVE  Underway(link'[Prim], t)
        <5>. DEFINE l == [body |-> b, age |-> 0]
        <5>1. l \in Letter
          BY Periods DEF Letter
        <5>2. link'[Prim] = Append(link[Prim], l)
          BY <4>1
        <5>. HIDE DEF l
        <5>. QED BY <3>1, <4>1, <5>1, <5>2, UnderwayStays
      <4>2. CASE link'[Prim] = link[Prim]
        BY <4>2
      <4>. QED BY <1>2, <4>1, <4>2
    <3>3. Coming(Stby, Prim, t) => Coming(Stby, Prim, t)'
      BY <1>2, <3>2, ComingStays, Pair, FourNames
    <3>. QED BY <1>2, <2>1, <2>3, <2>4, <3>3 DEF Joined
  <2>. QED BY <1>2, <2>2, <2>3, <2>4, <2>5, <2>6, <2>7, <2>8, <2>9 DEF Joined
<1>. QED BY <1>3, <1>4

(* The age of a letter.                                                       *)
LEMMA LetterAge ==
  ASSUME NEW l \in Letter
  PROVE  l.age \in Nat /\ l.age <= MaxDelay
BY Periods DEF Letter

(* A second of darkness while they are connected.                             *)
LEMMA TickJoins ==
  ASSUME TypeOK, TypeOK', Standing, linkUp, NEW q \in Nat, NEW d \in Nat, NEW s \in Nat, NEW e \in Nat, NEW f \in Nat,
         seen.dark = d, sb.sinceOK = s, seen'.dark = e, sb'.sinceOK = f, Joined(q, d, s), Tick
  PROVE  Joined(q, e, f)' /\ (e = 0 \/ e <= q + LastOrder + Longest + 1)
<1>1. /\ due = {} /\ due' = up /\ up' = up /\ IsActive' = IsActive /\ slot' = slot /\ sb'.state = sb.state
      /\ up = Gateways
      /\ link' \in Links /\ Len(link'[Prim]) = Len(link[Prim])
      /\ \A i \in 1..Len(link[Prim]) : /\ link'[Prim][i].body = link[Prim][i].body
                                       /\ link'[Prim][i].age = link[Prim][i].age + 1
  BY TickLeaves, Pair DEF Standing
<1>2. CASE e = 0
  BY <1>2, JoinedEarly
<1>3. CASE e # 0
  <2>1. ~Covered
    BY <1>3, TickClocks
  <2>2. up # {}
    BY <1>1, Pair
  <2>3. e <= d + 1
    <3>1. e = Later(d, MaxDark + 1)
      BY <2>1, <2>2, TickClocks
    <3>. QED BY <3>1, Periods DEF Later
  <2>4. f <= s + 1
    <3>1. f = Later(s, hotcutovertime + 1)
      BY <1>1, TickClocks, Pair
    <3>. QED BY <3>1, Periods DEF Later
  <2>5. ~IsActive[Prim] /\ ~IsActive[Stby]
    BY <2>1, Pair DEF Covered
  <2>6. PICK k \in Nat : k = Longest /\ Longest' = k
    BY LastOrderIsNat, LongestIsNat
  <2>7. PICK o \in Nat : o = LastOrder /\ LastOrder' = o
    BY LastOrderIsNat
  <2>8. PICK t \in Int : t = d - q - o
    OBVIOUS
  <2>9. PICK u \in Int : u = e - q - o
    OBVIOUS
  <2>10. \A m, n \in Int : Coming(Prim, Stby, n) /\ m <= n + 1 => Coming(Prim, Stby, m)'
    <3>. SUFFICES ASSUME NEW m \in Int, NEW n \in Int, Coming(Prim, Stby, n), m <= n + 1
                  PROVE  Coming(Prim, Stby, m)'
      OBVIOUS
    <3>1. Coming(Prim, Stby, n + 1)'
      BY <1>1, ComingTick, Pair
    <3>2. n + 1 \in Int
      OBVIOUS
    <3>. QED BY <3>1, <3>2, ComingLess, Pair
  <2>11. Coming(Prim, Stby, e - q)' \/ Coming(Prim, Stby, f)'
    <3>1. d - q \in Int /\ e - q \in Int /\ e - q <= (d - q) + 1
      BY <2>3
    <3>. QED BY <2>4, <2>10, <3>1 DEF Joined
  <2>12. Coming(Stby, Prim, t)
    BY <2>5, <2>7, <2>8 DEF Joined
  <2>13. Coming(Stby, Prim, u)'
    <3>1. Coming(Stby, Prim, t + 1)'
      BY <1>1, <2>12, ComingTick, Pair
    <3>2. t + 1 \in Int /\ u <= t + 1
      BY <2>3, <2>8, <2>9
    <3>. QED BY <3>1, <3>2, ComingLess, Pair
  <2>14. e <= q + o + k + 1
    <3>1. t <= k
      BY <1>1, <2>6, <2>12, ComingQuiet, Pair
    <3>. QED BY <2>3, <2>8, <3>1
  <2>15. \A i \in 1..Len(link'[Prim]) : OldLetter(link[Prim][i], q, e)'
    <3>. SUFFICES ASSUME NEW i \in 1..Len(link'[Prim]) PROVE OldLetter(link[Prim][i], q, e)'
      OBVIOUS
    <3>1. link[Prim] \in Seq(Letter) /\ i \in 1..Len(link[Prim])
      BY <1>1, ClocksTyped, Pair
    <3>2. link[Prim][i] \in Letter
      BY <3>1
    <3>3. PICK a \in Nat : a = link[Prim][i].age
      BY <3>2, LetterAge
    <3>4. link'[Prim][i].body = link[Prim][i].body /\ link'[Prim][i].age = a + 1
      BY <1>1, <3>1, <3>3
    <3>5. OldLetter(link[Prim][i], q, d)
      BY <3>1 DEF Joined
    <3>6. /\ link[Prim][i].body.kind = "site" /\ link[Prim][i].body.msg.isactive => d <= q + a
          /\ link[Prim][i].body.kind = "be_inactive" => d <= q + k + 2 + a
      BY <2>5, <2>6, <3>3, <3>5 DEF OldLetter
    <3>7. (d <= q + a => e <= q + (a + 1)) /\ (d <= q + k + 2 + a => e <= q + k + 2 + (a + 1))
      BY <2>3
    <3>. QED BY <2>6, <3>4, <3>6, <3>7 DEF OldLetter
  <2>16. sb'.state = "TakingOver" => e <= q + k + 1 + (IF Stby \in due' THEN 1 ELSE 0)
    <3>1. sb.state = "TakingOver" => d <= q + k + 1
      BY <1>1, <2>6 DEF Joined
    <3>. QED BY <1>1, <2>3, <3>1, Pair
  <2>17. slot'[Prim] # None /\ slot'[Prim].isactive =>
           IsActive'[Stby] \/ e <= q + MaxDelay + (IF Prim \in due' THEN 1 ELSE 0)
    <3>1. slot[Prim] # None /\ slot[Prim].isactive => d <= q + MaxDelay
      BY <1>1, <2>5, Periods DEF Joined
    <3>. QED BY <1>1, <2>3, <3>1, Pair, Periods
  <2>18. Joined(q, e, f)'
    BY <2>6, <2>7, <2>9, <2>11, <2>13, <2>15, <2>16, <2>17 DEF Joined
  <2>. QED BY <2>6, <2>7, <2>14, <2>18
<1>. QED BY <1>2, <1>3

-----------------------------------------------------------------------------
(* The limit of one stretch in the dark while the primary runs.               *)
LEMMA LimitsAreNat ==
  /\ SilentLimit \in Nat /\ LastOrder \in Nat /\ Longest \in Nat /\ PairLimit \in Nat
  /\ PairLimit = SilentLimit + LastOrder + Longest + 1
  /\ SilentLimit' = SilentLimit /\ PairLimit' = PairLimit
<1>1. SilentLimit \in Nat /\ LastOrder \in Nat /\ Longest \in Nat
  BY Periods, LastOrderIsNat, LongestIsNat DEF SilentLimit
<1>2. PairLimit = SilentLimit + LastOrder + Longest + 1
  BY DEF PairLimit
<1>3. PairLimit \in Nat
  BY <1>1, <1>2
<1>4. SilentLimit' = SilentLimit /\ PairLimit' = PairLimit
  BY DEF SilentLimit, PairLimit, LastOrder, Longest
<1>. QED BY <1>1, <1>2, <1>3, <1>4

(* Dark after a step, from its parts.                                         *)
LEMMA DarkNow ==
  ASSUME TypeOK', NEW p \in Nat, NEW q \in Nat, q = p + SilentLimit,
         seen'.dark <= p + PairLimit, ~linkUp' => Apart(p)',
         linkUp' => \E d \in Nat, s \in Nat : seen'.dark = d /\ sb'.sinceOK = s /\ Joined(q, d, s)'
  PROVE  Dark(p)'
<1>1. seen'.dark <= p + PairLimit'
  BY LimitsAreNat
<1>2. PICK r \in Nat : SilentLimit = r /\ SilentLimit' = r
  BY LimitsAreNat
<1>3. linkUp' => Joined(p + r, seen.dark, sb.sinceOK)'
  BY <1>2, JoinedNow
<1>. QED BY <1>1, <1>2, <1>3 DEF Dark

(* A new stretch begins wherever the dark has got to.                         *)
LEMMA DarkFresh ==
  ASSUME TypeOK', NEW p \in Nat, seen'.dark <= p
  PROVE  Dark(p)'
<1>1. PICK q \in Nat : q = p + SilentLimit
  BY LimitsAreNat
<1>2. PICK d \in Nat : seen'.dark = d
  BY Periods DEF TypeOK
<1>3. PICK s \in Nat : sb'.sinceOK = s
  BY Periods DEF TypeOK, StandbyState, Silence
<1>4. d <= q /\ seen'.dark <= p + PairLimit
  BY <1>1, <1>2, LimitsAreNat
<1>5. Joined(q, d, s)'
  BY <1>4, JoinedEarly
<1>6. Apart(p)'
  BY DEF Apart
<1>. QED BY <1>1, <1>2, <1>3, <1>4, <1>5, <1>6, DarkNow

(* Each kind of step keeps the bound it began with.                           *)
LEMMA DarkRests ==
  ASSUME TypeOK, TypeOK', Addressed, Standing, Standing', NEW p \in Nat, Dark(p), Rests, ~CutLink
  PROVE  Dark(p)'
<1>1. Unmoved
  BY RestsLeave
<1>2. seen'.dark = seen.dark /\ sb'.sinceOK = sb.sinceOK
  BY <1>1 DEF Unmoved
<1>3. PICK d \in Nat : seen.dark = d
  BY DarkTyped
<1>4. PICK s \in Nat : sb.sinceOK = s
  BY SbTyped
<1>5. PICK q \in Nat : q = p + SilentLimit
  BY LimitsAreNat
<1>6. seen'.dark <= p + PairLimit
  BY <1>2 DEF Dark
<1>7. CASE ~linkUp /\ ~HealLink
  <2>1. ~linkUp'
    <3>1. ASSUME NEW g \in Gateways, SendIdentifier(g) \/ InterSiteMessageIn(g)
          PROVE  linkUp' = linkUp
      BY <3>1 DEF SendIdentifier, InterSiteMessageIn
    <3>. QED BY <1>7, <3>1 DEF Rests, CutLink, SendReply, PrimaryPass, ReloadPrimaryTables, TablesReloaded
  <2>2. Apart(p)'
    BY <1>7, ApartRests DEF Dark
  <2>. QED BY <1>5, <1>6, <2>1, <2>2, DarkNow
<1>8. CASE HealLink
  <2>1. ~linkUp /\ linkUp'
    BY <1>8 DEF HealLink
  <2>2. d <= q
    BY <1>3, <1>5, <2>1, ApartBound DEF Dark
  <2>3. Joined(q, d, s)'
    BY <2>2, JoinedEarly
  <2>. QED BY <1>2, <1>3, <1>4, <1>5, <1>6, <2>1, <2>3, DarkNow
<1>9. CASE linkUp
  <2>1. Joined(q, d, s)
    BY <1>3, <1>4, <1>5, <1>9 DEF Dark
  <2>2. Joined(q, d, s)'
    <3>1. CASE SendReply \/ ReloadPrimaryTables \/ TablesReloaded
      BY <2>1, <3>1, ReplyJoins
    <3>2. CASE PrimaryPass
      BY <2>1, <3>2, PrimaryPassJoins
    <3>3. ASSUME NEW g \in Gateways, SendIdentifier(g) \/ InterSiteMessageIn(g)
          PROVE  Joined(q, d, s)'
      <4>1. CASE SendIdentifier(g)
        BY <1>9, <2>1, <4>1, IdentifierJoins
      <4>2. CASE InterSiteMessageIn(g)
        BY <2>1, <4>2, MessageInJoins
      <4>. QED BY <3>3, <4>1, <4>2
    <3>4. ~HealLink
      BY <1>9 DEF HealLink
    <3>. QED BY <3>1, <3>2, <3>3, <3>4 DEF Rests
  <2>3. linkUp'
    <3>1. ASSUME NEW g \in Gateways, SendIdentifier(g) \/ InterSiteMessageIn(g)
          PROVE  linkUp' = linkUp
      BY <3>1 DEF SendIdentifier, InterSiteMessageIn
    <3>. QED BY <1>9, <3>1 DEF Rests, HealLink, SendReply, PrimaryPass, ReloadPrimaryTables, TablesReloaded
  <2>. QED BY <1>2, <1>3, <1>4, <1>5, <1>6, <2>2, <2>3, DarkNow
<1>. QED BY <1>7, <1>8, <1>9

(* A pass of the standby.                                                     *)
LEMMA DarkPass ==
  ASSUME TypeOK, TypeOK', Standing, hotcutovertime >= ClusterInterval + MaxDelay + 2,
         NEW p \in Nat, Dark(p), StandbyStep, ~MergeCrash
  PROVE  Dark(p)'
<1>1. EachPass
  BY Timetable
<1>2. seen'.dark = seen.dark /\ linkUp' = linkUp
  BY <1>1 DEF EachPass
<1>3. PICK d \in Nat : seen.dark = d
  BY DarkTyped
<1>4. PICK s \in Nat : sb.sinceOK = s
  BY SbTyped
<1>5. PICK e \in Nat : sb'.sinceOK = e
  BY Periods DEF TypeOK, StandbyState, Silence
<1>6. PICK q \in Nat : q = p + SilentLimit
  BY LimitsAreNat
<1>7. seen'.dark <= p + PairLimit
  BY <1>2 DEF Dark
<1>8. CASE ~linkUp
  BY <1>2, <1>6, <1>7, <1>8, ApartPass, DarkNow DEF Dark
<1>9. CASE linkUp
  <2>1. Joined(q, d, s)
    BY <1>3, <1>4, <1>6, <1>9 DEF Dark
  <2>2. Joined(q, d, e)'
    BY <1>3, <1>4, <1>5, <2>1, PassJoins
  <2>. QED BY <1>2, <1>3, <1>5, <1>6, <1>7, <1>9, <2>2, DarkNow
<1>. QED BY <1>8, <1>9

(* A second.                                                                  *)
LEMMA DarkTick ==
  ASSUME TypeOK, TypeOK', Standing, Prim \in up, NEW p \in Nat, Dark(p), Tick
  PROVE  Dark(p)'
<1>1. linkUp' = linkUp
  BY TickLeaves
<1>2. PICK d \in Nat : seen.dark = d
  BY DarkTyped
<1>3. PICK s \in Nat : sb.sinceOK = s
  BY SbTyped
<1>4. PICK e \in Nat : seen'.dark = e
  BY Periods DEF TypeOK
<1>5. PICK f \in Nat : sb'.sinceOK = f
  BY Periods DEF TypeOK, StandbyState, Silence
<1>6. PICK q \in Nat : q = p + SilentLimit
  BY LimitsAreNat
<1>7. CASE ~linkUp
  <2>1. Apart(p)'
    BY <1>7, ApartTick DEF Dark
  <2>2. e <= p + SilentLimit
    BY <1>4, <2>1, ApartNext
  <2>3. seen'.dark <= p + PairLimit
    BY <1>4, <2>2, LimitsAreNat
  <2>. QED BY <1>1, <1>6, <1>7, <2>1, <2>3, DarkNow
<1>8. CASE linkUp
  <2>1. Joined(q, d, s)
    BY <1>2, <1>3, <1>6, <1>8 DEF Dark
  <2>2. Joined(q, e, f)' /\ (e = 0 \/ e <= q + LastOrder + Longest + 1)
    BY <1>2, <1>3, <1>4, <1>5, <1>8, <2>1, TickJoins
  <2>3. seen'.dark <= p + PairLimit
    BY <1>4, <1>6, <2>2, LimitsAreNat
  <2>. QED BY <1>1, <1>4, <1>5, <1>6, <1>8, <2>2, <2>3, DarkNow
<1>. QED BY <1>7, <1>8

(* Served, however many connections have been cut.                            *)
LEMMA CutsTyped ==
  ASSUME TypeOK
  PROVE  faults.cuts \in Nat /\ faults.cuts <= MaxCuts /\ faults.cuts * PairLimit \in Nat
<1>1. \A n, k \in Nat : n * k \in Nat
  OBVIOUS
<1>. QED BY <1>1, FaultsTyped, LimitsAreNat, Periods

(* The same after a step.                                                     *)
LEMMA CutsNext ==
  ASSUME TypeOK'
  PROVE  faults'.cuts \in Nat /\ faults'.cuts * PairLimit' \in Nat
<1>1. \A n, k \in Nat : n * k \in Nat
  OBVIOUS
<1>2. faults'.cuts \in Nat
  BY Periods DEF TypeOK
<1>3. PairLimit' \in Nat
  BY LimitsAreNat
<1>. QED BY <1>1, <1>2, <1>3

(* With a gateway active the count starts again.                              *)
LEMMA ServedFresh ==
  ASSUME TypeOK', seen'.dark = 0
  PROVE  Served'
<1>1. 0 \in 0 .. faults'.cuts * PairLimit'
  BY CutsNext
<1>2. Dark(0)'
  BY DarkFresh
<1>. QED BY <1>1, <1>2 DEF Served

(* A step that cuts nothing keeps its stretch.                                *)
LEMMA ServedSame ==
  ASSUME faults'.cuts = faults.cuts, NEW p \in 0 .. faults.cuts * PairLimit, Dark(p)'
  PROVE  Served'
<1>1. p \in 0 .. faults'.cuts * PairLimit'
  BY LimitsAreNat
<1>. QED BY <1>1 DEF Served

(* Only CutLink cuts.                                                         *)
LEMMA RestsCuts ==
  ASSUME TypeOK, Rests, ~CutLink
  PROVE  faults'.cuts = faults.cuts
<1>1. CASE ReloadPrimaryTables
  <2>1. faults \in Budget /\ faults' = [faults EXCEPT !.reloads = @ + 1]
    BY <1>1, TypesSplit DEF ReloadPrimaryTables
  <2>. QED BY <2>1 DEF Budget
<1>2. CASE ~ReloadPrimaryTables
  <2>1. ASSUME NEW g \in Gateways, SendIdentifier(g) \/ InterSiteMessageIn(g)
        PROVE  faults' = faults
    BY <2>1 DEF SendIdentifier, InterSiteMessageIn
  <2>. QED BY <1>2, <2>1 DEF Rests, HealLink, SendReply, PrimaryPass, TablesReloaded
<1>. QED BY <1>1, <1>2

(* A cut begins a new stretch.                                                *)
LEMMA CutServed ==
  ASSUME TypeOK, TypeOK', Prim \in up, NEW p \in 0 .. faults.cuts * PairLimit, Dark(p), CutLink
  PROVE  Served'
<1>1. faults \in Budget /\ faults' = [faults EXCEPT !.cuts = @ + 1] /\ seen' = seen
  BY TypesSplit DEF CutLink
<1>2. PICK n \in Nat : n = faults.cuts
  BY CutsTyped
<1>3. faults'.cuts = n + 1
  BY <1>1, <1>2 DEF Budget
<1>4. PICK k \in Nat : PairLimit = k /\ PairLimit' = k
  BY LimitsAreNat
<1>5. \A i, j \in Nat : i * j \in Nat /\ (i + 1) * j = i * j + j
  OBVIOUS
<1>6. PICK x \in Nat : x = n * k /\ (n + 1) * k = x + k
  BY <1>5
<1>7. p \in 0 .. x
  BY <1>2, <1>4, <1>6
<1>8. p + k \in Nat /\ p + k \in 0 .. x + k
  BY <1>7
<1>9. seen'.dark <= p + k
  BY <1>1, <1>4 DEF Dark
<1>10. Dark(p + k)'
  BY <1>8, <1>9, DarkFresh
<1>11. p + k \in 0 .. faults'.cuts * PairLimit'
  BY <1>3, <1>4, <1>6, <1>8
<1>. QED BY <1>10, <1>11 DEF Served

(* Nothing is said of a primary that is down.                                 *)
LEMMA ServedSkips ==
  ASSUME Prim \notin up'
  PROVE  Served'
BY DEF Served

-----------------------------------------------------------------------------
(* What the blackouts need is kept by every step.                             *)
LEMMA DarkUnchanged ==
  ASSUME DInv, UNCHANGED vars
  PROVE  DInv'
<1>1. IInv'
  BY NextKeeps DEF DInv
<1>2. /\ up' = up /\ IsActive' = IsActive /\ slot' = slot /\ due' = due /\ sinceId' = sinceId
      /\ link' = link /\ linkUp' = linkUp /\ pr' = pr /\ sb' = sb /\ faults' = faults /\ seen' = seen
  BY DEF vars
<1>3. Standing' /\ OnCourse'
  BY <1>2 DEF DInv, Standing, OnCourse, PrimaryLost
<1>4. Alone'
  BY <1>2, LapConstantsStay
     DEF DInv, Alone, Left, Mourning, Lap, Pause, More, InNext, ReqNext, FromStartup, Tries, Try
<1>5. CASE Prim \in up
  <2>1. PICK p \in 0 .. faults.cuts * PairLimit : Dark(p)
    BY <1>5 DEF DInv, Served
  <2>2. Dark(p)'
    BY <1>2, <2>1
       DEF Dark, Apart, Joined, Coming, Underway, OldLetter, PairLimit, SilentLimit, LastOrder, Longest
  <2>3. Served'
    BY <1>2, <2>2, ServedSame
  <2>. QED BY <1>1, <1>3, <1>4, <2>3 DEF DInv
<1>6. CASE Prim \notin up
  BY <1>1, <1>2, <1>3, <1>4, <1>6, ServedSkips DEF DInv
<1>. QED BY <1>5, <1>6

(* A process that stops,                                                      *)
LEMMA DarkStops ==
  ASSUME DInv, IInv', NEW g \in Gateways, Stop(g)
  PROVE  DInv'
<1>1. TypeOK /\ TypeOK' /\ Standing /\ OnCourse
  BY DEF DInv, IInv
<1>2. Standing' /\ OnCourse'
  BY <1>1, StopStands
<1>3. seen'.dark = 0
  BY <1>1, StopLeaves
<1>. QED BY <1>1, <1>2, <1>3, AloneFresh, ServedFresh DEF DInv

(* one that starts again,                                                     *)
LEMMA DarkRestarts ==
  ASSUME DInv, IInv', NEW g \in Gateways, Restart(g)
  PROVE  DInv'
<1>1. TypeOK /\ TypeOK' /\ Standing /\ OnCourse
  BY DEF DInv, IInv
<1>2. Standing' /\ OnCourse'
  BY <1>1, RestartStands
<1>3. seen'.dark = 0
  BY <1>1, RestartLeaves
<1>. QED BY <1>1, <1>2, <1>3, AloneFresh, ServedFresh DEF DInv

(* and every other step.                                                      *)
LEMMA DarkGoesOn ==
  ASSUME DInv, IInv', hotcutovertime >= ClusterInterval + MaxDelay + 2,
         Tick \/ Rests \/ (StandbyStep /\ ~MergeCrash)
  PROVE  DInv'
<1>1. TypeOK /\ TypeOK' /\ Addressed /\ Standing /\ OnCourse /\ Alone
  BY DEF DInv, IInv
<1>2. Standing' /\ OnCourse'
  BY <1>1, RestsStand, PassStands, TickStands
<1>3. Alone'
  BY <1>1, <1>2, AloneRests, AlonePass, AloneTick
<1>4. up' = up
  <2>1. Tick => up' = up
    BY <1>1, TickLeaves
  <2>2. Rests => up' = up
    BY <1>1, RestsLeave DEF Unmoved
  <2>3. StandbyStep /\ ~MergeCrash => up' = up
    BY <1>1, Timetable DEF EachPass
  <2>. QED BY <2>1, <2>2, <2>3
<1>5. CASE Prim \notin up
  BY <1>2, <1>3, <1>4, <1>5, ServedSkips DEF DInv
<1>6. CASE Prim \in up
  <2>1. PICK p \in 0 .. faults.cuts * PairLimit : Dark(p)
    BY <1>6 DEF DInv, Served
  <2>2. p \in Nat
    OBVIOUS
  <2>3. CASE CutLink
    <3>1. Served'
      BY <1>1, <1>6, <2>1, <2>3, CutServed
    <3>. QED BY <1>2, <1>3, <3>1 DEF DInv
  <2>4. CASE Rests /\ ~CutLink
    <3>1. Dark(p)'
      BY <1>1, <1>2, <2>1, <2>2, <2>4, DarkRests
    <3>2. faults'.cuts = faults.cuts
      BY <1>1, <2>4, RestsCuts
    <3>3. Served'
      BY <3>1, <3>2, ServedSame
    <3>. QED BY <1>2, <1>3, <3>3 DEF DInv
  <2>5. CASE StandbyStep /\ ~MergeCrash
    <3>1. Dark(p)'
      BY <1>1, <2>1, <2>2, <2>5, DarkPass
    <3>2. faults'.cuts = faults.cuts
      BY <1>1, <2>5, Timetable DEF EachPass
    <3>3. Served'
      BY <3>1, <3>2, ServedSame
    <3>. QED BY <1>2, <1>3, <3>3 DEF DInv
  <2>6. CASE Tick
    <3>1. Dark(p)'
      BY <1>1, <1>6, <2>1, <2>2, <2>6, DarkTick
    <3>2. faults'.cuts = faults.cuts
      BY <1>1, <2>6, TickLeaves
    <3>3. Served'
      BY <3>1, <3>2, ServedSame
    <3>. QED BY <1>2, <1>3, <3>3 DEF DInv
  <2>. QED BY <2>3, <2>4, <2>5, <2>6
<1>. QED BY <1>5, <1>6

(* Together: the invariant is kept.                                           *)
LEMMA DarkNext ==
  ASSUME DInv, [Next]_vars, Commands = {}, ~OtherSites, hotcutovertime >= ClusterInterval + MaxDelay + 2
  PROVE  DInv'
<1>1. IInv'
  BY NextKeeps DEF DInv
<1>2. CASE UNCHANGED vars
  BY <1>2, DarkUnchanged
<1>3. CASE Tick \/ Rests \/ (StandbyStep /\ ~MergeCrash)
  BY <1>1, <1>3, DarkGoesOn
<1>4. CASE MergeCrash
  BY <1>1, <1>4, DarkStops, Pair DEF MergeCrash
<1>5. ASSUME NEW g \in Gateways, Crash(g) \/ Restart(g)
      PROVE  DInv'
  BY <1>1, <1>5, DarkStops, DarkRestarts DEF Crash
<1>. QED BY <1>2, <1>3, <1>4, <1>5, MovesSplit

(* It holds at first.                                                         *)
LEMMA FirstDark == Init => DInv
<1>. SUFFICES ASSUME Init PROVE DInv
  OBVIOUS
<1>1. IInv
  BY FirstInvariant
<1>2. /\ up = Gateways /\ due = Gateways /\ linkUp = TRUE /\ faults.cuts = 0 /\ seen.dark = 0 /\ pr.standby = None
      /\ ~IsActive[Stby] /\ slot[Prim] = None /\ slot[Stby] = None /\ ~sb.force /\ sb.state = "Reset"
  BY FourNames, Pair DEF Init, FreshPrimary, FreshStandby, StartsActive
<1>3. Standing /\ OnCourse
  BY <1>2, Pair DEF Standing, OnCourse
<1>4. Alone
  <2>1. Left \in Nat /\ Left <= AloneLimit
    BY <1>1, <1>3, BoundsHold DEF IInv, Bounds
  <2>2. PICK l \in Nat : l = Left
    BY <2>1
  <2>. QED BY <1>2, <2>1, <2>2 DEF Alone
<1>5. Served
  <2>1. TypeOK
    BY <1>1 DEF IInv
  <2>2. 0 \in 0 .. faults.cuts * PairLimit
    BY <2>1, CutsTyped
  <2>3. Dark(0)
    <3>1. PICK r \in Nat : r = SilentLimit
      BY LimitsAreNat
    <3>2. PICK k \in Nat : k = Longest
      BY LimitsAreNat
    <3>3. PICK o \in Nat : o = LastOrder
      BY LimitsAreNat
    <3>4. Coming(Prim, Stby, 0 - r)
      BY <2>1, ComingEarly, Pair
    <3>5. \A i \in 1..Len(link[Prim]) : OldLetter(link[Prim][i], r, 0)
      <4>1. link[Prim] = << >>
        BY Pair DEF Init
      <4>. QED BY <4>1
    <3>6. IsActive[Prim]
      BY Pair DEF Init, StartsActive
    <3>7. Joined(r, 0, sb.sinceOK)
      BY <1>2, <3>4, <3>5, <3>6 DEF Joined
    <3>8. seen.dark <= 0 + PairLimit
      BY <1>2, LimitsAreNat
    <3>. QED BY <1>2, <3>1, <3>7, <3>8 DEF Dark
  <2>. QED BY <2>2, <2>3 DEF Served
<1>. QED BY <1>1, <1>3, <1>4, <1>5 DEF DInv

(* Some gateway carries the traffic again within MaxDark seconds: without the *)
(* primary that is the time of the silence and the longest lap of the         *)
(* standby's states before it can take over (sync-roles.cpp:404); with it, the*)
(* primary's own time-out and two identifiers for each cut of the connection. *)
(* The cut-over time exceeds the interval of the identifiers and their delay; *)
(* nobody sets the roles by hand and no third gateway fills the buffer.       *)
THEOREM BlackoutEnds ==
  ASSUME Commands = {}, ~OtherSites, hotcutovertime >= ClusterInterval + MaxDelay + 2,
         MaxDark >= AloneLimit, MaxDark >= (MaxCuts + 1) * PairLimit
  PROVE  Spec => []BlackoutBounded
<1>1. Init => DInv
  BY FirstDark
<1>2. DInv /\ [Next]_vars => DInv'
  BY DarkNext
<1>3. DInv => BlackoutBounded
  <2>. SUFFICES ASSUME DInv PROVE seen.dark <= MaxDark
    BY DEF BlackoutBounded
  <2>1. TypeOK
    BY DEF DInv, IInv
  <2>2. PICK d \in Nat : d = seen.dark
    BY <2>1, DarkTyped
  <2>3. CASE Prim \in up
    <3>1. PICK p \in 0 .. faults.cuts * PairLimit : Dark(p)
      BY <2>3 DEF DInv, Served
    <3>2. PICK k \in Nat : k = PairLimit
      BY LimitsAreNat
    <3>3. PICK n \in Nat : n = faults.cuts /\ n <= MaxCuts
      BY <2>1, CutsTyped
    <3>4. PICK m \in Nat : m = MaxCuts
      BY Periods
    <3>5. \A i, j, l \in Nat : i * j \in Nat /\ (i + 1) * j = i * j + j /\ (i <= l => i * j <= l * j)
      OBVIOUS
    <3>6. n * k \in Nat /\ m * k \in Nat /\ n * k <= m * k /\ (m + 1) * k = m * k + k
      BY <3>3, <3>4, <3>5
    <3>7. d <= p + k /\ p \in Nat /\ p <= n * k
      BY <2>2, <3>1, <3>2, <3>3, <3>6 DEF Dark
    <3>8. MaxDark >= (m + 1) * k
      BY <3>2, <3>4
    <3>. DEFINE x == n * k
                y == m * k
                z == (m + 1) * k
    <3>9. x \in Nat /\ y \in Nat /\ x <= y /\ z = y + k /\ p <= x /\ MaxDark >= z
      BY <3>6, <3>7, <3>8
    <3>. HIDE DEF x, y, z
    <3>. QED BY <2>2, <3>7, <3>9, Periods
  <2>4. CASE Prim \notin up /\ Stby \in up
    <3>1. PICK l \in Nat : l = Left /\ l <= AloneLimit
      BY <2>1, BoundsHold DEF Bounds, DInv
    <3>2. PICK a \in Nat : a = AloneLimit
      BY LapConstants, Periods DEF AloneLimit
    <3>3. d + l <= a /\ a <= MaxDark
      BY <2>2, <2>4, <3>1, <3>2 DEF DInv, Alone
    <3>. QED BY <2>2, <3>3, Periods
  <2>5. CASE up = {}
    BY <2>5, Periods DEF DInv, Standing
  <2>. QED BY <2>1, <2>3, <2>4, <2>5, TypesSplit, Pair
<1>. QED BY <1>1, <1>2, <1>3, PTL DEF Spec
=================================================================================

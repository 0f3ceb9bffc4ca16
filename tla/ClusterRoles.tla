---------------------------- MODULE ClusterRoles ----------------------------
(***************************************************************************)
(* The hot-standby pair: which of the two gateways is active, how the      *)
(* standby detects a failed primary, takes over and hands back, and how it *)
(* copies the primary's tables meanwhile (sync-roles.cpp).                 *)
(*                                                                         *)
(* Time is the second, the unit of time(NULL).  DoClusterTasks does its    *)
(* work once a second on the main thread of each gateway (action names     *)
(* below are the states of its state machine); the Comm thread receives    *)
(* inter-site messages and sends the periodic site identifier.  Messages   *)
(* wait in the one-entry buffer NewSiteMessage between the two threads.    *)
(*                                                                         *)
(* Faults: a gateway may crash and be restarted, the connection may be cut *)
(* (what is in flight is lost, what is sent meanwhile is lost) and healed. *)
(***************************************************************************)
EXTENDS Integers, Sequences, FiniteSets

CONSTANTS
  Prim, Stby,          \* the two gateways
  None,                \* no message, no site name
  Other,               \* the name of any third Cigorn gateway
  \* periods, in seconds
  hotcutovertime,      \* silence after which the standby takes over
  ClusterInterval,     \* DEF_CLUSTER_INTERVAL
  ResponseTime,        \* TIME_FOR_RESPONSE
  CredentialTimeout,   \* CREDENTIAL_TIMEOUT
  CredentialFailMax,   \* CREDENTIAL_FAIL_MAX
  RetryDbxTime,        \* RETRY_DBX_TIME
  RebuildTime,         \* TIME_REBUILD_TABLES
  TakeOverWaitTime,    \* TAKEOVER_WAIT_TIME
  RemindTime,          \* TAKEOVER_REMIND_TIME
  HandoverDelay,       \* HANDOVER_DELAY_TIME
  RejectTime,          \* PRIMARY_TAKEOVER_REJECT_TIME
  MaxXMLready,         \* late responses after which one is cleared (10)
  \* the surroundings
  ConnectOutcomes,     \* what DBx.connect may answer, a subset of BOOLEAN
  ReadOutcomes,        \* what reading a table may answer, a subset of BOOLEAN
  RouteTableAllocated, \* dtRT points to a table; no code allocates it
  OtherSites,          \* a third gateway sends site identifiers to both
  Commands,            \* console commands in use: "takeover", "active"
  \* bounds
  MaxDelay,            \* most ticks a message spends on the connection
  MaxCrashes, MaxCuts, MaxReloads, MaxCommands,
  MaxDark,             \* the counters of seconds without service
  MaxBoth              \* and of seconds with both active saturate above these

Gateways == {Prim, Stby}

ASSUME NamesAssumption ==
  /\ Cardinality({Prim, Stby, None, Other}) = 4
  /\ ConnectOutcomes \in SUBSET BOOLEAN \ {{}}
  /\ ReadOutcomes \in SUBSET BOOLEAN \ {{}}
  /\ RouteTableAllocated \in BOOLEAN /\ OtherSites \in BOOLEAN
  /\ Commands \subseteq {"takeover", "active"}

ASSUME PeriodsAssumption ==
  /\ {hotcutovertime, ClusterInterval, RemindTime} \subseteq Nat \ {0}
  /\ {ResponseTime, CredentialTimeout, CredentialFailMax, RetryDbxTime,
      RebuildTime, TakeOverWaitTime, HandoverDelay, RejectTime,
      MaxXMLready, MaxDelay, MaxCrashes, MaxCuts, MaxReloads, MaxCommands,
      MaxDark, MaxBoth} \subseteq Nat

VARIABLES
  up,        \* gateways whose process runs
  IsActive,  \* Me.IsActive of each gateway
  slot,      \* NewSiteMessage of each gateway
  due,       \* gateways whose pass of this second is still to run
  sinceId,   \* seconds since LastIdentifier, of each gateway
  link,      \* what is in flight to each gateway: sequence of [body, age]
  linkUp,    \* the connection between the two gateways works
  pr,        \* the primary's own state
  sb,        \* the standby's own state
  faults,    \* budget spent on each kind of event
  seen       \* observation only: dark, seconds without an active gateway;
             \*   both, seconds with two that could talk to each other;
             \*   heard, the primary was heard since the standby began to take over
vars == <<up, IsActive, slot, due, sinceId, link, linkUp, pr, sb, faults, seen>>

-----------------------------------------------------------------------------
(* Data.  A flag is the time the primary's tables were last (re)loaded,    *)
(* counted 2, 3, ... here; 0 is the value before any was received, 1 what  *)
(* the receiver of a site identifier makes of one.                         *)

FirstFlag == 2
LastFlag == FirstFlag + MaxReloads + MaxCrashes
Flags == 0 .. LastFlag
Silence == 0 .. (hotcutovertime + 1)
Largest(S) == CHOOSE m \in S : \A n \in S : n <= m

\* Timers saturate one above the longest period they are compared with.
LongestIn == Largest({hotcutovertime + RetryDbxTime, RebuildTime,
                      TakeOverWaitTime, HandoverDelay, RemindTime}) + 1
LongestReq == Largest({ResponseTime, CredentialTimeout, RetryDbxTime}) + 1

StbySyncState ==
  {"Reset", "Startup", "FindPrimary", "Synchronizing", "RequestCredentials",
   "WaitForCredentials", "FailedToAccessDB", "ReceivedCredentials",
   "ConnenctToDB", "FailedReadTables", "MergeTables", "StoreTables",
   "ActivateTables", "CantContactPrimary", "WaitForPrimaryToFail",
   "TakingOver", "TakeOverWait", "RunActive", "HandBackOver"}

Sites == Gateways \union {Other}
SiteMessage == [from : Sites, isactive : BOOLEAN, flag : Flags]
ASSUME NoneAssumption == None \notin SiteMessage   \* an empty buffer holds no message
Body == [kind : {"site"}, msg : SiteMessage]
          \union [kind : {"query", "be_inactive", "be_active"}]
          \union [kind : {"reply"}, flag : Flags]

StandbyState ==
  [state     : StbySyncState,      \* MySyncState
   inState   : 0 .. LongestIn,   \* TimeInStateS
   sinceOK   : Silence,            \* time(NULL) - TimePrimaryHealthOK
   sinceReq  : 0 .. LongestReq,  \* StateTimer - RequestTime
   credFails : 0 .. CredentialFailMax + 1,
   credsOK   : BOOLEAN,            \* PrimaryCredentialsOK
   replyFlag : Flags,              \* DBmodifyflag
   lastFlag  : Flags,              \* LastDBmodFlag
   inSync    : BOOLEAN,            \* InSyncWithPrimary
   connected : BOOLEAN,            \* DBx.ConnectionOK
   routes    : Flags,              \* version held in dtRTx, 0 when empty
   others    : Flags,              \* version held in the other copies
   reload    : BOOLEAN,            \* reloadEDDTable
   heard     : BOOLEAN,            \* GateWays is not empty
   force     : BOOLEAN]            \* ForceTakeOver

PrimaryState ==
  [flag     : FirstFlag .. LastFlag,          \* Me.DBmodifyflag
   sinceMsg : 0 .. RejectTime + 1,  \* seconds since lastMessageTime
   standby  : {None, Stby},         \* StandbySiteName
   reply    : Flags,                \* MyXMLresponseToQuery, 0 when not ready
   ready    : 0 .. MaxXMLready]     \* XMLreadycount, never reset by a success

TypeOK ==
  /\ up \subseteq Gateways /\ due \subseteq up
  /\ IsActive \in [Gateways -> BOOLEAN]
  /\ slot \in [Gateways -> SiteMessage \union {None}]
  /\ sinceId \in [Gateways -> 0 .. ClusterInterval + 1]
  /\ link \in [Gateways -> Seq([body : Body, age : 0 .. MaxDelay])]
  /\ linkUp \in BOOLEAN
  /\ pr \in PrimaryState /\ sb \in StandbyState
  /\ faults \in [crashes : 0 .. MaxCrashes, cuts : 0 .. MaxCuts,
                 reloads : 0 .. MaxReloads, commands : 0 .. MaxCommands]
  /\ seen \in [dark : 0 .. MaxDark + 1, both : 0 .. MaxBoth + 1, heard : BOOLEAN]

NeverSaturates(n, most) == n + 1   \* mutant: the timer has no end
Later(n, most) == IF n < most THEN n + 1 ELSE n

-----------------------------------------------------------------------------
(* Start and restart of a gateway: the globals and the statics of          *)
(* DoClusterTasks.  A primary starts active, a standby inactive.           *)

FreshStandby ==
  [state |-> "Reset", inState |-> 0, sinceOK |-> 0, sinceReq |-> 0,
   credFails |-> 0, credsOK |-> FALSE, replyFlag |-> 0, lastFlag |-> 0,
   inSync |-> FALSE, connected |-> FALSE, routes |-> 0, others |-> 0,
   reload |-> FALSE, heard |-> FALSE, force |-> FALSE]

FreshPrimary(flag) ==
  [flag |-> flag, sinceMsg |-> 0, standby |-> None, reply |-> 0, ready |-> 0]

StartsActive(g) == g = Prim

Init ==
  /\ up = Gateways
  /\ IsActive = [g \in Gateways |-> StartsActive(g)]
  /\ slot = [g \in Gateways |-> None]
  /\ due = Gateways
  /\ sinceId = [g \in Gateways |-> 0]
  /\ link = [g \in Gateways |-> <<>>]
  /\ linkUp = TRUE
  /\ pr = FreshPrimary(FirstFlag)
  /\ sb = FreshStandby
  /\ faults = [crashes |-> 0, cuts |-> 0, reloads |-> 0, commands |-> 0]
  /\ seen = [dark |-> 0, both |-> 0, heard |-> TRUE]

-----------------------------------------------------------------------------
(* The connection between the gateways, port CIGSERVPORT.                  *)

\* What is sent while the peer is down or the connection cut is lost.
Send(g, body) ==
  link' = IF linkUp THEN [link EXCEPT ![g] = Append(@, [body |-> body, age |-> 0])]
                    ELSE link

SendNothing == UNCHANGED link

Peer(g) == CHOOSE h \in Gateways : h # g

\* SendIdentifier, from the Comm loop of either gateway.
SendIdentifier(g) ==
  /\ g \in up /\ sinceId[g] > ClusterInterval
  /\ sinceId' = [sinceId EXCEPT ![g] = 0]
  /\ Send(Peer(g), [kind |-> "site",
                    msg |-> [from |-> g, isactive |-> IsActive[g], flag |-> pr.flag]])
  /\ UNCHANGED <<up, IsActive, slot, due, linkUp, pr, sb, faults, seen>>

(* InterSiteMessageIn, on the Comm thread of the receiver.                 *)

\* ProcessInterSiteXML reads the flag with IsStringTrue: a time in seconds
\* begins with the digit 1 and becomes TRUE.
ParsedFlag(flag) == IF flag >= FirstFlag THEN 1 ELSE 0

SiteMessageIn(g, body) ==
  /\ body.kind = "site"
  /\ slot' = [slot EXCEPT ![g] = [body.msg EXCEPT !.flag = ParsedFlag(@)]]
  /\ pr' = IF g = Prim THEN [pr EXCEPT !.standby = body.msg.from] ELSE pr
  /\ sb' = IF g = Stby THEN [sb EXCEPT !.heard = TRUE] ELSE sb
  /\ seen' = IF g = Stby THEN [seen EXCEPT !.heard = TRUE] ELSE seen
  /\ UNCHANGED IsActive

\* A query that finds the response buffer in use empties it.
QueryIn(g, body) ==
  /\ body.kind = "query" /\ g = Prim
  /\ pr' = [pr EXCEPT !.reply = IF @ = 0 THEN pr.flag ELSE 0]
  /\ UNCHANGED <<slot, sb, IsActive, seen>>

ReplyIn(g, body) ==
  /\ body.kind = "reply" /\ g = Stby
  /\ sb' = [sb EXCEPT !.credsOK = TRUE, !.replyFlag = body.flag, !.heard = TRUE]
  /\ UNCHANGED <<slot, pr, IsActive, seen>>

CommandIn(g, body) ==
  /\ body.kind \in {"be_inactive", "be_active"} /\ g = Prim
  /\ IsActive' = [IsActive EXCEPT ![g] = (body.kind = "be_active")]
  /\ UNCHANGED <<slot, pr, sb, seen>>

InterSiteMessageIn(g) ==
  /\ g \in up /\ link[g] # <<>>
  /\ LET body == Head(link[g]).body
     IN  \/ SiteMessageIn(g, body) \/ QueryIn(g, body)
         \/ ReplyIn(g, body) \/ CommandIn(g, body)
  /\ link' = [link EXCEPT ![g] = Tail(@)]
  /\ UNCHANGED <<up, due, sinceId, linkUp, faults>>

\* A third gateway's identifier arrives through an ordinary device.
OtherSiteMessageIn(g) ==
  /\ OtherSites /\ g \in up
  /\ \E b \in BOOLEAN :
       slot' = [slot EXCEPT ![g] = [from |-> Other, isactive |-> b, flag |-> 1]]
  /\ sb' = IF g = Stby THEN [sb EXCEPT !.heard = TRUE] ELSE sb
  /\ UNCHANGED <<up, IsActive, due, sinceId, link, linkUp, pr, faults, seen>>

-----------------------------------------------------------------------------
(* The primary's main thread.                                              *)

\* The top of DoClusterTasks, run in every turn of the main loop.
SendReply ==
  /\ Prim \in up /\ pr.reply # 0
  /\ Send(Stby, [kind |-> "reply", flag |-> pr.reply])
  /\ pr' = [pr EXCEPT !.reply = 0]
  /\ UNCHANGED <<up, IsActive, slot, due, sinceId, linkUp, sb, faults, seen>>

NoActiveGateway(msg) == ~msg.isactive /\ msg.from = pr.standby

NeverSilent == FALSE   \* mutant: the primary waits for the standby for ever
StandbySilent == pr.sinceMsg > RejectTime

\* A response stored after the top of the pass is still there at its end; the
\* watchdog clears one when it has found MaxXMLready earlier.
Watchdog(p) ==
  IF p.reply = 0 THEN p
  ELSE IF p.ready < MaxXMLready THEN [p EXCEPT !.ready = @ + 1]
  ELSE [p EXCEPT !.reply = 0, !.ready = 0]

\* The Primary branch, once a second.
PrimaryPass ==
  /\ Prim \in due /\ due' = due \ {Prim}
  /\ pr' = Watchdog([pr EXCEPT !.sinceMsg = IF slot[Prim] # None THEN 0 ELSE @])
  /\ IsActive' = [IsActive EXCEPT ![Prim] =
       \/ @
       \/ slot[Prim] # None /\ NoActiveGateway(slot[Prim])
       \/ slot[Prim] = None /\ StandbySilent]
  /\ slot' = [slot EXCEPT ![Prim] = None]
  /\ UNCHANGED <<up, sinceId, link, linkUp, sb, faults, seen>>

\* Operator: the tables are edited and read again ("reload ...").
ReloadPrimaryTables ==
  /\ Prim \in up /\ faults.reloads < MaxReloads
  /\ faults' = [faults EXCEPT !.reloads = @ + 1]
  /\ pr' = [pr EXCEPT !.flag = @ + 1]
  /\ UNCHANGED <<up, IsActive, slot, due, sinceId, link, linkUp, sb, seen>>

-----------------------------------------------------------------------------
(* The standby's main thread.  Each pass first takes NewSiteMessage, then  *)
(* runs the case of MySyncState.  SecondsSincePrimaryOK was computed before*)
(* the message was taken: the cases read sb.sinceOK, not ReadSlot.sinceOK. *)

AnySender == slot[Stby] # None   \* mutant: the name is not looked at
FromPrimary == slot[Stby] # None /\ slot[Stby].from = Prim

TablesChanged == FromPrimary /\ slot[Stby].flag # sb.lastFlag

ReadSlot ==
  [sb EXCEPT !.sinceOK  = IF FromPrimary THEN 0 ELSE @,
             !.lastFlag = IF TablesChanged THEN slot[Stby].flag ELSE @,
             !.inSync   = @ /\ ~TablesChanged,
             !.heard    = @ \/ slot[Stby] # None]

\* A change of state restarts NewStateTime.
Settle(new) == IF new.state = sb.state THEN new ELSE [new EXCEPT !.inState = 0]

StandbyPass(state, new) ==
  /\ sb.state = state
  /\ Stby \in due /\ due' = due \ {Stby}
  /\ sb' = Settle(new)
  /\ slot' = [slot EXCEPT ![Stby] = None]
  /\ UNCHANGED <<up, sinceId, linkUp, pr, faults>>

Quietly == SendNothing /\ UNCHANGED <<IsActive, seen>>

Reset ==
  /\ StandbyPass("Reset",
       [ReadSlot EXCEPT !.state = "Startup", !.routes = 0, !.others = 0,
                        !.inSync = FALSE, !.sinceOK = 0, !.credFails = 0])
  /\ Quietly

Startup ==
  /\ StandbyPass("Startup",
       [ReadSlot EXCEPT !.state = "FindPrimary", !.sinceReq = 0])
  /\ Quietly

FindPrimary ==
  /\ StandbyPass("FindPrimary",
       [ReadSlot EXCEPT !.state =
          IF sb.sinceReq > ResponseTime THEN "CantContactPrimary"
          ELSE IF ReadSlot.heard THEN "RequestCredentials" ELSE @])
  /\ Quietly

RequestCredentials ==
  /\ StandbyPass("RequestCredentials",
       [ReadSlot EXCEPT !.state = "WaitForCredentials", !.sinceReq = 0])
  /\ Send(Prim, [kind |-> "query"])
  /\ UNCHANGED <<IsActive, seen>>

\* An answer restarts RequestTime before the time-out is tested, so one pass
\* takes only one of the two.
CredentialsIn ==
  [ReadSlot EXCEPT !.state = "ReceivedCredentials", !.sinceReq = 0,
                   !.lastFlag = sb.replyFlag, !.credFails = 0]

CredentialsLate ==
  [ReadSlot EXCEPT
     !.credFails = IF @ > CredentialFailMax THEN @ ELSE @ + 1,
     !.state = IF sb.credFails + 1 > CredentialFailMax
               THEN "WaitForPrimaryToFail" ELSE "Startup"]

WaitForCredentials ==
  /\ StandbyPass("WaitForCredentials",
       IF sb.credsOK THEN CredentialsIn
       ELSE IF sb.sinceReq > CredentialTimeout THEN CredentialsLate
       ELSE ReadSlot)
  /\ Quietly

ReceivedCredentials ==
  /\ StandbyPass("ReceivedCredentials", [ReadSlot EXCEPT !.state = "ConnenctToDB"])
  /\ Quietly

ConnenctToDB ==
  /\ \E ok \in IF sb.connected THEN {TRUE} ELSE ConnectOutcomes :
       StandbyPass("ConnenctToDB",
         [ReadSlot EXCEPT !.connected = ok,
            !.state = IF sb.sinceReq > RetryDbxTime THEN "FailedToAccessDB"
                      ELSE IF ok THEN "Synchronizing" ELSE @])
  /\ Quietly

FailedToAccessDB ==
  /\ \E ok \in ConnectOutcomes :
       StandbyPass("FailedToAccessDB",
         [ReadSlot EXCEPT !.connected = ok,
            !.state = IF ok THEN "Synchronizing" ELSE "WaitForPrimaryToFail"])
  /\ Quietly

\* A read that fails leaves the copy as it was.  Only an empty routes copy
\* counts as a failure: LoadTable returns bool, compared with < 0.
AllRead(routes, others) == routes # 0

Synchronizing ==
  /\ \E r, o \in ReadOutcomes :
       LET routes == IF r THEN pr.flag ELSE sb.routes
           others == IF o THEN pr.flag ELSE sb.others
           ok     == AllRead(routes, others)
       IN  StandbyPass("Synchronizing",
             [ReadSlot EXCEPT !.routes = routes, !.others = others, !.inSync = ok,
                !.state = IF ok THEN "MergeTables" ELSE "FailedReadTables"])
  /\ Quietly

FailedReadTables ==
  /\ StandbyPass("FailedReadTables",
       [ReadSlot EXCEPT !.state = "WaitForPrimaryToFail", !.connected = FALSE])
  /\ Quietly

\* A stopped process loses everything but the tables in its database.
Stop(g) ==
  /\ up' = up \ {g} /\ due' = due \ {g}
  /\ IsActive' = [IsActive EXCEPT ![g] = FALSE]
  /\ slot' = [slot EXCEPT ![g] = None]
  /\ sinceId' = [sinceId EXCEPT ![g] = 0]
  /\ linkUp' = FALSE /\ link' = [h \in Gateways |-> <<>>]
  /\ pr' = IF g = Prim THEN FreshPrimary(pr.flag) ELSE pr
  /\ sb' = IF g = Stby THEN FreshStandby ELSE sb
  /\ seen' = [seen EXCEPT !.dark = 0]

\* dtRT->Import(dtRTx) through a null pointer: the process dies.
MergeCrash ==
  /\ ~RouteTableAllocated /\ sb.state = "MergeTables" /\ Stby \in due
  /\ Stop(Stby) /\ UNCHANGED faults

MergeTables ==
  /\ RouteTableAllocated
  /\ StandbyPass("MergeTables", [ReadSlot EXCEPT !.state = "StoreTables"])
  /\ Quietly

StoreTables ==
  /\ StandbyPass("StoreTables",
       [ReadSlot EXCEPT !.state = "ActivateTables", !.reload = TRUE])
  /\ Quietly

ActivateTables ==
  /\ StandbyPass("ActivateTables",
       [ReadSlot EXCEPT !.state =
          IF ~sb.reload \/ sb.inState > RebuildTime
          THEN "WaitForPrimaryToFail" ELSE @])
  /\ Quietly

CantContactPrimary ==
  /\ StandbyPass("CantContactPrimary",
       [ReadSlot EXCEPT !.state = "WaitForPrimaryToFail"])
  /\ Quietly

LostTooEarly == sb.sinceOK >= hotcutovertime   \* mutant: off by one
PrimaryLost == sb.sinceOK > hotcutovertime

\* mutant: RunActive does not test
BackOrActive == sb.sinceOK < hotcutovertime \/ sb.state = "RunActive"
PrimaryBack == sb.sinceOK < hotcutovertime

RetrySync == ~ReadSlot.inSync /\ sb.inState > hotcutovertime + RetryDbxTime

WaitForPrimaryToFail ==
  /\ StandbyPass("WaitForPrimaryToFail",
       [ReadSlot EXCEPT !.force = FALSE,
          !.state = IF RetrySync THEN "Startup"
                    ELSE IF PrimaryLost \/ sb.force THEN "TakingOver" ELSE @])
  /\ Quietly

TakingOver ==
  /\ StandbyPass("TakingOver", [ReadSlot EXCEPT !.state = "TakeOverWait"])
  /\ Send(Prim, [kind |-> "be_inactive"])
  /\ seen' = [seen EXCEPT !.heard = FALSE]
  /\ UNCHANGED IsActive

\* Both tests run in the same pass: going active does not stop the second
\* one from returning to Startup.
TakeOverWait ==
  /\ StandbyPass("TakeOverWait",
       [ReadSlot EXCEPT !.state =
          IF PrimaryBack THEN "Startup"
          ELSE IF sb.inState > TakeOverWaitTime THEN "RunActive" ELSE @])
  /\ IsActive' = [IsActive EXCEPT ![Stby] = @ \/ sb.inState > TakeOverWaitTime]
  /\ SendNothing
  /\ UNCHANGED seen

RunActive ==
  /\ StandbyPass("RunActive",
       [ReadSlot EXCEPT !.state = IF PrimaryBack THEN "HandBackOver" ELSE @])
  /\ IF sb.inState % RemindTime = 1
     THEN Send(Prim, [kind |-> "be_inactive"]) ELSE SendNothing
  /\ UNCHANGED <<IsActive, seen>>

WaitedForCutover == sb.inState > hotcutovertime + RetryDbxTime   \* mutant: wrong period
WaitedForHandover == sb.inState > HandoverDelay

HandBackOver ==
  /\ StandbyPass("HandBackOver",
       [ReadSlot EXCEPT !.state = IF WaitedForHandover THEN "Startup" ELSE @])
  /\ IF WaitedForHandover
     THEN /\ IsActive' = [IsActive EXCEPT ![Stby] = FALSE]
          /\ Send(Prim, [kind |-> "be_active"])
     ELSE UNCHANGED IsActive /\ SendNothing
  /\ UNCHANGED seen

StandbyStep ==
  \/ Reset \/ Startup \/ FindPrimary \/ RequestCredentials \/ WaitForCredentials
  \/ ReceivedCredentials \/ ConnenctToDB \/ FailedToAccessDB \/ Synchronizing
  \/ FailedReadTables \/ MergeTables \/ MergeCrash \/ StoreTables \/ ActivateTables
  \/ CantContactPrimary \/ WaitForPrimaryToFail \/ TakingOver \/ TakeOverWait
  \/ RunActive \/ HandBackOver

\* The Comm thread has reloaded the device tables.
TablesReloaded ==
  /\ Stby \in up /\ sb.reload
  /\ sb' = [sb EXCEPT !.reload = FALSE]
  /\ UNCHANGED <<up, IsActive, slot, due, sinceId, link, linkUp, pr, faults, seen>>

\* Console: "set takeover true", "set active true|false".
Command(name) ==
  /\ name \in Commands /\ faults.commands < MaxCommands
  /\ faults' = [faults EXCEPT !.commands = @ + 1]

ForceTakeOver ==
  /\ Command("takeover") /\ Stby \in up
  /\ sb' = [sb EXCEPT !.force = TRUE]
  /\ UNCHANGED <<up, IsActive, slot, due, sinceId, link, linkUp, pr, seen>>

SetActive(g) ==
  /\ Command("active") /\ g \in up
  /\ \E b \in BOOLEAN : IsActive' = [IsActive EXCEPT ![g] = b]
  /\ UNCHANGED <<up, slot, due, sinceId, link, linkUp, pr, sb, seen>>

-----------------------------------------------------------------------------
(* Faults and time.                                                        *)

Crash(g) ==
  /\ g \in up /\ faults.crashes < MaxCrashes
  /\ faults' = [faults EXCEPT !.crashes = @ + 1]
  /\ Stop(g)

Restart(g) ==
  /\ g \notin up
  /\ up' = up \union {g} /\ due' = due \union {g}
  /\ IsActive' = [IsActive EXCEPT ![g] = StartsActive(g)]
  /\ pr' = IF g = Prim THEN [pr EXCEPT !.flag = Later(@, LastFlag)] ELSE pr
  /\ seen' = [seen EXCEPT !.dark = 0]
  /\ UNCHANGED <<slot, sinceId, link, linkUp, sb, faults>>

CutLink ==
  /\ linkUp /\ faults.cuts < MaxCuts
  /\ faults' = [faults EXCEPT !.cuts = @ + 1]
  /\ linkUp' = FALSE
  /\ link' = [g \in Gateways |-> <<>>]
  /\ UNCHANGED <<up, IsActive, slot, due, sinceId, pr, sb, seen>>

HealLink ==
  /\ ~linkUp /\ up = Gateways /\ linkUp' = TRUE
  /\ UNCHANGED <<up, IsActive, slot, due, sinceId, link, pr, sb, faults, seen>>

\* A message is delivered at most MaxDelay ticks after it was sent, and the
\* loops of both threads turn many times a second.
NothingPending ==
  /\ due = {}
  /\ \A g \in Gateways : sinceId[g] <= ClusterInterval
  /\ \A g \in Gateways : \A i \in DOMAIN link[g] : link[g][i].age < MaxDelay
  /\ pr.reply = 0

\* While RunActive, only TimeInStateS modulo the reminder period is looked at.
NextInState ==
  IF sb.state = "RunActive" THEN (sb.inState + 1) % RemindTime
                            ELSE Later(sb.inState, LongestIn)

Covered == \E g \in Gateways : IsActive[g]

SplitBrain ==
  /\ linkUp /\ up = Gateways /\ \A g \in Gateways : IsActive[g]
  /\ sb.state \in {"RunActive", "HandBackOver"}

Tick ==
  /\ NothingPending
  /\ due' = up
  /\ sinceId' = [g \in Gateways |->
       IF g \in up THEN Later(sinceId[g], ClusterInterval + 1) ELSE 0]
  /\ link' = [g \in Gateways |->
                [i \in DOMAIN link[g] |-> [link[g][i] EXCEPT !.age = @ + 1]]]
  /\ pr' = IF Prim \in up THEN [pr EXCEPT !.sinceMsg = Later(@, RejectTime + 1)]
                           ELSE pr
  /\ sb' = IF Stby \in up
           THEN [sb EXCEPT !.inState = NextInState,
                           !.sinceOK = Later(@, hotcutovertime + 1),
                           !.sinceReq = Later(@, LongestReq)]
           ELSE sb
  /\ seen' = [seen EXCEPT
       !.dark = IF Covered \/ up = {} THEN 0 ELSE Later(@, MaxDark + 1),
       !.both = IF SplitBrain THEN Later(@, MaxBoth + 1) ELSE 0]
  /\ UNCHANGED <<up, IsActive, slot, linkUp, faults>>

CommStep == \E g \in Gateways : SendIdentifier(g) \/ InterSiteMessageIn(g)

Fault == \/ \E g \in Gateways : Crash(g) \/ Restart(g)
         \/ CutLink \/ HealLink

Operator == \/ ReloadPrimaryTables \/ ForceTakeOver
            \/ \E g \in Gateways : SetActive(g)

Next ==
  \/ CommStep \/ SendReply \/ PrimaryPass \/ StandbyStep \/ TablesReloaded
  \/ Tick \/ Operator \/ Fault
  \/ \E g \in Gateways : OtherSiteMessageIn(g)

Spec == Init /\ [][Next]_vars

-----------------------------------------------------------------------------
(* Properties.                                                             *)

\* As long as a gateway runs, one that does is active again within MaxDark
\* seconds: take over, hand back and the primary's own time-out never leave
\* both gateways waiting for each other for longer.
BlackoutBounded == seen.dark <= MaxDark

\* The standby hands the active role back only to a primary it has heard from
\* since it began to take over (HandBackOver).
HandBackOnlyToAPrimaryHeard ==
  [][sb.state = "HandBackOver" /\ sb'.state = "Startup" => seen.heard]_vars

\* While the gateways can talk both are active together for at most MaxBoth
\* seconds: a standby that has taken over hears the primary, waits and yields.
\* (The one that is active while it waits is WaitingIsInactive, below.)
SplitBrainBounded == seen.both <= MaxBoth

\* A primary that never misses a period is left alone: without faults the
\* standby never takes the active role and never takes it from the primary.
HealthyPrimaryKept == IsActive[Prim] /\ ~IsActive[Stby]

\* sync-roles.cpp:157: the standby loses its synchronisation when "the Primary
\* DB has updated a table and we need to re-sync to it".
SyncLostOnlyByChange ==
  [][sb.inSync /\ ~sb'.inSync => sb.state = "Reset" \/ sb.routes # pr.flag]_vars

\* sync-roles.cpp:404: "Wait here for Primary to go down, or a change in a
\* table. We are not active."
WaitingIsInactive == sb.state = "WaitForPrimaryToFail" => ~IsActive[Stby]
====

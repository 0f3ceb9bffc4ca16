------------------------------- MODULE Router -------------------------------
(* The router (Router.cpp) and the protocol translator (Translator.cpp): one *)
(* message at a time is taken through the entries of the route table, which  *)
(* stays locked meanwhile, and every match is translated, compared with the  *)
(* history of what was routed in the last seconds, and sent or dropped.      *)
(*                                                                           *)
(* The body of a message is its text and the sequence number of the WMX      *)
(* frame around it, Bare when there is none.  The history keeps only a hash  *)
(* of the body and the destination, so two of them may be taken for one.     *)
(* Times are ages in seconds, kept up to the largest the code compares with. *)
EXTENDS Integers, Sequences, FiniteSets

CONSTANTS Designators,      \* destinations in the device list
          Terminals,        \* those of type dTerminal
          Modems,           \* those of type dWMXmodem or dTAP
          Texts,            \* contents of messages
          LongTexts,        \* those a WMX frame has no room for
          Messages,         \* messages received
          Entries,          \* entries added to the route table
          NoMessage,
          NoEntry,          \* what operator[] puts at an index without an entry
          Builders,         \* threads that add routes: main, console
          Hash(_, _),       \* ddhash of a body and a destination
          MaxHash,          \* bound: the largest hash
          WMX_MAX_SEQUENCE,
          DUPTIMEOUT, OLDESENTRY, MAXROUTEHISTORY,
          MaxRoutes         \* bound: indices of the route table

Formats == {"ALL", "WMX", "PRAVE", "NMEA", "ASCII", "PageASCII", "WMXPOCSAG"}
Bare == -1
Bodies == [text : Texts, seq : Bare..WMX_MAX_SEQUENCE]
Hashes == 0..MaxHash
Message == [format : Formats, body : Bodies, src : Designators, id : Nat, was : Formats]
Entry == [format : Formats, srcs : SUBSET Designators, ids : SUBSET Nat, dst : STRING]

ASSUME RouterAssumption ==
  /\ Terminals \cap Modems = {}
  /\ WMX_MAX_SEQUENCE \in Nat /\ MaxHash \in Nat
  /\ Messages \subseteq Message /\ NoMessage \notin Message
  /\ Entries \subseteq Entry /\ NoEntry \notin Entry
  /\ DUPTIMEOUT \in Nat /\ OLDESENTRY \in Nat /\ DUPTIMEOUT <= OLDESENTRY \div 2
  /\ MAXROUTEHISTORY \in Nat /\ MaxRoutes \in Nat

\* ddhash sums and shifts the bytes: nothing is assumed but its range.
ASSUME HashAssumption ==
  \A b \in Bodies, d \in Designators : Hash(b, d) \in Hashes

VARIABLES
  RouteTable,          \* map from indices to entries
  newIndex,            \* index AddRoute of each builder has computed, 0 for none
  RecentRoutes,        \* age of the history entry of each hash, Absent when there is none
  translatorSequence,  \* number of the next frame
  msg,                 \* message being routed; was = the format it came with
  at,                  \* entry of the table it has reached, 0 between messages
  due,                 \* the once-a-second routines of Comm are due
  out,                 \* what the last step did with a message, NoOutcome if nothing
  lastSent,            \* age of the last message sent with each hash
  lastChecked,         \* the same, of the last one the filter checks
  evicted              \* hashes dropped from a full history since they were stored

vars == <<RouteTable, newIndex, RecentRoutes, translatorSequence, msg, at, due,
          out, lastSent, lastChecked, evicted>>
history == <<lastSent, lastChecked, evicted>>
tables == <<RouteTable, newIndex>>

MaxAge == OLDESENTRY + 1
Absent == MaxAge + 1
Ages == 0..MaxAge

NoOutcome == [sent |-> FALSE, checked |-> FALSE, since |-> 0, sinceChecked |-> 0, forgotten |-> FALSE]
Outcomes == [sent : BOOLEAN, checked : BOOLEAN, since : Ages, sinceChecked : Ages, forgotten : BOOLEAN]

TableOK ==
  /\ RouteTable \in [DOMAIN RouteTable -> Entry \cup {NoEntry}]
  /\ DOMAIN RouteTable \subseteq Nat \ {0} /\ IsFiniteSet(DOMAIN RouteTable)

TypeOK ==
  /\ TableOK
  /\ newIndex \in [Builders -> Nat]
  /\ RecentRoutes \in [Hashes -> 0..Absent]
  /\ translatorSequence \in 0..WMX_MAX_SEQUENCE
  /\ msg \in Message \cup {NoMessage}
  /\ at \in Nat /\ (at # 0 => msg # NoMessage)
  /\ due \in BOOLEAN
  /\ out \in Outcomes
  /\ lastSent \in [Hashes -> Ages] /\ lastChecked \in [Hashes -> Ages]
  /\ evicted \subseteq Hashes

Init ==
  /\ RouteTable = <<>> /\ newIndex = [b \in Builders |-> 0]
  /\ RecentRoutes = [h \in Hashes |-> Absent]
  /\ translatorSequence = 0
  /\ msg = NoMessage /\ at = 0
  /\ due = FALSE
  /\ out = NoOutcome
  /\ lastSent = [h \in Hashes |-> MaxAge] /\ lastChecked = [h \in Hashes |-> MaxAge]
  /\ evicted = {}

-----------------------------------------------------------------------------
(* The duplicate filter.                                                     *)

Stored(r) == {h \in Hashes : r[h] # Absent}
Smallest(S) == {h \in S : \A g \in S : h <= g}

CheckForDup(format) == format \notin {"NMEA", "ASCII", "PageASCII", "WMXPOCSAG"}

IsRecentStrict(h) == RecentRoutes[h] < DUPTIMEOUT    \* mutant
IsRecent(h) == RecentRoutes[h] <= DUPTIMEOUT

\* Only a message that is not in the history is stored, so a duplicate does
\* not prolong the time its hash is suppressed.
RememberAlways(h) == [RecentRoutes EXCEPT ![h] = 0]  \* mutant
Remember(h) == IF IsRecent(h) THEN RecentRoutes ELSE [RecentRoutes EXCEPT ![h] = 0]

\* A history over its limit loses its smallest hash, whatever its age.
NothingTrimmed(r) == {}                              \* mutant
Trimmed(r) ==
  IF Cardinality(Stored(r)) > MAXROUTEHISTORY THEN Smallest(Stored(r)) ELSE {}
Trim(r) == [h \in Hashes |-> IF h \in Trimmed(r) THEN Absent ELSE r[h]]

-----------------------------------------------------------------------------
(* RouteMSG, one index of the table at a time.  The loop reads the map with  *)
(* operator[], which inserts an entry that matches nothing where there is    *)
(* none; insert, on the other hand, keeps the entry that is there.           *)

Size == Cardinality(DOMAIN RouteTable)
With(i, e) ==
  [j \in DOMAIN RouteTable \cup {i} |-> IF j \in DOMAIN RouteTable THEN RouteTable[j] ELSE e]
Here == With(at, NoEntry)[at]

Pertains(e, format) ==
  /\ e # NoEntry
  /\ e.format \in {format, "ALL"}
  /\ msg.src \in e.srcs /\ msg.id \in e.ids
  /\ e.dst \in Designators

DoRouting(m) ==
  /\ at = 0 /\ m.format \in {"ASCII", "PRAVE", "WMX", "PageASCII", "WMXPOCSAG"}
  /\ msg' = m /\ at' = 1
  /\ out' = NoOutcome
  /\ UNCHANGED <<RecentRoutes, translatorSequence, due>> /\ UNCHANGED tables /\ UNCHANGED history

NextEntry ==
  /\ at # 0 /\ at <= Size /\ at' = at + 1
  /\ RouteTable' = With(at, NoEntry)

SkipEntry ==
  /\ NextEntry /\ ~Pertains(Here, msg.format)
  /\ out' = NoOutcome
  /\ UNCHANGED <<newIndex, RecentRoutes, translatorSequence, msg, due>> /\ UNCHANGED history

\* A terminal gets the text of a WMX frame.  The message itself is changed, so
\* the entries after this one see an ASCII message.
Unwrapped(dst) ==
  IF dst \in Terminals /\ msg.format = "WMX"
  THEN [msg EXCEPT !.format = "ASCII", !.body = [text |-> msg.body.text, seq |-> Bare]]
  ELSE msg

\* A modem gets ASCII text in a frame with a number of its own.
MustWrap(dst) == dst \in Modems /\ msg.format = "ASCII"
CanWrap(dst) == MustWrap(dst) /\ msg.body.text \notin LongTexts

ProtocolTranslate(dst) ==
  IF CanWrap(dst)
  THEN [msg EXCEPT !.format = "WMX", !.body = [text |-> msg.body.text, seq |-> translatorSequence]]
  ELSE Unwrapped(dst)

SequenceBeyond == translatorSequence + 1             \* mutant: never wraps
NextSequence ==
  IF translatorSequence + 1 > WMX_MAX_SEQUENCE THEN 0 ELSE translatorSequence + 1

RouteEntry ==
  /\ NextEntry /\ Pertains(Here, msg.format)
  /\ LET dst     == Here.dst
         xmsg    == ProtocolTranslate(dst)
         h       == Hash(xmsg.body, dst)
         checked == CheckForDup(xmsg.format)
         sent    == ~IsRecent(h) \/ ~checked
         kept    == Remember(h)
     IN  /\ msg' = Unwrapped(dst)
         /\ translatorSequence' = IF MustWrap(dst) THEN NextSequence ELSE translatorSequence
         /\ RecentRoutes' = Trim(kept)
         /\ out' = [sent |-> sent, checked |-> checked, since |-> lastSent[h],
                    sinceChecked |-> lastChecked[h], forgotten |-> h \in evicted]
         /\ lastSent' = IF sent THEN [lastSent EXCEPT ![h] = 0] ELSE lastSent
         /\ lastChecked' = IF sent /\ checked THEN [lastChecked EXCEPT ![h] = 0] ELSE lastChecked
         /\ evicted' = (IF IsRecent(h) THEN evicted ELSE evicted \ {h}) \cup Trimmed(kept)
  /\ UNCHANGED <<newIndex, due>>

TableScanned ==
  /\ at > Size
  /\ at' = 0 /\ msg' = NoMessage
  /\ out' = NoOutcome
  /\ UNCHANGED <<RecentRoutes, translatorSequence, due>> /\ UNCHANGED tables /\ UNCHANGED history

-----------------------------------------------------------------------------
(* BuildRouteTable, of main or of the console, clears the table and adds the *)
(* routes; the console also adds single ones.  The index of a new entry is   *)
(* computed before the table is locked.                                      *)

ClearAll ==
  /\ at = 0 /\ RouteTable' = <<>>
  /\ out' = NoOutcome
  /\ UNCHANGED <<newIndex, RecentRoutes, translatorSequence, msg, at, due>> /\ UNCHANGED history

AddRoute(b) ==
  /\ newIndex[b] = 0 /\ Size < MaxRoutes
  /\ newIndex' = [newIndex EXCEPT ![b] = Size + 1]
  /\ out' = NoOutcome
  /\ UNCHANGED <<RouteTable, RecentRoutes, translatorSequence, msg, at, due>> /\ UNCHANGED history

InsertRoute(b, e) ==
  /\ at = 0 /\ newIndex[b] # 0
  /\ RouteTable' = With(newIndex[b], e)
  /\ newIndex' = [newIndex EXCEPT ![b] = 0]
  /\ out' = NoOutcome
  /\ UNCHANGED <<RecentRoutes, translatorSequence, msg, at, due>> /\ UNCHANGED history

\* Comm cleans the history once a second.
TooOld ==
  IF Cardinality(Stored(RecentRoutes)) > MAXROUTEHISTORY THEN OLDESENTRY \div 2 ELSE OLDESENTRY

Cleaned == [h \in Hashes |-> IF RecentRoutes[h] > TooOld THEN Absent ELSE RecentRoutes[h]]

CleanMessageMap ==
  /\ at = 0 /\ due /\ due' = FALSE
  /\ RecentRoutes' = Trim(Cleaned)
  /\ evicted' = evicted \cup Trimmed(Cleaned)
  /\ out' = NoOutcome
  /\ UNCHANGED <<translatorSequence, msg, at, lastSent, lastChecked>> /\ UNCHANGED tables

Older(age) == IF age < MaxAge THEN age + 1 ELSE age

Tick ==
  /\ RecentRoutes' = [h \in Hashes |-> Older(RecentRoutes[h])]
  /\ lastSent' = [h \in Hashes |-> Older(lastSent[h])]
  /\ lastChecked' = [h \in Hashes |-> Older(lastChecked[h])]
  /\ due' = TRUE
  /\ out' = NoOutcome
  /\ UNCHANGED <<translatorSequence, msg, at, evicted>> /\ UNCHANGED tables

Next ==
  \/ \E m \in Messages : DoRouting(m)
  \/ SkipEntry \/ RouteEntry \/ TableScanned
  \/ ClearAll
  \/ \E b \in Builders : AddRoute(b) \/ \E e \in Entries : InsertRoute(b, e)
  \/ CleanMessageMap \/ Tick

Spec == Init /\ [][Next]_vars

-----------------------------------------------------------------------------
\* However the tables, the translations and the cleaning interleave, a message
\* the filter checks is not sent to a destination twice within DUPTIMEOUT
\* seconds, even through two entries of one table, unless a full history has dropped its hash in between
\* (Router.cpp:299-341).
NoRepeat ==
  out.sent /\ out.checked => out.sinceChecked > DUPTIMEOUT \/ out.forgotten

\* A message is dropped only when one with its hash was handed to an outbound
\* queue within DUPTIMEOUT seconds: a stream of duplicates never silences a destination for
\* good (Router.cpp:317-336).
DroppedOnlyAfterSend ==
  out # NoOutcome /\ ~out.sent => out.since <= DUPTIMEOUT

\* The history stays within its limit (Router.cpp:338-341).
HistoryBounded == Cardinality(Stored(RecentRoutes)) <= MAXROUTEHISTORY

\* An entry that pertains to the message as it came in is used: "Loop through
\* the entries in the route table and see if this message pertains to any
\* entry. If so, route it to the destination interface per the entry in the
\* route table." (Router.cpp:121-123).
EveryRouteServed ==
  at # 0 /\ at <= Size /\ Pertains(Here, msg.was) => Pertains(Here, msg.format)
=============================================================================

---------------------------- MODULE RouterProofs ----------------------------
(* The duplicate filter of Router, for every table, every history limit and  *)
(* every hash.                                                               *)
(*                                                                           *)
(* Neither property is inductive: both speak of what was sent, the code only *)
(* looks at its history.  IInv ties the two: an entry of the history is      *)
(* never younger than the last send of its hash, and a checked send of the   *)
(* last DUPTIMEOUT seconds still has an entry, no older than itself, unless  *)
(* a full history dropped it.                                                *)
EXTENDS Router, TLAPS, FiniteSetTheorems, WellFoundedInduction

StoredWasSent ==
  \A h \in Hashes : RecentRoutes[h] # Absent => lastSent[h] <= RecentRoutes[h]

CheckedIsStored ==
  \A h \in Hashes \ evicted :
    lastChecked[h] <= DUPTIMEOUT => RecentRoutes[h] <= lastChecked[h]

IInv == TypeOK /\ StoredWasSent /\ CheckedIsStored /\ NoRepeat /\ DroppedOnlyAfterSend

-----------------------------------------------------------------------------
\* The limits of the code leave room for the duplicate window.
LEMMA Limits ==
  /\ DUPTIMEOUT \in Nat /\ OLDESENTRY \in Nat
  /\ DUPTIMEOUT < MaxAge /\ MaxAge \in Nat /\ Absent = MaxAge + 1
  /\ TooOld \in Nat /\ DUPTIMEOUT <= TooOld
<1>1. DUPTIMEOUT \in Nat /\ OLDESENTRY \in Nat /\ DUPTIMEOUT <= OLDESENTRY \div 2
  BY RouterAssumption
<1>2. OLDESENTRY \div 2 \in Nat /\ OLDESENTRY \div 2 <= OLDESENTRY
  BY <1>1
<1>3. TooOld \in {OLDESENTRY \div 2, OLDESENTRY}
  BY DEF TooOld
<1> QED BY <1>1, <1>2, <1>3 DEF MaxAge, Absent

\* What has not happened yet is neither a repeat nor a drop.
LEMMA NothingHappened == out = NoOutcome => NoRepeat /\ DroppedOnlyAfterSend
BY DEF NoOutcome, NoRepeat, DroppedOnlyAfterSend

\* Reading or inserting an index keeps the table a table.
LEMMA TableType ==
  ASSUME TypeOK, NEW i \in Nat \ {0}, NEW e \in Entry \cup {NoEntry}, RouteTable' = With(i, e)
  PROVE  TableOK'
<1>1. /\ RouteTable \in [DOMAIN RouteTable -> Entry \cup {NoEntry}]
      /\ DOMAIN RouteTable \subseteq Nat \ {0} /\ IsFiniteSet(DOMAIN RouteTable)
  BY DEF TypeOK, TableOK
<1>2. RouteTable' = [j \in DOMAIN RouteTable \cup {i} |->
                       IF j \in DOMAIN RouteTable THEN RouteTable[j] ELSE e]
  BY DEF With
<1>3. DOMAIN RouteTable' = DOMAIN RouteTable \cup {i}
  BY <1>2
<1>4. \A j \in DOMAIN RouteTable \cup {i} : RouteTable'[j] \in Entry \cup {NoEntry}
  BY <1>1, <1>2
<1>5. IsFiniteSet(DOMAIN RouteTable')
  BY <1>1, <1>3, FS_AddElement
<1> QED BY <1>1, <1>2, <1>3, <1>4, <1>5 DEF TableOK

LEMMA SizeType == TypeOK => Size \in Nat
BY FS_CardinalityType DEF TypeOK, TableOK, Size

\* The translator keeps messages messages.
LEMMA TranslatorType ==
  ASSUME TypeOK, msg \in Message, NEW dst \in Designators
  PROVE  /\ Unwrapped(dst) \in Message
         /\ ProtocolTranslate(dst) \in Message
         /\ NextSequence \in 0..WMX_MAX_SEQUENCE
<1>1. WMX_MAX_SEQUENCE \in Nat /\ translatorSequence \in 0..WMX_MAX_SEQUENCE
  BY RouterAssumption DEF TypeOK
<1>2. msg.body.text \in Texts /\ msg.format \in Formats
  BY DEF Message, Bodies
<1>3. ASSUME NEW f \in Formats, NEW b \in Bodies
      PROVE  [msg EXCEPT !.format = f, !.body = b] \in Message
  BY <1>3 DEF Message
<1>4. [text |-> msg.body.text, seq |-> Bare] \in Bodies
  BY <1>1, <1>2 DEF Bodies, Bare
<1>5. [text |-> msg.body.text, seq |-> translatorSequence] \in Bodies
  BY <1>1, <1>2 DEF Bodies, Bare
<1>6. "ASCII" \in Formats /\ "WMX" \in Formats
  BY DEF Formats
<1>7. Unwrapped(dst) \in Message
  BY <1>3, <1>4, <1>6 DEF Unwrapped
<1>8. ProtocolTranslate(dst) \in Message
  BY <1>3, <1>5, <1>6, <1>7 DEF ProtocolTranslate
<1>9. NextSequence \in 0..WMX_MAX_SEQUENCE
  BY <1>1 DEF NextSequence
<1> QED BY <1>7, <1>8, <1>9

-----------------------------------------------------------------------------
\* One entry of the table, with its hash and decisions named.
LEMMA EntryPreserves ==
  ASSUME IInv, RouteEntry
  PROVE  IInv'
<1> DEFINE dst     == Here.dst
           xmsg    == ProtocolTranslate(dst)
           h       == Hash(xmsg.body, dst)
           checked == CheckForDup(xmsg.format)
           sent    == ~IsRecent(h) \/ ~checked
           kept    == Remember(h)
<1>1. /\ NextEntry
      /\ msg' = Unwrapped(dst)
      /\ translatorSequence' = IF MustWrap(dst) THEN NextSequence ELSE translatorSequence
      /\ RecentRoutes' = Trim(kept)
      /\ out' = [sent |-> sent, checked |-> checked, since |-> lastSent[h],
                 sinceChecked |-> lastChecked[h], forgotten |-> h \in evicted]
      /\ lastSent' = IF sent THEN [lastSent EXCEPT ![h] = 0] ELSE lastSent
      /\ lastChecked' = IF sent /\ checked THEN [lastChecked EXCEPT ![h] = 0] ELSE lastChecked
      /\ evicted' = (IF IsRecent(h) THEN evicted ELSE evicted \ {h}) \cup Trimmed(kept)
      /\ UNCHANGED <<newIndex, due>>
  BY DEF RouteEntry
<1>2. TypeOK BY DEF IInv
<1>3. msg \in Message /\ at \in Nat \ {0} /\ at' = at + 1 /\ RouteTable' = With(at, NoEntry)
  BY <1>1, <1>2 DEF NextEntry, TypeOK
<1>4. TableOK'
  BY <1>2, <1>3, TableType
<1>5. dst \in Designators
  BY DEF RouteEntry, Pertains
<1>6. /\ Unwrapped(dst) \in Message /\ xmsg \in Message
      /\ NextSequence \in 0..WMX_MAX_SEQUENCE
  BY <1>2, <1>3, <1>5, TranslatorType
<1>7. xmsg.body \in Bodies
  BY <1>6 DEF Message
<1>8. h \in Hashes
  BY <1>5, <1>7, HashAssumption
<1>9. checked \in BOOLEAN /\ sent \in BOOLEAN
  BY DEF CheckForDup, IsRecent
<1> HIDE DEF dst, xmsg, h, checked
<1>10. /\ RecentRoutes \in [Hashes -> 0..Absent]
       /\ lastSent \in [Hashes -> Ages] /\ lastChecked \in [Hashes -> Ages]
       /\ evicted \subseteq Hashes
  BY <1>2 DEF TypeOK
<1>11. /\ kept \in [Hashes -> 0..Absent]
       /\ IsRecent(h) => kept = RecentRoutes
       /\ ~IsRecent(h) => kept = [RecentRoutes EXCEPT ![h] = 0]
  BY <1>8, <1>10, Limits DEF Remember
<1> HIDE DEF kept
<1>12. /\ RecentRoutes' \in [Hashes -> 0..Absent]
       /\ \A g \in Hashes : g \in Trimmed(kept) => RecentRoutes'[g] = Absent
       /\ \A g \in Hashes : g \notin Trimmed(kept) => RecentRoutes'[g] = kept[g]
  BY <1>1, <1>11, Limits DEF Trim
<1>13. lastSent' \in [Hashes -> Ages] /\ lastChecked' \in [Hashes -> Ages]
  <2>1. 0 \in Ages BY Limits DEF Ages
  <2> QED BY <1>1, <1>8, <1>10, <2>1
<1>14. evicted' \subseteq Hashes
  BY <1>1, <1>10 DEF Trimmed, Smallest, Stored
<1>15. translatorSequence' \in 0..WMX_MAX_SEQUENCE
  BY <1>1, <1>2, <1>6 DEF TypeOK
<1>16. out' \in Outcomes
  BY <1>1, <1>8, <1>9, <1>10 DEF Outcomes
<1>17. TypeOK'
  <2>1. msg' \in Message /\ at' \in Nat
    BY <1>1, <1>3, <1>6
  <2>2. msg' # NoMessage
    BY <2>1, RouterAssumption
  <2>3. newIndex' \in [Builders -> Nat] /\ due' \in BOOLEAN
    BY <1>1, <1>2 DEF TypeOK
  <2> QED BY <2>1, <2>2, <2>3, <1>4, <1>12, <1>13, <1>14, <1>15, <1>16 DEF TypeOK
<1>18. StoredWasSent'
  <2> SUFFICES ASSUME NEW g \in Hashes, RecentRoutes'[g] # Absent
               PROVE  lastSent'[g] <= RecentRoutes'[g]
    BY DEF StoredWasSent
  <2>1. RecentRoutes'[g] = kept[g] /\ kept[g] # Absent
    BY <1>12
  <2>2. CASE g = h /\ ~IsRecent(h)
    BY <2>1, <2>2, <1>1, <1>8, <1>10, <1>11 DEF sent
  <2>3. CASE ~(g = h /\ ~IsRecent(h))
    <3>1. kept[g] = RecentRoutes[g]
      BY <2>3, <1>8, <1>10, <1>11
    <3>2. lastSent[g] <= RecentRoutes[g]
      BY <3>1, <2>1 DEF IInv, StoredWasSent
    <3>3. lastSent'[g] = lastSent[g] \/ lastSent'[g] = 0
      BY <1>1, <1>10
    <3>4. RecentRoutes[g] \in Nat
      BY <1>10, Limits
    <3> QED BY <2>1, <3>1, <3>2, <3>3, <3>4
  <2> QED BY <2>2, <2>3
<1>19. CheckedIsStored'
  <2> SUFFICES ASSUME NEW g \in Hashes, g \notin evicted', lastChecked'[g] <= DUPTIMEOUT
               PROVE  RecentRoutes'[g] <= lastChecked'[g]
    BY DEF CheckedIsStored
  <2>1. RecentRoutes'[g] = kept[g]
    BY <1>1, <1>12
  <2>2. CASE g = h /\ ~IsRecent(h)
    <3>1. kept[g] = 0
      BY <2>2, <1>8, <1>10, <1>11
    <3>2. lastChecked'[g] \in Nat
      BY <1>13 DEF Ages
    <3> QED BY <2>1, <3>1, <3>2
  <2>3. CASE ~(g = h /\ ~IsRecent(h))
    <3>1. kept[g] = RecentRoutes[g] /\ g \notin evicted
      BY <2>3, <1>1, <1>8, <1>10, <1>11
    <3>2. lastChecked'[g] = lastChecked[g]
      BY <2>3, <1>1, <1>10 DEF sent
    <3> QED BY <2>1, <3>1, <3>2 DEF IInv, CheckedIsStored
  <2> QED BY <2>2, <2>3
<1>20. NoRepeat'
  <2> SUFFICES ASSUME sent, checked, h \notin evicted
               PROVE  lastChecked[h] > DUPTIMEOUT
    BY <1>1 DEF NoRepeat
  <2>1. ~(RecentRoutes[h] <= DUPTIMEOUT)
    BY DEF sent, IsRecent
  <2>2. lastChecked[h] <= DUPTIMEOUT => RecentRoutes[h] <= lastChecked[h]
    BY <1>8 DEF IInv, CheckedIsStored
  <2>3. lastChecked[h] \in Nat /\ RecentRoutes[h] \in Nat
    BY <1>8, <1>10, Limits DEF Ages
  <2> QED BY <2>1, <2>2, <2>3, Limits
<1>21. DroppedOnlyAfterSend'
  <2> SUFFICES ASSUME ~sent PROVE lastSent[h] <= DUPTIMEOUT
    BY <1>1 DEF DroppedOnlyAfterSend
  <2>1. RecentRoutes[h] <= DUPTIMEOUT
    BY DEF sent, IsRecent
  <2>2. lastSent[h] \in Nat /\ RecentRoutes[h] \in Nat
    BY <1>8, <1>10, Limits DEF Ages
  <2>3. lastSent[h] <= RecentRoutes[h]
    BY <2>1, <2>2, <1>8, Limits DEF IInv, StoredWasSent
  <2> QED BY <2>1, <2>2, <2>3, Limits
<1> QED BY <1>17, <1>18, <1>19, <1>20, <1>21 DEF IInv

-----------------------------------------------------------------------------
\* A step that leaves the history alone keeps what IInv says of it.
LEMMA QuietPreserves ==
  ASSUME IInv, UNCHANGED RecentRoutes, UNCHANGED history, out' = NoOutcome
  PROVE  /\ StoredWasSent' /\ CheckedIsStored' /\ NoRepeat' /\ DroppedOnlyAfterSend'
         /\ out' \in Outcomes
<1>1. StoredWasSent' /\ CheckedIsStored'
  BY DEF IInv, history, StoredWasSent, CheckedIsStored
<1>2. NoRepeat' /\ DroppedOnlyAfterSend'
  BY DEF NoOutcome, NoRepeat, DroppedOnlyAfterSend
<1>3. out' \in Outcomes
  BY Limits DEF NoOutcome, Outcomes, Ages
<1> QED BY <1>1, <1>2, <1>3

\* Cleaning removes nothing the duplicate window still needs.
LEMMA CleanPreserves ==
  ASSUME IInv, CleanMessageMap
  PROVE  IInv'
<1>1. /\ RecentRoutes' = Trim(Cleaned)
      /\ evicted' = evicted \cup Trimmed(Cleaned)
      /\ due' = FALSE /\ out' = NoOutcome
      /\ UNCHANGED <<RouteTable, newIndex, translatorSequence, msg, at, lastSent, lastChecked>>
  BY DEF CleanMessageMap, tables
<1>2. TypeOK BY DEF IInv
<1>3. RecentRoutes \in [Hashes -> 0..Absent] /\ Trimmed(Cleaned) \subseteq Hashes
  BY <1>2 DEF TypeOK, Trimmed, Smallest, Stored
<1>4. \A h \in Hashes : RecentRoutes'[h] =
        IF h \in Trimmed(Cleaned) \/ RecentRoutes[h] > TooOld THEN Absent ELSE RecentRoutes[h]
  <2>1. \A h \in Hashes : Cleaned[h] = IF RecentRoutes[h] > TooOld THEN Absent ELSE RecentRoutes[h]
    BY DEF Cleaned
  <2> HIDE DEF Cleaned
  <2>2. \A h \in Hashes : RecentRoutes'[h] = IF h \in Trimmed(Cleaned) THEN Absent ELSE Cleaned[h]
    BY <1>1 DEF Trim
  <2> QED BY <2>1, <2>2
<1>5. RecentRoutes' \in [Hashes -> 0..Absent]
  BY <1>1, <1>3, <1>4, Limits DEF Trim
<1>6. out' \in Outcomes
  BY <1>1, Limits DEF NoOutcome, Outcomes, Ages
<1>7. TypeOK'
  BY <1>1, <1>2, <1>3, <1>5, <1>6 DEF TypeOK, TableOK
<1>8. StoredWasSent'
  BY <1>1, <1>3, <1>4 DEF IInv, StoredWasSent
<1>9. CheckedIsStored'
  <2> SUFFICES ASSUME NEW h \in Hashes, h \notin evicted', lastChecked[h] <= DUPTIMEOUT
               PROVE  RecentRoutes'[h] <= lastChecked[h]
    BY <1>1 DEF CheckedIsStored
  <2>1. h \notin evicted /\ h \notin Trimmed(Cleaned)
    BY <1>1
  <2>2. RecentRoutes[h] <= lastChecked[h]
    BY <2>1 DEF IInv, CheckedIsStored
  <2>3. RecentRoutes[h] \in Nat /\ lastChecked[h] \in Nat
    BY <1>2, Limits DEF TypeOK, Ages
  <2>4. ~(RecentRoutes[h] > TooOld)
    BY <2>2, <2>3, Limits
  <2> QED BY <1>4, <2>1, <2>2, <2>4
<1>10. NoRepeat' /\ DroppedOnlyAfterSend'
  BY <1>1 DEF NoOutcome, NoRepeat, DroppedOnlyAfterSend
<1> QED BY <1>7, <1>8, <1>9, <1>10 DEF IInv

\* Everything grows older by the same second.
LEMMA TickPreserves ==
  ASSUME IInv, Tick
  PROVE  IInv'
<1>1. /\ RecentRoutes' = [h \in Hashes |-> Older(RecentRoutes[h])]
      /\ lastSent' = [h \in Hashes |-> Older(lastSent[h])]
      /\ lastChecked' = [h \in Hashes |-> Older(lastChecked[h])]
      /\ due' = TRUE /\ out' = NoOutcome
      /\ UNCHANGED <<RouteTable, newIndex, translatorSequence, msg, at, evicted>>
  BY DEF Tick, tables
<1>2. TypeOK BY DEF IInv
<1>3. /\ RecentRoutes \in [Hashes -> 0..Absent]
      /\ lastSent \in [Hashes -> 0..MaxAge] /\ lastChecked \in [Hashes -> 0..MaxAge]
  BY <1>2 DEF TypeOK, Ages
<1>4. /\ RecentRoutes' \in [Hashes -> 0..Absent]
      /\ lastSent' \in [Hashes -> 0..MaxAge] /\ lastChecked' \in [Hashes -> 0..MaxAge]
  BY <1>1, <1>3, Limits DEF Older
<1>5. out' \in Outcomes
  BY <1>1, Limits DEF NoOutcome, Outcomes, Ages
<1>6. TypeOK'
  BY <1>1, <1>2, <1>4, <1>5 DEF TypeOK, TableOK, Ages
<1>7. StoredWasSent'
  <2> SUFFICES ASSUME NEW h \in Hashes, RecentRoutes'[h] # Absent
               PROVE  lastSent'[h] <= RecentRoutes'[h]
    BY DEF StoredWasSent
  <2>1. RecentRoutes[h] \in 0..Absent /\ lastSent[h] \in 0..MaxAge
    BY <1>3
  <2>2. RecentRoutes'[h] = Older(RecentRoutes[h]) /\ lastSent'[h] = Older(lastSent[h])
    BY <1>1
  <2>3. RecentRoutes[h] # Absent
    BY <2>2, Limits DEF Older
  <2>4. lastSent[h] <= RecentRoutes[h]
    BY <2>3 DEF IInv, StoredWasSent
  <2> QED BY <2>1, <2>2, <2>3, <2>4, Limits DEF Older
<1>8. CheckedIsStored'
  <2> SUFFICES ASSUME NEW h \in Hashes, h \notin evicted, lastChecked'[h] <= DUPTIMEOUT
               PROVE  RecentRoutes'[h] <= lastChecked'[h]
    BY <1>1 DEF CheckedIsStored
  <2>1. RecentRoutes[h] \in 0..Absent /\ lastChecked[h] \in 0..MaxAge
    BY <1>3
  <2>2. RecentRoutes'[h] = Older(RecentRoutes[h]) /\ lastChecked'[h] = Older(lastChecked[h])
    BY <1>1
  <2>3. lastChecked[h] <= DUPTIMEOUT
    BY <2>1, <2>2, Limits DEF Older
  <2>4. RecentRoutes[h] <= lastChecked[h]
    BY <2>3 DEF IInv, CheckedIsStored
  <2> QED BY <2>1, <2>2, <2>3, <2>4, Limits DEF Older
<1>9. NoRepeat' /\ DroppedOnlyAfterSend'
  BY <1>1 DEF NoOutcome, NoRepeat, DroppedOnlyAfterSend
<1> QED BY <1>6, <1>7, <1>8, <1>9 DEF IInv

-----------------------------------------------------------------------------
LEMMA InitIInv == Init => IInv
<1> SUFFICES ASSUME Init PROVE IInv
  OBVIOUS
<1>1. TypeOK
  <2>1. TableOK
    BY FS_EmptySet DEF Init, TableOK
  <2>2. 0 \in 0..WMX_MAX_SEQUENCE BY RouterAssumption
  <2>3. MaxAge \in Ages /\ Absent \in 0..Absent /\ 0 \in Ages BY Limits DEF Ages
  <2> QED BY <2>1, <2>2, <2>3 DEF Init, TypeOK, Outcomes, NoOutcome
<1>2. StoredWasSent /\ CheckedIsStored
  BY Limits DEF Init, StoredWasSent, CheckedIsStored
<1>3. NoRepeat /\ DroppedOnlyAfterSend
  BY NothingHappened DEF Init
<1> QED BY <1>1, <1>2, <1>3 DEF IInv

\* One step per action; only an entry of the table, cleaning and time touch
\* the history.
LEMMA NextIInv == IInv /\ [Next]_vars => IInv'
<1> SUFFICES ASSUME IInv, [Next]_vars PROVE IInv'
  OBVIOUS
<1>0. TypeOK BY DEF IInv
<1>1. ASSUME NEW m \in Messages, DoRouting(m) PROVE IInv'
  <2>1. m \in Message /\ m # NoMessage
    BY RouterAssumption
  <2>2. /\ StoredWasSent' /\ CheckedIsStored' /\ NoRepeat' /\ DroppedOnlyAfterSend'
        /\ out' \in Outcomes
    BY <1>1, QuietPreserves DEF DoRouting
  <2>3. TypeOK'
    BY <1>0, <1>1, <2>1, <2>2 DEF DoRouting, TypeOK, TableOK, tables, history
  <2> QED BY <2>2, <2>3 DEF IInv
<1>2. CASE SkipEntry
  <2>2. /\ StoredWasSent' /\ CheckedIsStored' /\ NoRepeat' /\ DroppedOnlyAfterSend'
        /\ out' \in Outcomes
    BY <1>2, QuietPreserves DEF SkipEntry
  <2>1. at \in Nat \ {0} /\ at' = at + 1 /\ RouteTable' = With(at, NoEntry)
    BY <1>0, <1>2 DEF SkipEntry, NextEntry, TypeOK
  <2>3. TableOK'
    BY <1>0, <2>1, TableType
  <2>4. /\ UNCHANGED <<newIndex, RecentRoutes, translatorSequence, msg, due>>
        /\ UNCHANGED <<lastSent, lastChecked, evicted>> /\ at' \in Nat
    BY <1>2, <2>1 DEF SkipEntry, history
  <2>5. TypeOK'
    BY <1>0, <2>2, <2>3, <2>4, <1>2 DEF TypeOK, SkipEntry, NextEntry
  <2> QED BY <2>2, <2>5 DEF IInv
<1>3. CASE RouteEntry
  BY <1>3, EntryPreserves
<1>4. CASE TableScanned
  <2>2. /\ StoredWasSent' /\ CheckedIsStored' /\ NoRepeat' /\ DroppedOnlyAfterSend'
        /\ out' \in Outcomes
    BY <1>4, QuietPreserves DEF TableScanned
  <2>3. TypeOK'
    BY <1>0, <1>4, <2>2 DEF TableScanned, TypeOK, TableOK, tables, history
  <2> QED BY <2>2, <2>3 DEF IInv
<1>5. CASE ClearAll
  <2>2. /\ StoredWasSent' /\ CheckedIsStored' /\ NoRepeat' /\ DroppedOnlyAfterSend'
        /\ out' \in Outcomes
    BY <1>5, QuietPreserves DEF ClearAll
  <2>3. TypeOK'
    BY <1>0, <1>5, <2>2, FS_EmptySet DEF ClearAll, TypeOK, TableOK, history
  <2> QED BY <2>2, <2>3 DEF IInv
<1>6. ASSUME NEW b \in Builders, AddRoute(b) PROVE IInv'
  <2>1. newIndex' \in [Builders -> Nat]
    <3>1. newIndex' = [newIndex EXCEPT ![b] = Size + 1] /\ newIndex \in [Builders -> Nat]
      BY <1>0, <1>6 DEF AddRoute, TypeOK
    <3>2. Size \in Nat
      BY <1>0, <1>6, SizeType
    <3> QED BY <3>1, <3>2
  <2>2. /\ StoredWasSent' /\ CheckedIsStored' /\ NoRepeat' /\ DroppedOnlyAfterSend'
        /\ out' \in Outcomes
    BY <1>6, QuietPreserves DEF AddRoute
  <2>3. TypeOK'
    BY <1>0, <1>6, <2>1, <2>2 DEF AddRoute, TypeOK, TableOK, history
  <2> QED BY <2>2, <2>3 DEF IInv
<1>10. ASSUME NEW b \in Builders, NEW e \in Entries, InsertRoute(b, e) PROVE IInv'
  <2>1. newIndex[b] \in Nat \ {0} /\ e \in Entry /\ RouteTable' = With(newIndex[b], e)
    BY <1>0, <1>10, RouterAssumption DEF InsertRoute, TypeOK
  <2>2. TableOK'
    BY <1>0, <2>1, TableType
  <2>3. /\ StoredWasSent' /\ CheckedIsStored' /\ NoRepeat' /\ DroppedOnlyAfterSend'
        /\ out' \in Outcomes
    BY <1>10, QuietPreserves DEF InsertRoute
  <2>4. newIndex' \in [Builders -> Nat]
    BY <1>0, <1>10 DEF InsertRoute, TypeOK
  <2>5. UNCHANGED <<RecentRoutes, translatorSequence, msg, at, due, lastSent, lastChecked, evicted>>
    BY <1>10 DEF InsertRoute, history
  <2>6. TypeOK'
    BY <1>0, <2>2, <2>3, <2>4, <2>5 DEF TypeOK
  <2> QED BY <2>3, <2>6 DEF IInv
<1>7. CASE CleanMessageMap
  BY <1>7, CleanPreserves
<1>8. CASE Tick
  BY <1>8, TickPreserves
<1>9. CASE UNCHANGED vars
  BY <1>0, <1>9 DEF vars, IInv, TypeOK, TableOK, StoredWasSent, CheckedIsStored, NoRepeat, DroppedOnlyAfterSend
<1> QED BY <1>1, <1>2, <1>3, <1>4, <1>5, <1>6, <1>7, <1>8, <1>9, <1>10 DEF Next

-----------------------------------------------------------------------------
(* The limit of the history.                                                 *)

\* A set of numbers has a smallest one: the order of Nat is well-founded.
LEMMA LeastNumber ==
  ASSUME NEW S, S \subseteq Nat, S # {}
  PROVE  \E x \in S : \A y \in S : x <= y
<1>1. IsWellFoundedOn(OpToRel(<, Nat), Nat)
  BY NatLessThanWellFounded
<1>2. PICK x \in S : \A y \in S : <<y, x>> \notin OpToRel(<, Nat)
  BY <1>1, WFMin
<1>3. \A y \in S : ~(y < x)
  BY <1>2 DEF OpToRel
<1>4. \A y \in S : x <= y
  <2> TAKE y \in S
  <2>1. x \in Nat /\ y \in Nat /\ ~(y < x)
    BY <1>3
  <2> QED BY <2>1
<1> QED BY <1>4

\* A history stores finitely many hashes.
LEMMA StoredFinite ==
  ASSUME NEW r
  PROVE  Stored(r) \subseteq Hashes /\ IsFiniteSet(Stored(r)) /\ Cardinality(Stored(r)) \in Nat
<1>1. IsFiniteSet(Hashes)
  BY RouterAssumption, FS_Interval DEF Hashes
<1>2. Stored(r) \subseteq Hashes
  BY DEF Stored
<1> QED BY <1>1, <1>2, FS_Subset, FS_CardinalityType

\* A history with at most one entry too many is trimmed to the limit.
LEMMA TrimBounds ==
  ASSUME NEW r, Cardinality(Stored(r)) <= MAXROUTEHISTORY + 1
  PROVE  Cardinality(Stored(Trim(r))) <= MAXROUTEHISTORY
<1>1. MAXROUTEHISTORY \in Nat /\ Hashes \subseteq Nat
  BY RouterAssumption DEF Hashes
<1>2. Stored(Trim(r)) = Stored(r) \ Trimmed(r)
  <2>1. \A h \in Hashes : Trim(r)[h] = IF h \in Trimmed(r) THEN Absent ELSE r[h]
    BY DEF Trim
  <2> QED BY <2>1 DEF Stored
<1>3. /\ Stored(r) \subseteq Hashes /\ IsFiniteSet(Stored(r))
      /\ Cardinality(Stored(r)) \in Nat
  BY StoredFinite
<1>4. CASE Cardinality(Stored(r)) <= MAXROUTEHISTORY
  <2>1. Trimmed(r) = {}
    BY <1>1, <1>3, <1>4 DEF Trimmed
  <2> QED BY <1>2, <1>4, <2>1
<1>5. CASE Cardinality(Stored(r)) > MAXROUTEHISTORY
  <2>1. Stored(r) # {}
    BY <1>1, <1>5, FS_EmptySet
  <2>2. PICK h \in Stored(r) : \A g \in Stored(r) : h <= g
    BY <1>1, <1>3, <2>1, LeastNumber
  <2>3. h \in Trimmed(r)
    BY <1>5, <2>2 DEF Trimmed, Smallest
  <2>4. Stored(Trim(r)) \subseteq Stored(r) \ {h} /\ IsFiniteSet(Stored(r) \ {h})
    BY <1>2, <1>3, <2>3, FS_RemoveElement
  <2>5. Cardinality(Stored(r) \ {h}) = Cardinality(Stored(r)) - 1
    BY <1>3, <2>2, FS_RemoveElement
  <2>6. Cardinality(Stored(Trim(r))) <= Cardinality(Stored(r) \ {h})
    BY <2>4, FS_Subset
  <2>7. Cardinality(Stored(Trim(r))) \in Nat
    BY StoredFinite
  <2> QED BY <1>1, <1>3, <2>5, <2>6, <2>7
<1> QED BY <1>1, <1>3, <1>4, <1>5

\* An entry of the table stores at most one hash before it trims, cleaning none.
LEMMA HistoryKept ==
  ASSUME IInv, HistoryBounded, [Next]_vars
  PROVE  HistoryBounded'
<1>1. RecentRoutes \in [Hashes -> 0..Absent] /\ MAXROUTEHISTORY \in Nat
  BY RouterAssumption DEF IInv, TypeOK
<1>2. Cardinality(Stored(RecentRoutes)) <= MAXROUTEHISTORY
  BY DEF HistoryBounded
<1>3. ASSUME NEW r, Stored(r) \subseteq Stored(RecentRoutes)
      PROVE  Cardinality(Stored(r)) <= MAXROUTEHISTORY
  <2>1. Cardinality(Stored(r)) <= Cardinality(Stored(RecentRoutes))
    BY <1>3, StoredFinite, FS_Subset
  <2>2. Cardinality(Stored(r)) \in Nat /\ Cardinality(Stored(RecentRoutes)) \in Nat
    BY StoredFinite
  <2> QED BY <1>1, <1>2, <2>1, <2>2
<1>4. CASE RouteEntry
  <2> DEFINE h == Hash(ProtocolTranslate(Here.dst).body, Here.dst)
  <2>1. RecentRoutes' = Trim(Remember(h))
    BY <1>4 DEF RouteEntry
  <2> HIDE DEF h
  <2>2. Stored(Remember(h)) \subseteq Stored(RecentRoutes) \cup {h}
    BY <1>1 DEF Remember, Stored
  <2>3. /\ IsFiniteSet(Stored(RecentRoutes) \cup {h})
        /\ Cardinality(Stored(RecentRoutes) \cup {h}) <= Cardinality(Stored(RecentRoutes)) + 1
    <3>1. CASE h \in Stored(RecentRoutes)
      <4>1. Stored(RecentRoutes) \cup {h} = Stored(RecentRoutes)
        BY <3>1
      <4>2. IsFiniteSet(Stored(RecentRoutes)) /\ Cardinality(Stored(RecentRoutes)) \in Nat
        BY StoredFinite
      <4>3. Cardinality(Stored(RecentRoutes)) <= Cardinality(Stored(RecentRoutes)) + 1
        BY <4>2
      <4> QED BY <4>1, <4>2, <4>3
    <3>2. CASE h \notin Stored(RecentRoutes)
      <4>1. /\ IsFiniteSet(Stored(RecentRoutes) \cup {h})
            /\ Cardinality(Stored(RecentRoutes) \cup {h}) = Cardinality(Stored(RecentRoutes)) + 1
        BY <3>2, StoredFinite, FS_AddElement
      <4> QED BY <4>1, StoredFinite
    <3> QED BY <3>1, <3>2
  <2>4. Cardinality(Stored(Remember(h))) <= Cardinality(Stored(RecentRoutes) \cup {h})
    BY <2>2, <2>3, FS_Subset
  <2>5. /\ Cardinality(Stored(Remember(h))) \in Nat
        /\ Cardinality(Stored(RecentRoutes)) \in Nat
        /\ Cardinality(Stored(RecentRoutes) \cup {h}) \in Nat
    BY <2>3, StoredFinite, FS_CardinalityType
  <2>6. Cardinality(Stored(Remember(h))) <= MAXROUTEHISTORY + 1
    BY <1>1, <1>2, <2>3, <2>4, <2>5
  <2> QED BY <2>1, <2>6, TrimBounds DEF HistoryBounded, Stored
<1>5. CASE CleanMessageMap
  <2>1. RecentRoutes' = Trim(Cleaned)
    BY <1>5 DEF CleanMessageMap
  <2>2. Stored(Cleaned) \subseteq Stored(RecentRoutes)
    BY <1>1 DEF Cleaned, Stored
  <2>3. Cardinality(Stored(Cleaned)) <= MAXROUTEHISTORY /\ Cardinality(Stored(Cleaned)) \in Nat
    BY <1>3, <2>2, StoredFinite
  <2>4. Cardinality(Stored(Cleaned)) <= MAXROUTEHISTORY + 1
    BY <1>1, <2>3
  <2> QED BY <2>1, <2>4, TrimBounds DEF HistoryBounded, Stored
<1>6. CASE Tick
  <2>1. \A h \in Hashes : RecentRoutes'[h] = Absent <=> RecentRoutes[h] = Absent
    <3> TAKE h \in Hashes
    <3>1. RecentRoutes'[h] = Older(RecentRoutes[h]) /\ RecentRoutes[h] \in 0..Absent
      BY <1>1, <1>6 DEF Tick
    <3> QED BY <3>1, Limits DEF Older
  <2>2. Stored(RecentRoutes') = Stored(RecentRoutes)
    BY <2>1 DEF Stored
  <2> QED BY <1>2, <2>2 DEF HistoryBounded, Stored
<1>7. CASE UNCHANGED RecentRoutes
  BY <1>2, <1>7 DEF HistoryBounded, Stored
<1> QED BY <1>4, <1>5, <1>6, <1>7
        DEF Next, vars, DoRouting, SkipEntry, TableScanned, ClearAll, AddRoute, InsertRoute

-----------------------------------------------------------------------------
THEOREM Invariance == Spec => []IInv
<1>1. Init => IInv BY InitIInv
<1>2. IInv /\ [Next]_vars => IInv' BY NextIInv
<1> QED BY <1>1, <1>2, PTL DEF Spec

\* Every variable keeps its type, for every table and limit.
THEOREM TypeCorrectness == Spec => []TypeOK
<1>1. IInv => TypeOK BY DEF IInv
<1> QED BY <1>1, Invariance, PTL

\* A checked message is never sent twice to a destination within the window
\* (Router.cpp:299-341), whatever the limit of the history.
THEOREM NothingRepeated == Spec => []NoRepeat
<1>1. IInv => NoRepeat BY DEF IInv
<1> QED BY <1>1, Invariance, PTL

\* A dropped message always follows a send with its hash (Router.cpp:317-336).
THEOREM NothingSilenced == Spec => []DroppedOnlyAfterSend
<1>1. IInv => DroppedOnlyAfterSend BY DEF IInv
<1> QED BY <1>1, Invariance, PTL

\* The history never holds more than MAXROUTEHISTORY hashes, although a message
\* is stored first and the excess removed after (Router.cpp:338-341).
THEOREM HistoryStaysBounded == Spec => []HistoryBounded
<1>1. Init => HistoryBounded
  <2> SUFFICES ASSUME Init PROVE HistoryBounded
    OBVIOUS
  <2>1. Stored(RecentRoutes) = {}
    BY DEF Init, Stored
  <2> QED BY <2>1, FS_EmptySet, RouterAssumption DEF HistoryBounded
<1>2. IInv /\ HistoryBounded /\ [Next]_vars => HistoryBounded'
  BY HistoryKept
<1> QED BY <1>1, <1>2, Invariance, PTL DEF Spec
=============================================================================

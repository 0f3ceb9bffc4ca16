---------------------------- MODULE StreamParser ----------------------------
(* The parser every interface keeps (dataparser.cpp): bytes arrive in reads   *)
(* cut anywhere, are appended to a buffer, and NMEA sentences, WMX frames and *)
(* TAP commands are taken out of its front and put on the input queue.        *)
(*                                                                            *)
(* The buffer holds places in the stream of what the other end sent, so what  *)
(* is taken can be compared with it.  A byte stands for those the parser      *)
(* does not tell apart: "x" is text, "@" a WMX control byte, "1" a hex digit, *)
(* "id" and "no" the digits of a known and an unknown pager, "sum" the        *)
(* checksum of the block it was sent in.                                      *)
EXTENDS Integers, Sequences, SequencesExt

CONSTANTS Sent,       \* what the device sends: [device, items] records
          ReadMax,    \* bytes of one read
          MaxBuf,     \* MAX_PARSE_BUFF
          TapLimit    \* bytes a page block without its end may take (50)

Bytes == [
  nmea    |-> <<"$", "x", "CR">>,
  wmx     |-> <<"SOH", "@", "1", "FS1", "x", "DLE", "ETX", "EOT">>,
  wmxd    |-> <<"SOH", "@", "1", "FS1", "$", "DLE", "ETX", "EOT">>,
  page    |-> <<"STX", "id", "CR", "x", "CR", "ETX", "sum", "CR">>,
  badpage |-> <<"STX", "id", "CR", "x", "CR", "ETX", "x", "CR">>,
  unknown |-> <<"STX", "no", "CR", "x", "CR", "ETX", "sum", "CR">>,
  connect |-> <<"ESC", "P", "G", "1", "CR">>,
  check   |-> <<"CR">>,
  bye     |-> <<"EOT", "CR">>,
  noise   |-> <<"x">>,
  line    |-> <<"x", "x", "CR">>,
  crlf    |-> <<"x", "CR", "NL">>,
  doc     |-> <<"<", "?xml", "<", "r>", "x", "<", "/r>">>,
  soh     |-> <<"SOH">>,                       \* the rest was lost on the way,
  cutnmea |-> <<"$", "x">>,                    \* as it was of these
  cutwmx  |-> <<"SOH", "@", "1", "FS1", "x">>,
  cutpage |-> <<"STX", "id", "CR", "x">>,
  cutdoc  |-> <<"<", "?xml", "<", "r>", "x">>]

Items == DOMAIN Bytes
Computers == {"dAVLPC", "dDataModem"}          \* parsed alike
Servers == {"dMAILserver", "dWEBserver"}       \* read by the mail client and the web server
Devices == Computers \cup Servers \cup {"dWMXmodem", "dTAP", "dCigorn", "dTerminal", "dCLI", "dNONE"}
Damaged == {"soh", "cutnmea", "cutwmx", "cutpage", "cutdoc"}
Bit6 == {"@", "x", "P", "G"}                   \* bytes with bit 6 set
Hex == {"1"}

ASSUME ParserAssumption ==
  /\ \A s \in Sent : s.device \in Devices /\ s.items \in Seq(Items)
  /\ ReadMax \in Nat \ {0} /\ TapLimit \in Nat
  /\ MaxBuf \in Nat /\ \A i \in Items : ReadMax + Len(Bytes[i]) < MaxBuf

VARIABLES
  device,     \* device type of the interface
  items,      \* what the other end sends
  stream,     \* its bytes, each with the item it is of
  pos,        \* bytes read so far
  raw,        \* rawdata between rget and rput, as places of the stream
  before,     \* rawdata in front of rget
  pc,         \* where parse() is; "read" between two calls
  NMEAparsing, WMXparsing, XMLparsing,
  count,      \* messages found by the look4 routine that is running
  qMSGin,     \* messages put on the input queue, and what the owner of the
              \* parser takes itself
  replies,    \* answers of the TAP parser
  dropped     \* places lost because the buffer was full or flushed

vars == <<device, items, stream, pos, raw, before, pc, NMEAparsing, WMXparsing,
          XMLparsing, count, qMSGin, replies, dropped>>
xml == <<before, XMLparsing>>
input == <<device, items, stream>>

Laid(s) == FlattenSeq([k \in 1..Len(s) |->
             [i \in 1..Len(Bytes[s[k]]) |->
                [b |-> Bytes[s[k]][i], of |-> k, first |-> i = 1, last |-> i = Len(Bytes[s[k]])]]])

Init ==
  /\ \E s \in Sent : device = s.device /\ items = s.items /\ stream = Laid(s.items)
  /\ pos = 0 /\ raw = <<>> /\ before = <<>> /\ pc = "read" /\ count = 0
  /\ NMEAparsing = FALSE /\ WMXparsing = FALSE /\ XMLparsing = FALSE
  /\ qMSGin = <<>> /\ replies = <<>> /\ dropped = {}

---------------------------------------------------------------------------
(* The buffer.                                                               *)

Byte(i) == stream[raw[i]].b
findchar(b) == SelectInSeq(raw, LAMBDA p : stream[p].b = b)
Rest(i) == SubSeq(raw, i + 1, Len(raw))
Taken(kind, i) == [kind |-> kind, first |-> raw[1], last |-> raw[i]]

\* Everything in front of the next header is thrown away.
cleanraw(r) ==
  LET h == SelectInSeq(r, LAMBDA p : stream[p].b \in {"$", "SOH"})
  IN IF h = 0 THEN <<>> ELSE SubSeq(r, h, Len(r))

rawdata == before \o raw
ReadIn(n) == [i \in 1..n |-> pos + i]

\* mutant: nothing tests the end of the buffer.
Unbounded(n) == raw' = raw \o ReadIn(n) /\ UNCHANGED <<before, dropped>>

\* A read that does not fit behind rput empties the buffer and is cut off there.
\* What is in front of rget takes room as well, until the buffer is realigned:
\* of computers before the next look at it, of text never.
addnew(n) ==
  LET new == ReadIn(n)
  IN IF Len(rawdata) + n >= MaxBuf
     THEN raw' = <<>> /\ before' = <<>> /\ dropped' = dropped \cup ToSet(raw) \cup ToSet(new)
     ELSE /\ IF device \in Computers THEN raw' = cleanraw(raw \o new) /\ before' = <<>>
             ELSE raw' = raw \o new /\ UNCHANGED before
          /\ UNCHANGED dropped

\* parse(): the interface has read n more bytes.
Read(n) ==
  /\ pc = "read" /\ device \in Computers \cup {"dWMXmodem", "dTAP"} /\ pos + n <= Len(stream)
  /\ addnew(n)
  /\ pos' = pos + n /\ count' = 0
  /\ pc' = (IF device = "dTAP" THEN "wmx" ELSE IF raw' = <<>> THEN "empty" ELSE "nmea")
  /\ UNCHANGED <<input, NMEAparsing, WMXparsing, XMLparsing, qMSGin, replies>>

\* The loop of a modem ends as soon as the buffer is empty; of the others
\* look4NMEA and look4WMX lower their flags.
Empty ==
  /\ pc = "empty" /\ pc' = "read"
  /\ IF device = "dWMXmodem" THEN UNCHANGED <<NMEAparsing, WMXparsing>>
     ELSE NMEAparsing' = FALSE /\ WMXparsing' = FALSE
  /\ UNCHANGED <<input, pos, raw, count, qMSGin, replies, dropped, xml>>

---------------------------------------------------------------------------
(* Interfaces without a protocol.                                            *)

\* What a terminal sends goes on as it comes; answers of a mail server and
\* requests of a browser stay in the buffer.
ReadText(n) ==
  /\ pc = "read" /\ device \in Servers \cup {"dTerminal"} /\ pos + n <= Len(stream)
  /\ addnew(n)
  /\ pos' = pos + n /\ pc' = (IF device = "dTerminal" THEN "text" ELSE "read")
  /\ UNCHANGED <<input, count, NMEAparsing, WMXparsing, XMLparsing, qMSGin, replies>>

\* All of it is taken; rput stays where it is.
TakeText ==
  /\ qMSGin' = (IF raw = <<>> THEN qMSGin ELSE Append(qMSGin, Taken("ascii", Len(raw))))
  /\ before' = (IF raw = <<>> THEN before ELSE rawdata) /\ raw' = <<>>
  /\ UNCHANGED <<input, pos, count, NMEAparsing, WMXparsing, XMLparsing, replies, dropped>>

look4ASCII == pc = "text" /\ pc' = "read" /\ TakeText

\* The mail client looks for the code of an answer in it, the web server for the
\* page that is requested.
GetResponse == pc = "read" /\ device \in Servers /\ raw # <<>> /\ TakeText /\ UNCHANGED pc

\* An interface with no device, or with one the gateway only sends to.
ReadNone(n) ==
  /\ pc = "read" /\ device = "dNONE" /\ pos + n <= Len(stream)
  /\ dropped' = dropped \cup ((pos + 1)..(pos + n))
  /\ pos' = pos + n
  /\ UNCHANGED <<input, raw, pc, count, NMEAparsing, WMXparsing, qMSGin, replies, xml>>

\* A user types commands; the console looks for one after every read.
ReadCLI(n) ==
  /\ pc = "read" /\ device = "dCLI" /\ pos + n <= Len(stream)
  /\ addnew(n)
  /\ pos' = pos + n /\ pc' = "cli"
  /\ UNCHANGED <<input, count, NMEAparsing, WMXparsing, XMLparsing, qMSGin, replies>>

LineEnd == IF findchar("NL") > 0 THEN findchar("NL") ELSE findchar("CR")

\* The text up to the end of the line is a command, unless it is blank; all that
\* was read with it is thrown away, and with it the beginning of the next one.
look4command ==
  /\ pc = "cli" /\ pc' = "read"
  /\ IF LineEnd = 0 THEN UNCHANGED <<raw, qMSGin, dropped>>
     ELSE /\ raw' = <<>> /\ dropped' = dropped \cup ToSet(Rest(LineEnd))
          /\ qMSGin' = (IF \A i \in 1..LineEnd : Byte(i) \in {"CR", "NL"} THEN qMSGin
                        ELSE Append(qMSGin, Taken("command", LineEnd)))
  /\ UNCHANGED <<input, pos, count, NMEAparsing, WMXparsing, replies, xml>>

---------------------------------------------------------------------------
(* NMEA sentences: from a "$" to the first carriage return.                  *)

AtSentence == raw # <<>> /\ Byte(1) = "$"

NmeaTake ==
  /\ pc = "nmea" /\ AtSentence /\ findchar("CR") > 0
  /\ qMSGin' = Append(qMSGin, Taken("nmea", findchar("CR")))
  /\ raw' = cleanraw(Rest(findchar("CR")))
  /\ NMEAparsing' = TRUE /\ count' = count + 1
  /\ UNCHANGED <<input, pos, pc, WMXparsing, replies, dropped, xml>>

\* The flag stays up when sentences were taken, and for a sentence longer than
\* NMEA_MAXLEN (200): the statement that would lower it stands behind a return.
NmeaEnd ==
  /\ pc = "nmea" /\ ~(AtSentence /\ findchar("CR") > 0)
  /\ NMEAparsing' = (count > 0 \/ AtSentence)
  /\ count' = 0
  /\ pc' = (IF device = "dWMXmodem" /\ NMEAparsing' THEN "read" ELSE "wmx")
  /\ UNCHANGED <<input, pos, raw, WMXparsing, qMSGin, replies, dropped, xml>>

---------------------------------------------------------------------------
(* WMX frames: from SOH to the first EOT, if a field separator, a DLE and an *)
(* ETX are anywhere behind the SOH.                                          *)

AtFrame == raw # <<>> /\ Byte(1) = "SOH"
WholeFrame == AtFrame /\ \A b \in {"EOT", "FS1", "DLE", "ETX"} : findchar(b) > 0


\* What makes an unfinished frame worth waiting for.
MayBeFrame ==
  /\ AtFrame
  /\ \/ Len(raw) = 1
     \/ /\ Byte(2) \in Bit6
        /\ \/ Len(raw) < 7
           \/ \A i \in 3..7 : Byte(i) \in Hex \/ \E j \in 3..i : Byte(j) = "FS1"

WmxTake ==
  /\ pc \in {"wmx", "tapwmx"} /\ WholeFrame
  /\ qMSGin' = Append(qMSGin, Taken("wmx", findchar("EOT")))
  /\ raw' = Rest(findchar("EOT"))
  /\ count' = count + 1
  /\ UNCHANGED <<input, pos, pc, NMEAparsing, WMXparsing, replies, dropped, xml>>

LoopOn(r) == IF r = <<>> THEN "read" ELSE "nmea"

\* A modem eats one byte when nothing was found, and goes on to the next header.
ModemWmxEnd ==
  /\ device = "dWMXmodem" /\ UNCHANGED before
  /\ raw' = (IF count > 0 \/ MayBeFrame \/ raw = <<>> THEN raw ELSE cleanraw(Tail(raw)))
  /\ pc' = (IF MayBeFrame THEN "read" ELSE LoopOn(raw'))

\* The others eat one byte whenever neither parser claims the buffer, also
\* behind a frame that was just taken.
AvlWmxEnd ==
  LET skip == ~NMEAparsing /\ ~MayBeFrame /\ raw # <<>>
  IN /\ device \in Computers /\ pc' = "read"
     /\ IF skip THEN raw' = Tail(raw) /\ before' = <<raw[1]>> ELSE UNCHANGED <<raw, before>>

TapWmxEnd ==
  /\ device = "dTAP" /\ UNCHANGED before
  /\ raw' = (IF pc = "tapwmx" /\ count = 0 /\ ~MayBeFrame THEN Tail(raw) ELSE raw)
  /\ pc' = (IF MayBeFrame \/ raw' = <<>> THEN "read" ELSE "tap")

WmxEnd ==
  /\ pc \in {"wmx", "tapwmx"} /\ ~WholeFrame
  /\ WMXparsing' = MayBeFrame /\ count' = 0
  /\ ModemWmxEnd \/ AvlWmxEnd \/ TapWmxEnd
  /\ UNCHANGED <<input, pos, NMEAparsing, XMLparsing, qMSGin, replies, dropped>>

---------------------------------------------------------------------------
(* XML documents of other gateways.  What is looked at starts at the front of *)
(* rawdata, what is taken starts at rget.                                     *)

FirstOf(b, s) == SelectInSeq(s, LAMBDA p : stream[p].b = b)

\* To the next "<"; if that does not open a document, to the one behind it.
cleanrawXML(r) ==
  LET t == SubSeq(r, FirstOf("<", r), Len(r))
      n == FirstOf("<", Tail(t))
  IN IF FirstOf("<", r) = 0 THEN [before |-> <<>>, raw |-> <<>>]
     ELSE IF Len(t) = 1 \/ stream[t[2]].b = "?xml" THEN [before |-> <<>>, raw |-> t]
     ELSE IF n = 0 THEN [before |-> t, raw |-> <<>>]
     ELSE [before |-> SubSeq(t, 1, n), raw |-> SubSeq(t, n + 1, Len(t))]

Put(s) == before' = s.before /\ raw' = s.raw

\* One byte is skipped as long as no document was seen.
Skipped(s) ==
  IF XMLparsing \/ s.raw = <<>> THEN s
  ELSE [before |-> Append(s.before, s.raw[1]), raw |-> Tail(s.raw)]

ReadXML(n) ==
  LET new == ReadIn(n)
  IN /\ pc = "read" /\ device = "dCigorn" /\ pos + n <= Len(stream)
     /\ IF Len(rawdata) + n < MaxBuf
        THEN Put(Skipped(cleanrawXML(raw \o new))) /\ UNCHANGED dropped
        ELSE /\ raw' = <<>> /\ before' = <<>>
             /\ dropped' = dropped \cup ToSet(raw) \cup ToSet(new)
     /\ pos' = pos + n /\ pc' = "xml"
     /\ UNCHANGED <<input, NMEAparsing, WMXparsing, XMLparsing, count, qMSGin, replies>>

AtDocument == Len(rawdata) >= 2 /\ stream[rawdata[1]].b = "<" /\ stream[rawdata[2]].b = "?xml"

\* An empty buffer lowers the flag, and so does a document that fills it.
look4XML ==
  LET full == AtDocument /\ 10 * Len(raw) > 9 * MaxBuf
  IN /\ pc = "xml"
     /\ XMLparsing' = (XMLparsing /\ raw # <<>> /\ ~full)
     /\ pc' = (IF raw = <<>> \/ Len(rawdata) < 2 \/ full THEN "read" ELSE "document")
     /\ UNCHANGED <<input, pos, raw, before, NMEAparsing, WMXparsing, count, qMSGin, replies, dropped>>

\* The tag of the second node, and the place behind the end of it.
Root == SelectInSeq(Tail(rawdata), LAMBDA p : stream[p].b = "<") + 1
HasRoot == Root > 1 /\ Root < Len(rawdata)
Close ==
  IF stream[rawdata[Root + 1]].b = "r>" THEN FirstOf("/r>", rawdata) ELSE 0

\* As many bytes as the document has are taken, from rget.
TakeDocument ==
  LET n == IF Close <= Len(raw) THEN Close ELSE Len(raw)
  IN /\ pc = "document" /\ AtDocument /\ HasRoot /\ Close > 0
     /\ qMSGin' = Append(qMSGin, Taken("xml", n))
     /\ Put(cleanrawXML(Rest(n)))
     /\ XMLparsing' = TRUE
     /\ UNCHANGED <<input, pos, pc, NMEAparsing, WMXparsing, count, replies, dropped>>

\* Without its end the document stays where it is, and the loop goes on.
AwaitClose ==
  /\ pc = "document" /\ AtDocument /\ HasRoot /\ Close = 0
  /\ Put(cleanrawXML(raw))
  /\ XMLparsing' = TRUE
  /\ UNCHANGED <<input, pos, pc, NMEAparsing, WMXparsing, count, qMSGin, replies, dropped>>

XmlEnd ==
  /\ pc = "document" /\ ~(AtDocument /\ HasRoot)
  /\ XMLparsing' = (XMLparsing \/ AtDocument)
  /\ pc' = "read"
  /\ UNCHANGED <<input, pos, raw, before, NMEAparsing, WMXparsing, count, qMSGin, replies, dropped>>

---------------------------------------------------------------------------
(* parseTAP(): one command, one page block or one byte at a time.            *)

Starts(bs) == Len(raw) >= Len(bs) /\ \A i \in 1..Len(bs) : Byte(i) = bs[i]
Returns == SelectSeq([i \in 1..Len(raw) |-> i], LAMBDA i : Byte(i) = "CR")

\* Take i bytes, which are answered with a, or not at all.
TapTake(i, a) ==
  /\ pc = "tap" /\ raw' = Rest(i)
  /\ replies' = (IF a = "none" THEN replies ELSE Append(replies, Taken(a, i)))
  /\ pc' = (IF raw' = <<>> THEN "read" ELSE "tap")
  /\ UNCHANGED <<input, pos, NMEAparsing, WMXparsing, count, dropped, xml>>

Command ==
  /\ \/ Starts(Bytes.connect) /\ TapTake(5, "hello")
     \/ Starts(Bytes.bye) /\ TapTake(2, "none")
     \/ Starts(Bytes.check) /\ TapTake(1, "ID")
  /\ UNCHANGED qMSGin

AtBlock == raw # <<>> /\ Byte(1) = "STX"

\* mutant: the checksum is skipped like the ETX.
NoChecksum ==
  Byte(Returns[2] + 1) = "ETX" /\ Byte(2) = "id"

\* The checksum fits when it is the one of the bytes in front of it.
GoodBlock ==
  LET etx == Returns[2] + 1
  IN /\ Byte(etx) = "ETX" /\ Byte(etx + 1) = "sum"
     /\ stream[raw[1]].of = stream[raw[etx + 1]].of
     /\ Byte(2) = "id"

\* A block ends at the third carriage return.
PageBlock ==
  /\ AtBlock /\ Len(Returns) >= 3
  /\ \/ GoodBlock /\ TapTake(Returns[3], "ACK")
        /\ qMSGin' = Append(qMSGin, Taken("page", Returns[3]))
     \/ ~GoodBlock /\ TapTake(Returns[3], "NAK") /\ UNCHANGED qMSGin

\* The rest of a connect string or of a block is waited for, of a block not
\* when the buffer holds too much.
TapWait ==
  /\ pc = "tap" /\ pc' = "read"
  /\ \/ Byte(1) = "ESC" /\ Len(raw) < 5 /\ UNCHANGED <<raw, dropped>>
     \/ /\ AtBlock /\ Len(Returns) < 3
        /\ \/ Len(raw) <= TapLimit /\ UNCHANGED <<raw, dropped>>
           \/ Len(raw) > TapLimit /\ raw' = <<>> /\ dropped' = dropped \cup ToSet(raw)
  /\ UNCHANGED <<input, pos, NMEAparsing, WMXparsing, count, qMSGin, replies, xml>>

\* Anything else is for look4WMX, which eats it if it finds nothing.
TapOther ==
  /\ pc = "tap" /\ pc' = "tapwmx" /\ count' = 0
  /\ ~Starts(Bytes.connect) /\ ~Starts(Bytes.bye) /\ ~Starts(Bytes.check)
  /\ ~AtBlock /\ ~(Byte(1) = "ESC" /\ Len(raw) < 5)
  /\ UNCHANGED <<input, pos, raw, NMEAparsing, WMXparsing, qMSGin, replies, dropped, xml>>

\* The other end has sent everything.
Silence == pc = "read" /\ pos = Len(stream) /\ UNCHANGED vars

Parse ==
  \/ Empty \/ NmeaTake \/ NmeaEnd \/ WmxTake \/ WmxEnd
  \/ look4XML \/ TakeDocument \/ AwaitClose \/ XmlEnd
  \/ Command \/ PageBlock \/ TapWait \/ TapOther
  \/ look4command \/ look4ASCII

Next ==
  \/ \E n \in 1..ReadMax :
       Read(n) \/ ReadXML(n) \/ ReadText(n) \/ ReadNone(n) \/ ReadCLI(n)
  \/ Parse \/ GetResponse
  \/ Silence

Spec == Init /\ [][Next]_vars

\* The thread that called parse() runs on until it returns.
FairSpec == Spec /\ WF_vars(Parse)

---------------------------------------------------------------------------
(* What the parser promises.                                                 *)

Kind == [nmea |-> "nmea", wmx |-> "wmx", wmxd |-> "wmx", page |-> "page", doc |-> "xml",
         line |-> "command", crlf |-> "command"]
Whole == DOMAIN Kind
Places(k) == {p \in DOMAIN stream : stream[p].of = k}

Taking == [kind : STRING, first : DOMAIN stream, last : DOMAIN stream]

\* The buffer is a run of places up to the last byte read, and shorter than
\* rawdata; between two calls no routine is at work.
TypeOK ==
  /\ pos \in 0..Len(stream) /\ count \in 0..Len(stream)
  /\ raw = [i \in 1..Len(raw) |-> pos - Len(raw) + i] /\ Len(rawdata) < MaxBuf
  /\ pc \in {"read", "empty", "nmea", "wmx", "tapwmx", "tap", "xml", "document", "cli", "text"}
  /\ NMEAparsing \in BOOLEAN /\ WMXparsing \in BOOLEAN /\ XMLparsing \in BOOLEAN
  /\ qMSGin \in Seq(Taking) /\ replies \in Seq(Taking)
  /\ dropped \subseteq 1..pos

\* Bytes of item k did not all reach the parser.
Hurt(k) == items[k] \in Damaged \/ dropped \cap Places(k) # {}

\* Every message on the queue is one thing the other end sent, from its first
\* byte to its last, of its kind, and they are in the order they were sent:
\* wherever the reads are cut, the parser never joins two, splits one or takes
\* one twice.  Only what begins with the head of something that lost its tail
\* runs on into what follows, and a document of which the first byte was skipped
\* takes one too many.  No TAP command is answered twice, and a page is
\* queued just when it is acknowledged.
OneThingEach ==
  /\ \A i \in 1..Len(qMSGin) :
       LET m == qMSGin[i]
           k == stream[m.first].of
       IN \/ /\ items[k] \in Whole /\ m.kind = Kind[items[k]]
             /\ stream[m.first].first /\ stream[m.last].of = k
             /\ stream[m.last].last \/ m.kind = "command"
          \/ m.kind = "ascii"
          \/ Hurt(k)
          \/ stream[m.first].b = "?xml"
  /\ \A q \in {qMSGin, replies} : \A i \in 2..Len(q) : q[i - 1].last < q[i].first
  /\ {m.first : m \in {n \in ToSet(qMSGin) : n.kind = "page"}}
       = {m.first : m \in {n \in ToSet(replies) : n.kind = "ACK"}}

\* What a damaged item may have swallowed ends with the next item of its kind;
\* where bytes were dropped, a header inside the rest may count as well.
Releases(d, j) ==
  /\ items[d] \in {"soh", "cutwmx", "wmx", "wmxd"} => items[j] \in {"wmx", "wmxd"}
  /\ items[d] \in {"cutnmea", "nmea", "wmxd"} => items[j] = "nmea"
  /\ items[d] \in {"cutdoc", "doc"} => items[j] = "doc"
  /\ items[d] \in {"cutpage", "page", "badpage", "unknown"} => items[j] \in {"page", "badpage", "unknown"}
InReach(k) == \E d \in 1..k : Hurt(d) /\ \A j \in d + 1..k - 1 : ~Releases(d, j)

\* What a modem has read behind a sentence, and a computer behind anything,
\* waits in the buffer for the next read.
Waits(k) ==
  /\ Places(k) \subseteq ToSet(raw)
  /\ \/ /\ device = "dWMXmodem" /\ NMEAparsing
        /\ \E i \in 1..Len(qMSGin) : qMSGin[i].kind = "nmea"
     \/ device \in Computers /\ Len(qMSGin) > 0

\* A sentence right behind a frame loses its "$" on a computer.
AfterFrame(k) ==
  device \in Computers /\ items[k] = "nmea" /\ k > 1 /\ items[k - 1] \in {"wmx", "wmxd"}

Is(m, k, kind) == stream[m.first].of = k /\ m.kind = kind
Passed(k) ==
  /\ device \in Servers \cup {"dTerminal"}
  /\ \A p \in Places(k) \ dropped :
       \/ \E m \in ToSet(qMSGin) : p \in m.first..m.last
       \/ device \in Servers /\ p \in ToSet(raw)
Found(k) ==
  /\ items[k] \in Whole => \E m \in ToSet(qMSGin) : Is(m, k, Kind[items[k]])
  /\ items[k] \in {"badpage", "unknown"} => \E m \in ToSet(replies) : Is(m, k, "NAK")
  /\ items[k] = "connect" => \E m \in ToSet(replies) : Is(m, k, "hello")


\* "This instance of the parser will buffer it, and look for the various
\* protocols" (dataparser.cpp:53): a call of parse() ends, also when the last
\* message has come only in part.
ParseReturns == pc # "read" ~> pc = "read"

\* "Pass all ascii or binary data through" (dataparser.cpp:638): nothing a
\* terminal sends is lost.  (What was passed on keeps its room in the buffer, so
\* one read is lost whenever the buffer is full of it.)
AllPassed == device = "dTerminal" => dropped = {}

\* "skip this byte. It is not part of any protocol we know of"
\* (dataparser.cpp:150): what a computer sent is not skipped at the beginning of
\* a sentence.
SkipsNoSentence ==
  [][\A p \in ToSet(before') \ ToSet(before) : device \in Computers => stream[p].b # "$"]_vars
=============================================================================

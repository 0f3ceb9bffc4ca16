------------------------------ MODULE SerialPort ------------------------------
(* Two serial ports as the Comm thread serves them (HandleRS232Comms,        *)
(* CommThread.cpp:814-1104): messages read from the first, which has hardware *)
(* flow control, are routed to the second, a modem that shares its channel    *)
(* and must not send while somebody else is on the air.                       *)
(*                                                                            *)
(* A pass routes what the last pass has read, reads the first port and sets   *)
(* its RTS line, moves the routed messages to the queue of the second, and    *)
(* sends at most one entry of that queue.  Pages that wait in the queue are   *)
(* stitched into one transmission.  Messages are numbered in the order in     *)
(* which the source sends them.                                               *)
EXTENDS Integers, Sequences, SequencesExt

CONSTANTS Setups,        \* the setups considered: traffic and configuration
          MaxQ,          \* maxQcount
          BusyLimit,     \* seconds a busy channel is respected: 5 (the comment at :942 says 4)
          InBuf,         \* messages the driver of the first port holds
          MaxRead,       \* messages that one call of GetChars may read: 255 bytes
          MaxStitch,     \* pages that fit into one transmission
          MaxLost        \* bound: times the gateway throws something away

\* Plain data, a page of one of two protocols, one too long to be framed, one for
\* a pager that is in no table.
Kinds == {"plain", "pageA", "pageB", "long", "unknown"}

\* How the route table names the first port: by its designator, or so that it
\* matches, by ALL or a wildcard.  The second port minds busy channels or not.
Setup == [kind : Seq(Kinds), route : {"named", "matched"}, bcl : BOOLEAN]

ASSUME SerialAssumption ==
  /\ Setups # {} /\ Setups \subseteq Setup
  /\ {MaxQ, BusyLimit, InBuf, MaxRead, MaxStitch} \subseteq Nat \ {0}
  /\ MaxRead <= MaxQ /\ MaxLost \in Nat

VARIABLES
  kind,       \* what each message is
  route,      \* how the route from the first port names it
  bcl,        \* the second port minds a busy channel
  next,       \* the message the source sends next
  line,       \* driver of the first port: messages not yet read
  rts,        \* RTS of the first port: the source may send
  paused,     \* the input of the first port is paused
  qMSGin,     \* messages read and not yet routed
  qTTYout,    \* messages routed to serial ports
  MsgQout,    \* queue of the second port
  cd,         \* somebody is on the air
  ready,      \* CTS is set, the output not paused and the driver empty
  bclState,   \* "WaitForCD" or "CDHigh"
  busyFor,    \* seconds since busyChannelStartTime
  pc,         \* Comm: where it is in its pass
  ticked,     \* a second has begun that no pass has run in yet
  lastSent,   \* history: the last message transmitted
  overflowed, \* history: a message found the queue full
  locked,     \* history: seconds the queue has been locked out this time, up to two too many
  emptied,    \* history: the queue was purged empty during this lock-out
  unheeded,   \* history: a pause left RTS set while the queue was backed up
  lost        \* how often something was thrown away, up to MaxLost

setup   == <<kind, route, bcl>>
inflow  == <<next, line, rts, paused, qMSGin>>
channel == <<cd, ready, bclState, busyFor>>
history == <<locked, emptied, unheeded>>
vars == <<setup, inflow, qTTYout, MsgQout, channel, pc, ticked, lastSent, overflowed, history, lost>>

Messages == 1..Len(kind)
IsPage(m) == kind[m] # "plain"
Entry(m) == [ids |-> <<m>>, page |-> IsPage(m)]

Init ==
  /\ \E s \in Setups : kind = s.kind /\ route = s.route /\ bcl = s.bcl
  /\ next = 1 /\ line = <<>> /\ rts = TRUE /\ paused = FALSE
  /\ qMSGin = <<>> /\ qTTYout = <<>> /\ MsgQout = <<>>
  /\ cd \in BOOLEAN /\ ready \in BOOLEAN /\ bclState = "WaitForCD" /\ busyFor = 0
  /\ pc = "route" /\ ticked = FALSE
  /\ lastSent = 0 /\ overflowed = FALSE /\ locked = 0 /\ emptied = FALSE /\ unheeded = FALSE
  /\ lost = 0

\* Something is thrown away: the gateway is off line, a port paused, a message old.
Loses == lost < MaxLost /\ lost' = lost + 1

--------------------------------------------------------------------------------
(* The first port: what was read is routed, GetChars reads on, and the flow   *)
(* control speaks to the source.                                              *)

Route ==
  /\ pc = "route" /\ pc' = "read"
  /\ qTTYout' = qTTYout \o qMSGin /\ qMSGin' = <<>>
  /\ UNCHANGED <<setup, next, line, rts, paused, MsgQout, channel, ticked, lastSent, overflowed, history, lost>>

\* GetChars takes at most 255 bytes, however many messages they complete.
Read ==
  /\ pc = "read" /\ pc' = "flow" /\ ~paused
  /\ \E n \in 0..Len(line) :
       n <= MaxRead /\ qMSGin' = qMSGin \o SubSeq(line, 1, n) /\ line' = SubSeq(line, n + 1, Len(line))
  /\ UNCHANGED <<setup, next, rts, paused, qTTYout, MsgQout, channel, ticked, lastSent, overflowed, history, lost>>

\* A paused port throws away what it reads.
ReadPaused ==
  /\ pc = "read" /\ pc' = "flow" /\ paused
  /\ \/ UNCHANGED <<line, lost>>
     \/ \E n \in 1..Len(line) : n <= MaxRead /\ line' = SubSeq(line, n + 1, Len(line)) /\ Loses
  /\ UNCHANGED <<setup, next, rts, paused, qMSGin, qTTYout, MsgQout, channel, ticked, lastSent, overflowed, history>>

NeverFull == FALSE                                     \* mutant
MoreThanThreeQuarters == Len(MsgQout) > (3 * MaxQ) \div 4

\* getDestinations finds the routes whose source is the designator of the port and
\* no others, although RouteMSG serves those by ALL and by a wildcard too.
StopInbound == route = "named" /\ MoreThanThreeQuarters

Flow ==
  /\ pc = "flow" /\ pc' = "move"
  /\ UNCHANGED <<setup, next, line, qMSGin, qTTYout, MsgQout, channel, ticked, lastSent, overflowed,
                 locked, emptied, lost>>

SetRTS ==
  /\ Flow /\ ~paused /\ rts' = ~StopInbound
  /\ UNCHANGED <<paused, unheeded>>

\* RTS of a paused port is set, whatever the queues hold.
SetRTSPaused ==
  /\ Flow /\ paused /\ rts' = TRUE
  /\ unheeded' = (unheeded \/ StopInbound)
  /\ UNCHANGED paused

\* The pause ends between its two tests: RTS stays what it was.
PauseEndsInTest ==
  /\ Flow /\ paused /\ paused' = FALSE
  /\ unheeded' = (unheeded \/ (rts /\ StopInbound))
  /\ UNCHANGED rts

--------------------------------------------------------------------------------
(* From qTTYout to the queue of the port.  Me.IsActive is set by other threads *)
(* at any time: each test of it may go either way.                            *)

TakeOne == pc = "move" /\ qTTYout # <<>> /\ qTTYout' = Tail(qTTYout)

OneTooMany == Len(MsgQout) > MaxQ                       \* mutant
NoRoom == Len(MsgQout) >= MaxQ

MoveOne ==
  /\ TakeOne /\ ~NoRoom
  /\ MsgQout' = Append(MsgQout, Entry(Head(qTTYout)))
  /\ UNCHANGED <<setup, inflow, channel, pc, ticked, lastSent, overflowed, history, lost>>

QueueOverflow ==
  /\ TakeOne /\ NoRoom /\ overflowed' = TRUE
  /\ UNCHANGED <<setup, inflow, MsgQout, channel, pc, ticked, lastSent, history, lost>>

MoveOffLine ==
  /\ TakeOne /\ ~NoRoom /\ Loses
  /\ UNCHANGED <<setup, inflow, MsgQout, channel, pc, ticked, lastSent, overflowed, history>>

MoveDone ==
  /\ pc = "move" /\ qTTYout = <<>> /\ pc' = "output"
  /\ UNCHANGED <<setup, inflow, qTTYout, MsgQout, channel, ticked, lastSent, overflowed, history, lost>>

--------------------------------------------------------------------------------
(* The second port: busy channel lock-out, flow control, stitching, sending.  *)

Output ==
  /\ pc = "output" /\ pc' = "route" /\ ticked' = FALSE
  /\ UNCHANGED <<setup, inflow, qTTYout, cd, ready>>

NothingToSend ==
  /\ Output /\ MsgQout = <<>>
  /\ UNCHANGED <<MsgQout, bclState, busyFor, lastSent, overflowed, history, lost>>

TimerStarts ==
  /\ bclState = "WaitForCD" /\ cd /\ bclState' = "CDHigh" /\ busyFor' = 0
TimerIgnored ==                                        \* mutant: only a carrier that drops ends it
  /\ bclState = "CDHigh" /\ cd /\ UNCHANGED <<bclState, busyFor>>
TimerRuns ==
  /\ bclState = "CDHigh" /\ cd /\ busyFor <= BusyLimit /\ UNCHANGED <<bclState, busyFor>>
TimerOver ==                                           \* mutant: one second early
  /\ bcl /\ bclState = "WaitForCD" => ~cd
  /\ bcl /\ bclState = "CDHigh" => ~cd \/ busyFor >= BusyLimit
  /\ bclState' = "WaitForCD" /\ busyFor' = 0
ChannelFree ==
  /\ bcl /\ bclState = "WaitForCD" => ~cd
  /\ bcl /\ bclState = "CDHigh" => ~cd \/ busyFor > BusyLimit
  /\ bclState' = "WaitForCD" /\ busyFor' = 0

LockedOut ==
  /\ Output /\ MsgQout # <<>> /\ bcl /\ (TimerStarts \/ TimerRuns)
  /\ UNCHANGED <<MsgQout, lastSent, overflowed, history, lost>>

NotReady ==
  /\ Output /\ MsgQout # <<>> /\ ChannelFree /\ ~ready
  /\ locked' = 0 /\ emptied' = FALSE /\ UNCHANGED <<MsgQout, lastSent, overflowed, unheeded, lost>>

CanSend ==
  /\ Output /\ MsgQout # <<>> /\ ChannelFree /\ ready
  /\ locked' = 0 /\ emptied' = FALSE /\ UNCHANGED unheeded

First == Head(MsgQout).ids[1]
PageOf(k) == {"pageA", "pageB"} \cap {k}

\* The pages at the head of the queue that have the protocol of the first.
Stitchable ==
  {n \in 1..Len(MsgQout) : n <= MaxStitch /\
     \A i \in 1..n : MsgQout[i].page /\ kind[MsgQout[i].ids[1]] \in PageOf(kind[First])}

BackAtTheEnd(burst, rest) == Append(rest, burst)       \* mutant
BackInFront(burst, rest) == <<burst>> \o rest

\* What fits is taken; the transmission goes back to the head of the queue.
Stitch ==
  /\ CanSend /\ Head(MsgQout).page
  /\ \E n \in Stitchable :
       MsgQout' = BackInFront([ids |-> [i \in 1..n |-> MsgQout[i].ids[1]], page |-> FALSE],
                              SubSeq(MsgQout, n + 1, Len(MsgQout)))
  /\ UNCHANGED <<lastSent, overflowed, lost>>

\* The pager is unknown, or the frame would be too large: the page was popped.
PageGivenUp ==
  /\ CanSend /\ Head(MsgQout).page /\ kind[First] \in {"unknown", "long"}
  /\ MsgQout' = Tail(MsgQout)
  /\ UNCHANGED <<lastSent, overflowed, lost>>

Transmit ==
  /\ CanSend /\ ~Head(MsgQout).page
  /\ MsgQout' = Tail(MsgQout) /\ lastSent' = Last(Head(MsgQout).ids)
  /\ UNCHANGED <<overflowed, lost>>

PopOffLine ==
  /\ CanSend /\ ~Head(MsgQout).page /\ MsgQout' = Tail(MsgQout) /\ Loses
  /\ UNCHANGED <<lastSent, overflowed>>

\* PurgeOldMessages, which Comm calls between passes: the head is too old.
Purge ==
  /\ pc = "route" /\ MsgQout # <<>>
  /\ MsgQout' = Tail(MsgQout) /\ Loses
  /\ \/ Len(MsgQout) > 1 /\ UNCHANGED <<locked, emptied>>
     \/ Len(MsgQout) = 1 /\ locked' = 0 /\ emptied' = (bclState = "CDHigh")
  /\ UNCHANGED <<setup, inflow, qTTYout, channel, pc, ticked, lastSent, overflowed, unheeded>>

--------------------------------------------------------------------------------
(* The source, the channel, the console and the time.                         *)

SourceSends ==
  /\ rts /\ next <= Len(kind) /\ Len(line) < InBuf
  /\ line' = Append(line, next) /\ next' = next + 1
  /\ UNCHANGED <<setup, rts, paused, qMSGin, qTTYout, MsgQout, channel, pc, ticked, lastSent, overflowed, history, lost>>

\* The console pauses the input, for a time, or lets it go on.
PauseChanges ==
  /\ paused' = ~paused
  /\ UNCHANGED <<setup, next, line, rts, qMSGin, qTTYout, MsgQout, channel, pc, ticked, lastSent, overflowed, history, lost>>

\* A carrier comes or goes; a port that does not mind never looks.
CarrierChanges ==
  /\ bcl /\ cd' = ~cd
  /\ UNCHANGED <<setup, inflow, qTTYout, MsgQout, ready, bclState, busyFor,
                 pc, ticked, lastSent, overflowed, history, lost>>

LineChanges ==
  /\ ready' = ~ready
  /\ UNCHANGED <<setup, inflow, qTTYout, MsgQout, cd, bclState, busyFor,
                 pc, ticked, lastSent, overflowed, history, lost>>

\* A second of a lock-out passes; a pass takes less than one.
Tick ==
  /\ bclState = "CDHigh" /\ ~ticked /\ ticked' = TRUE
  /\ busyFor' = IF busyFor <= BusyLimit THEN busyFor + 1 ELSE busyFor
  /\ locked' = IF MsgQout # <<>> /\ locked <= BusyLimit + 1 THEN locked + 1 ELSE locked
  /\ UNCHANGED <<setup, inflow, qTTYout, MsgQout, cd, ready, bclState,
                 pc, lastSent, overflowed, emptied, unheeded, lost>>

Pass ==
  \/ Route \/ Read \/ ReadPaused \/ SetRTS \/ SetRTSPaused \/ PauseEndsInTest
  \/ MoveOne \/ QueueOverflow \/ MoveOffLine \/ MoveDone
  \/ NothingToSend \/ LockedOut \/ NotReady \/ Stitch \/ PageGivenUp \/ Transmit \/ PopOffLine

Next ==
  \/ Pass \/ Purge \/ Tick
  \/ SourceSends \/ PauseChanges \/ CarrierChanges \/ LineChanges

\* Comm runs for ever and so does the clock.
Spec == Init /\ [][Next]_vars
FairSpec == Spec /\ WF_vars(Pass) /\ WF_vars(Tick)

--------------------------------------------------------------------------------
QueuedIds == FlattenSeq([i \in DOMAIN MsgQout |-> MsgQout[i].ids])

Way == QueuedIds \o qTTYout \o qMSGin \o line

\* Queues and timers keep to their ranges; a lock-out ends after BusyLimit seconds
\* and one pass, however the carrier comes and goes.
TypeOK ==
  /\ [kind |-> kind, route |-> route, bcl |-> bcl] \in Setups
  /\ next \in 1..(Len(kind) + 1) /\ Len(line) <= InBuf
  /\ Len(qMSGin) <= MaxRead /\ Len(qTTYout) <= MaxRead /\ Len(MsgQout) <= MaxQ
  /\ \A i \in DOMAIN MsgQout : MsgQout[i].page \in BOOLEAN /\ Len(MsgQout[i].ids) \in 1..MaxStitch
  /\ {rts, paused, cd, ready, ticked, emptied, unheeded, overflowed} \subseteq BOOLEAN
  /\ bclState \in {"WaitForCD", "CDHigh"} /\ busyFor \in 0..(BusyLimit + 1)
  /\ pc \in {"route", "read", "flow", "move", "output"} /\ locked \in 0..(BusyLimit + 1)
  /\ lastSent \in 0..Len(kind) /\ lost \in 0..MaxLost

\* What is on its way keeps its order through the stitching, which takes pages
\* out of the queue and puts a transmission back in front, and is newer than what
\* was sent: no message is transmitted twice, or after a younger one.
OnceInOrder ==
  /\ \A i \in 1..(Len(Way) - 1) : Way[i] < Way[i + 1]
  /\ \A i \in DOMAIN Way : lastSent < Way[i] /\ Way[i] < next

\* A source that obeys RTS never overflows the queue of the port it is routed to,
\* but for what the code does against its comments: a pause sets RTS (SerialPaused)
\* and a route by ALL or a wildcard is not found (SerialRoutes).
BackPressure == overflowed => unheeded \/ route = "matched"

\* Nothing is transmitted while somebody is on the air before the lock-out has
\* lasted its time, with one exception: a queue purged empty during a lock-out
\* leaves the old timer to the next message.
BusyChannelRespected ==
  [][lastSent' # lastSent /\ bcl /\ cd => locked > BusyLimit \/ emptied]_vars

\* A channel that is busy for ever, or comes and goes, holds nothing up for ever:
\* once the rest of the line stays ready the queues empty, and once nobody pauses
\* the input any more RTS is set again and the source can go on.
Drains ==
  <>[]ready => /\ <>[](qMSGin = <<>> /\ qTTYout = <<>> /\ MsgQout = <<>>)
               /\ <>[]~paused => <>[](pc = "route" => rts)

--------------------------------------------------------------------------------
(* What the comments promise and the code does not do; see the README.        *)

\* "If we are input-paused and hardware flow control is on, tell the source not to
\* send anything": while the input stays paused, the test leaves RTS clear.
PausedSourceIsHeld == [][pc = "flow" /\ paused /\ paused' /\ pc' # pc => ~rts']_vars

\* "See if anything we are routing to is getting backed up. If so, we'll try to tell
\* the source of messages (this TTY) to slow it down": without a pause nothing is lost.
NoPauseNoOverflow == overflowed => unheeded
================================================================================

--------------------------- MODULE SerialPortProofs ---------------------------
(* Two serial ports, for any traffic, any queue, any buffer of the driver and  *)
(* any time a busy channel is respected.                                       *)
(*                                                                             *)
(* The invariant says how the messages under way are ordered among themselves  *)
(* and against the last one sent and the next one to come, how the time of a   *)
(* lock-out counted by the code relates to the time it really lasted, and what *)
(* the queues may hold while the source obeys RTS.                             *)
EXTENDS SerialPort, TLAPS, FiniteSetTheorems, WellFoundedInduction

Entries == [ids : Seq(Messages), page : BOOLEAN]

Shapes ==
  /\ [kind |-> kind, route |-> route, bcl |-> bcl] \in Setups
  /\ next \in 1..(Len(kind) + 1) /\ lastSent \in 0..Len(kind) /\ lost \in 0..MaxLost
  /\ line \in Seq(Messages) /\ qMSGin \in Seq(Messages) /\ qTTYout \in Seq(Messages)
  /\ MsgQout \in Seq(Entries)
  /\ rts \in BOOLEAN /\ paused \in BOOLEAN /\ cd \in BOOLEAN /\ ready \in BOOLEAN /\ ticked \in BOOLEAN
  /\ emptied \in BOOLEAN /\ unheeded \in BOOLEAN /\ overflowed \in BOOLEAN
  /\ bclState \in {"WaitForCD", "CDHigh"} /\ busyFor \in 0..(BusyLimit + 1)
  /\ pc \in {"route", "read", "flow", "move", "output"} /\ locked \in 0..(BusyLimit + 1)

(* The queues keep to their limits; a page has not been stitched yet.        *)
Limits ==
  /\ Len(line) <= InBuf /\ Len(qMSGin) <= MaxRead /\ Len(qTTYout) <= MaxRead /\ Len(MsgQout) <= MaxQ
  /\ pc \in {"route", "output"} => qTTYout = <<>>
  /\ pc = "read" => qMSGin = <<>>
  /\ \A i \in 1..Len(MsgQout) : /\ Len(MsgQout[i].ids) \in 1..MaxStitch
                                /\ MsgQout[i].page => Len(MsgQout[i].ids) = 1

(* The queue after its first n pages have been stitched.                      *)
StitchedQ(n) == BackInFront([ids |-> [i \in 1..n |-> MsgQout[i].ids[1]], page |-> FALSE],
                            SubSeq(MsgQout, n + 1, Len(MsgQout)))

Increasing(s) == \A i, j \in 1..Len(s) : i < j => s[i] < s[j]
Before(s, t)  == \A i \in 1..Len(s), j \in 1..Len(t) : s[i] < t[j]
After(n, s)   == \A i \in 1..Len(s) : n < s[i]
Till(s, n)    == \A i \in 1..Len(s) : s[i] < n

(* The messages under way, from the youngest to the oldest.                  *)
InOrder ==
  /\ Increasing(line) /\ Till(line, next) /\ After(lastSent, line)
  /\ Increasing(qMSGin) /\ Till(qMSGin, next) /\ After(lastSent, qMSGin)
  /\ Increasing(qTTYout) /\ Till(qTTYout, next) /\ After(lastSent, qTTYout)
  /\ Before(qMSGin, line) /\ Before(qTTYout, qMSGin) /\ Before(qTTYout, line) /\ lastSent < next

(* A sequence that is older than all that is not in the queue yet.           *)
Ahead(s) == Before(s, qTTYout) /\ Before(s, qMSGin) /\ Before(s, line)

QueueInOrder ==
  /\ \A i \in 1..Len(MsgQout) :
       /\ Increasing(MsgQout[i].ids) /\ Till(MsgQout[i].ids, next) /\ After(lastSent, MsgQout[i].ids)
       /\ Ahead(MsgQout[i].ids)
  /\ \A i, j \in 1..Len(MsgQout) : i < j => Before(MsgQout[i].ids, MsgQout[j].ids)

(* The lock-out is timed by the seconds in CDHigh.  It lasted no longer, and *)
(* no shorter unless the queue was purged empty in between.                  *)
Timed ==
  /\ bclState = "WaitForCD" => locked = 0
  /\ bclState = "CDHigh" =>
       /\ locked <= busyFor
       /\ emptied \/ (busyFor <= locked /\ MsgQout # <<>>)
       /\ MsgQout = <<>> \/ (~ticked /\ busyFor > BusyLimit) => locked = 0

(* RTS leaves room for all that is under way when it falls: one call's read   *)
(* that is being routed, one that waits to be, the one that follows before RTS *)
(* is looked at again, and what the driver holds.                              *)
Held == (3 * MaxQ) \div 4
Roomy == 3 * MaxRead + InBuf <= MaxQ - Held
Routed == Len(MsgQout) + Len(qTTYout) + Len(qMSGin)
Restrained ==
  Roomy /\ ~unheeded /\ route = "named" =>
    /\ ~overflowed
    /\ Routed + Len(line) <= Held + 3 * MaxRead + InBuf
    /\ rts => Routed <= Held + 3 * MaxRead
    /\ rts /\ pc # "flow" => Routed <= Held + 2 * MaxRead

IInv == Shapes /\ Limits /\ InOrder /\ QueueInOrder /\ Timed /\ Restrained

-----------------------------------------------------------------------------
(* Sequences of numbers, and how they compare.                               *)

LEMMA Numbers ==
  /\ MaxQ \in Nat \ {0} /\ BusyLimit \in Nat \ {0} /\ InBuf \in Nat \ {0} /\ MaxStitch \in Nat \ {0}
  /\ MaxRead \in Nat \ {0} /\ MaxRead <= MaxQ /\ MaxLost \in Nat /\ Held \in Int
BY SerialAssumption DEF Held

LEMMA Tails ==
  ASSUME NEW S, NEW s \in Seq(S), s # <<>>
  PROVE  /\ Len(s) \in Nat \ {0} /\ Head(s) = s[1] /\ s[1] \in S
         /\ Tail(s) \in Seq(S) /\ Len(Tail(s)) = Len(s) - 1
         /\ \A i \in 1..(Len(s) - 1) : Tail(s)[i] = s[i + 1]
OBVIOUS

LEMMA TailOrder ==
  ASSUME NEW S, S \subseteq Int, NEW s \in Seq(S), s # <<>>
  PROVE  /\ Increasing(s) => Increasing(Tail(s)) /\ After(Head(s), Tail(s))
         /\ \A n \in Int : After(n, s) => After(n, Tail(s)) /\ n < Head(s)
         /\ \A n \in Int : Till(s, n) => Till(Tail(s), n) /\ Head(s) < n
         /\ \A t : Before(s, t) => Before(Tail(s), t) /\ After(Head(s), t)
         /\ \A t : Before(t, s) => Before(t, Tail(s)) /\ Till(t, Head(s))
<1> DEFINE t == Tail(s)
<1>1. /\ Len(s) \in Nat \ {0} /\ Head(s) = s[1] /\ Len(t) = Len(s) - 1 /\ 1 \in 1..Len(s)
      /\ \A i \in 1..Len(t) : t[i] = s[i + 1] /\ i + 1 \in 1..Len(s) /\ 1 < i + 1
  BY Tails
<1>2. \A i, j \in 1..Len(t) : i < j => i + 1 < j + 1
  BY <1>1
<1> HIDE DEF t
<1>3. Increasing(s) => Increasing(t) /\ After(Head(s), t)
  BY <1>1, <1>2 DEF Increasing, After
<1>4. \A n \in Int : After(n, s) => After(n, t) /\ n < Head(s)
  BY <1>1 DEF After
<1>5. \A n \in Int : Till(s, n) => Till(t, n) /\ Head(s) < n
  BY <1>1 DEF Till
<1>6. \A u : Before(s, u) => Before(t, u) /\ After(Head(s), u)
  BY <1>1 DEF Before, After
<1>7. \A u : Before(u, s) => Before(u, t) /\ Till(u, Head(s))
  BY <1>1 DEF Before, Till
<1> QED BY <1>3, <1>4, <1>5, <1>6, <1>7 DEF t

LEMMA Nothing ==
  /\ Increasing(<<>>) /\ \A n : After(n, <<>>) /\ Till(<<>>, n)
  /\ \A t : Before(<<>>, t) /\ Before(t, <<>>)
<1>1. Len(<<>>) = 0 /\ 1..0 = {}
  OBVIOUS
<1> QED BY <1>1 DEF Increasing, After, Till, Before

LEMMA Alone ==
  ASSUME NEW x \in Int
  PROVE  /\ Len(<<x>>) = 1 /\ Increasing(<<x>>)
         /\ \A n : (After(n, <<x>>) <=> n < x) /\ (Till(<<x>>, n) <=> x < n)
         /\ \A t : (Before(<<x>>, t) <=> After(x, t)) /\ (Before(t, <<x>>) <=> Till(t, x))
<1> DEFINE s == <<x>>
<1>1. Len(s) = 1 /\ s[1] = x /\ 1..1 = {1}
  OBVIOUS
<1> HIDE DEF s
<1>2. Increasing(s) /\ \A n : (After(n, s) <=> n < x) /\ (Till(s, n) <=> x < n)
  BY <1>1 DEF Increasing, After, Till
<1>3. \A t : (Before(s, t) <=> After(x, t)) /\ (Before(t, s) <=> Till(t, x))
  BY <1>1 DEF Before, After, Till
<1> QED BY <1>1, <1>2, <1>3 DEF s

(* One sequence behind the other.                                            *)
LEMMA Joined ==
  ASSUME NEW S, S \subseteq Int, NEW s \in Seq(S), NEW t \in Seq(S)
  PROVE  /\ s \o t \in Seq(S) /\ Len(s \o t) = Len(s) + Len(t)
         /\ Increasing(s) /\ Increasing(t) /\ Before(s, t) => Increasing(s \o t)
         /\ \A n \in Int : After(n, s) /\ After(n, t) => After(n, s \o t)
         /\ \A n \in Int : Till(s, n) /\ Till(t, n) => Till(s \o t, n)
         /\ \A u : Before(s, u) /\ Before(t, u) => Before(s \o t, u)
         /\ \A u : Before(u, s) /\ Before(u, t) => Before(u, s \o t)
<1> DEFINE w == s \o t
<1>1. /\ w \in Seq(S) /\ Len(w) = Len(s) + Len(t) /\ Len(s) \in Nat /\ Len(t) \in Nat
      /\ \A i \in 1..Len(w) : \/ i \in 1..Len(s) /\ w[i] = s[i]
                              \/ i - Len(s) \in 1..Len(t) /\ w[i] = t[i - Len(s)] /\ i > Len(s)
  OBVIOUS
<1> HIDE DEF w
<1>2. ASSUME Increasing(s), Increasing(t), Before(s, t) PROVE Increasing(w)
  <2> SUFFICES ASSUME NEW i \in 1..Len(w), NEW j \in 1..Len(w), i < j PROVE w[i] < w[j]
    BY DEF Increasing
  <2>1. CASE i \in 1..Len(s) /\ j \in 1..Len(s)
    BY <1>1, <1>2, <2>1 DEF Increasing
  <2>2. CASE i \in 1..Len(s) /\ j > Len(s)
    <3>1. w[i] = s[i] /\ w[j] = t[j - Len(s)] /\ j - Len(s) \in 1..Len(t)
      BY <1>1, <2>2
    <3> QED BY <1>2, <2>2, <3>1 DEF Before
  <2>3. CASE i > Len(s) /\ j > Len(s)
    <3>1. i - Len(s) < j - Len(s) /\ i - Len(s) \in 1..Len(t) /\ j - Len(s) \in 1..Len(t)
      BY <1>1, <2>3
    <3>2. w[i] = t[i - Len(s)] /\ w[j] = t[j - Len(s)]
      BY <1>1, <2>3
    <3>3. t[i - Len(s)] < t[j - Len(s)]
      BY <1>2, <3>1 DEF Increasing
    <3> QED BY <3>2, <3>3
  <2> QED BY <1>1, <2>1, <2>2, <2>3
<1>3. \A n \in Int : After(n, s) /\ After(n, t) => After(n, w)
  BY <1>1 DEF After
<1>4. \A n \in Int : Till(s, n) /\ Till(t, n) => Till(w, n)
  BY <1>1 DEF Till
<1>5. \A u : Before(s, u) /\ Before(t, u) => Before(w, u)
  BY <1>1 DEF Before
<1>6. \A u : Before(u, s) /\ Before(u, t) => Before(u, w)
  BY <1>1 DEF Before
<1> QED BY <1>1, <1>2, <1>3, <1>4, <1>5, <1>6 DEF w

LEMMA Appended ==
  ASSUME NEW S, NEW s \in Seq(S), NEW x \in S
  PROVE  /\ Append(s, x) = s \o <<x>> /\ <<x>> \in Seq(S)
         /\ Append(s, x) \in Seq(S) /\ Len(Append(s, x)) = Len(s) + 1 /\ Len(s) \in Nat
         /\ \A i \in 1..Len(s) : Append(s, x)[i] = s[i]
         /\ Append(s, x)[Len(s) + 1] = x
OBVIOUS

(* A sequence in two parts.                                                  *)
LEMMA CutIn2 ==
  ASSUME NEW S, S \subseteq Int, NEW s \in Seq(S), NEW n \in 0..Len(s)
  PROVE  LET p == SubSeq(s, 1, n)  r == SubSeq(s, n + 1, Len(s))
         IN  /\ p \in Seq(S) /\ r \in Seq(S) /\ Len(p) = n /\ Len(r) = Len(s) - n /\ Len(s) \in Nat
             /\ Increasing(s) => Increasing(p) /\ Increasing(r) /\ Before(p, r)
             /\ \A m \in Int : After(m, s) => After(m, p) /\ After(m, r)
             /\ \A m \in Int : Till(s, m) => Till(p, m) /\ Till(r, m)
             /\ \A u : Before(u, s) => Before(u, p) /\ Before(u, r)
<1> DEFINE p == SubSeq(s, 1, n)
<1> DEFINE r == SubSeq(s, n + 1, Len(s))
<1>1. /\ Len(s) \in Nat /\ n \in Nat /\ n <= Len(s) /\ p \in Seq(S) /\ r \in Seq(S)
      /\ Len(p) = n /\ Len(r) = Len(s) - n
      /\ \A i \in 1..Len(p) : p[i] = s[i] /\ i \in 1..Len(s)
      /\ \A i \in 1..Len(r) : r[i] = s[n + i] /\ n + i \in 1..Len(s)
  OBVIOUS
<1>2. /\ \A i, j \in 1..Len(r) : i < j => n + i < n + j
      /\ \A i \in 1..Len(p), j \in 1..Len(r) : i < n + j
  BY <1>1
<1> HIDE DEF p, r
<1>3. Increasing(s) => Increasing(p) /\ Increasing(r) /\ Before(p, r)
  BY <1>1, <1>2 DEF Increasing, Before
<1>4. \A m \in Int : After(m, s) => After(m, p) /\ After(m, r)
  BY <1>1 DEF After
<1>5. \A m \in Int : Till(s, m) => Till(p, m) /\ Till(r, m)
  BY <1>1 DEF Till
<1>6. \A u : Before(u, s) => Before(u, p) /\ Before(u, r)
  BY <1>1 DEF Before
<1> QED BY <1>1, <1>3, <1>4, <1>5, <1>6 DEF p, r

LEMMA MessageNumbers ==
  Shapes => /\ Len(kind) \in Nat /\ Messages \subseteq Int /\ Messages \subseteq Nat /\ kind \in Seq(Kinds)
            /\ next \in Int /\ lastSent \in Int
<1>1. Shapes => kind \in Seq(Kinds)
  <2>1. Shapes => [kind |-> kind, route |-> route, bcl |-> bcl] \in Setup
    BY SerialAssumption DEF Shapes
  <2> QED BY <2>1 DEF Setup
<1>2. Shapes => Len(kind) \in Nat
  BY <1>1
<1> QED BY <1>1, <1>2 DEF Shapes, Messages

-----------------------------------------------------------------------------
(* The flow of the messages.                                                 *)

(* The front of the queue leaves.                                            *)
LEMMA FrontLeaves ==
  ASSUME Shapes, Limits, QueueInOrder, MsgQout # <<>>
  PROVE  /\ Tail(MsgQout) \in Seq(Entries) /\ Len(Tail(MsgQout)) = Len(MsgQout) - 1
         /\ Len(MsgQout) \in Nat \ {0} /\ Head(MsgQout) = MsgQout[1] /\ 1 \in 1..Len(MsgQout)
         /\ \A i \in 1..Len(Tail(MsgQout)) : Tail(MsgQout)[i] = MsgQout[i + 1] /\ i + 1 \in 1..Len(MsgQout)
         /\ \A i, j \in 1..Len(Tail(MsgQout)) : i < j => i + 1 < j + 1
<1>1. MsgQout \in Seq(Entries)
  BY DEF Shapes
<1> QED BY <1>1, Tails

(* What is taken from qTTYout was the oldest there.                          *)
LEMMA Taken ==
  ASSUME IInv, TakeOne
  PROVE  /\ qTTYout' \in Seq(Messages) /\ Len(qTTYout') = Len(qTTYout) - 1 /\ Len(qTTYout) \in Nat \ {0}
         /\ Head(qTTYout) \in Messages /\ qTTYout' = Tail(qTTYout) /\ pc = "move"
<1>1. qTTYout \in Seq(Messages)
  BY DEF IInv, Shapes
<1> QED BY <1>1, Tails DEF TakeOne

(* Every entry of the queue is a sequence of messages, young ones last.      *)
LEMMA EntryShape ==
  ASSUME Shapes, NEW i \in 1..Len(MsgQout)
  PROVE  /\ MsgQout[i] \in Entries /\ MsgQout[i].ids \in Seq(Messages) /\ MsgQout[i].page \in BOOLEAN
         /\ Len(MsgQout[i].ids) \in Nat
<1>1. MsgQout \in Seq(Entries)
  BY DEF Shapes
<1>2. MsgQout[i] \in Entries
  BY <1>1
<1> QED BY <1>2 DEF Entries

(* What a transmission stitched of the first n pages of the queue looks like. *)
LEMMA Stitched ==
  ASSUME IInv, NEW n \in Stitchable
  PROVE  /\ n \in 1..MaxStitch /\ n \in 1..Len(MsgQout) /\ n \in Nat
         /\ StitchedQ(n) \in Seq(Entries) /\ Len(StitchedQ(n)) = Len(MsgQout) - n + 1
         /\ StitchedQ(n)[1].ids = [i \in 1..n |-> MsgQout[i].ids[1]] /\ StitchedQ(n)[1].page = FALSE
         /\ Len(StitchedQ(n)[1].ids) = n
         /\ \A i \in 2..Len(StitchedQ(n)) :
              StitchedQ(n)[i] = MsgQout[n + i - 1] /\ n + i - 1 \in 1..Len(MsgQout)
         /\ \A i \in 1..n : Len(MsgQout[i].ids) = 1 /\ MsgQout[i].ids[1] \in Messages
<1> DEFINE burst == [ids |-> [i \in 1..n |-> MsgQout[i].ids[1]], page |-> FALSE]
<1> DEFINE rest  == SubSeq(MsgQout, n + 1, Len(MsgQout))
<1> DEFINE q     == <<burst>> \o rest
<1>1. MsgQout \in Seq(Entries) /\ Len(MsgQout) \in Nat
  BY DEF IInv, Shapes
<1>2. n \in 1..Len(MsgQout) /\ n <= MaxStitch /\ \A i \in 1..n : MsgQout[i].page
  BY DEF Stitchable
<1>3. n \in Nat /\ n \in 1..MaxStitch /\ 1..n \subseteq 1..Len(MsgQout)
  BY <1>1, <1>2, Numbers
<1>4. \A i \in 1..n : Len(MsgQout[i].ids) = 1 /\ MsgQout[i].ids[1] \in Messages
  <2> TAKE i \in 1..n
  <2>1. i \in 1..Len(MsgQout) /\ MsgQout[i].page
    BY <1>2, <1>3
  <2>2. Len(MsgQout[i].ids) = 1 /\ MsgQout[i].ids \in Seq(Messages)
    BY <2>1, EntryShape DEF IInv, Limits
  <2> QED BY <2>2
<1>5. burst.ids \in Seq(Messages) /\ Len(burst.ids) = n
  <2>1. burst.ids = [i \in 1..n |-> MsgQout[i].ids[1]] /\ burst.ids \in [1..n -> Messages]
    BY <1>4
  <2> QED BY <1>3, <2>1
<1>6. burst \in Entries /\ burst.page = FALSE
  BY <1>5 DEF Entries
<1>7. /\ rest \in Seq(Entries) /\ Len(rest) = Len(MsgQout) - n
      /\ \A i \in 1..Len(rest) : rest[i] = MsgQout[n + i]
  BY <1>1, <1>2, <1>3
<1> HIDE DEF burst, rest
<1>8. <<burst>> \in Seq(Entries) /\ Len(<<burst>>) = 1 /\ <<burst>>[1] = burst
  BY <1>6
<1>9. /\ q \in Seq(Entries) /\ Len(q) = 1 + Len(rest) /\ q[1] = burst
      /\ \A i \in 2..Len(q) : q[i] = rest[i - 1] /\ i - 1 \in 1..Len(rest)
  BY <1>7, <1>8
<1> HIDE DEF q
<1>10. \A i \in 2..Len(q) : q[i] = MsgQout[n + i - 1] /\ n + i - 1 \in 1..Len(MsgQout)
  <2> TAKE i \in 2..Len(q)
  <2>1. i - 1 \in 1..Len(rest) /\ q[i] = rest[i - 1] /\ i \in Int
    BY <1>9
  <2>2. rest[i - 1] = MsgQout[n + (i - 1)] /\ n + (i - 1) = n + i - 1
    BY <1>3, <1>7, <2>1
  <2> QED BY <1>1, <1>3, <1>7, <2>1, <2>2
<1>11. q = StitchedQ(n)
  BY DEF q, burst, rest, BackInFront, StitchedQ
<1>12. burst.ids = [i \in 1..n |-> MsgQout[i].ids[1]]
  BY DEF burst
<1>13. Len(q) = Len(MsgQout) - n + 1
  BY <1>1, <1>3, <1>7, <1>9
<1> QED BY <1>1, <1>2, <1>3, <1>4, <1>5, <1>6, <1>9, <1>10, <1>11, <1>12, <1>13

LEMMA TrafficStays ==
  [Next]_vars => /\ kind' = kind /\ route' = route /\ bcl' = bcl
                 /\ Messages' = Messages /\ Entries' = Entries
<1>1. [Next]_vars => kind' = kind /\ route' = route /\ bcl' = bcl
  BY DEF Next, Pass, Route, Read, ReadPaused, Flow, SetRTS, SetRTSPaused, PauseEndsInTest, MoveOne, QueueOverflow, MoveOffLine, MoveDone, Output,
         NothingToSend, LockedOut, NotReady, CanSend, Stitch, PageGivenUp, Transmit, PopOffLine, Purge,
         SourceSends, PauseChanges, CarrierChanges, LineChanges, Tick, vars, setup, inflow
<1> QED BY <1>1 DEF Messages, Entries

-----------------------------------------------------------------------------
(* The types and the limits of the queues.                                   *)

(* What a step leaves alone of the flow of the messages.                     *)
QueueStays == MsgQout' = MsgQout
FlowStays == qTTYout' = qTTYout /\ qMSGin' = qMSGin /\ line' = line /\ next' = next

(* A step of the timer stays in its range.                                   *)
LEMMA TimerRange ==
  ASSUME IInv, [Next]_vars
  PROVE  /\ bclState' \in {"WaitForCD", "CDHigh"} /\ busyFor' \in 0..(BusyLimit + 1)
         /\ locked' \in 0..(BusyLimit + 1)
<1>1. /\ bclState \in {"WaitForCD", "CDHigh"} /\ busyFor \in 0..(BusyLimit + 1)
      /\ locked \in 0..(BusyLimit + 1) /\ 0 \in 0..(BusyLimit + 1)
  BY Numbers DEF IInv, Shapes
<1>2. CASE Tick
  <2>1. busyFor' \in 0..(BusyLimit + 1)
    BY <1>1, <1>2, Numbers DEF Tick
  <2>2. ASSUME bclState = "CDHigh", MsgQout # <<>>, locked <= BusyLimit + 1
        PROVE  locked + 1 \in 0..(BusyLimit + 1)
    <3>1. ~ticked /\ (busyFor > BusyLimit => locked = 0) /\ locked <= busyFor
      BY <1>2, <2>2 DEF Tick, IInv, Timed
    <3> QED BY <1>1, <3>1, Numbers
  <2> QED BY <1>1, <1>2, <2>1, <2>2 DEF Tick
<1>3. CASE LockedOut
  BY <1>1, <1>3 DEF LockedOut, TimerStarts, TimerRuns, history
<1>4. CASE CanSend \/ NotReady
  BY <1>1, <1>4 DEF CanSend, NotReady, ChannelFree
<1>5. CASE Purge
  BY <1>1, <1>5 DEF Purge, channel
<1>6. CASE UNCHANGED <<bclState, busyFor, locked>>
  BY <1>1, <1>6
<1>7. Tick \/ LockedOut \/ CanSend \/ NotReady \/ Purge \/ UNCHANGED <<bclState, busyFor, locked>>
  BY DEF Next, Pass, Route, Read, ReadPaused, Flow, SetRTS, SetRTSPaused, PauseEndsInTest, MoveOne, QueueOverflow, MoveOffLine, MoveDone,
         NothingToSend, Stitch, PageGivenUp, Transmit, PopOffLine, SourceSends, PauseChanges, CarrierChanges, LineChanges,
         vars, channel, history
<1> QED BY <1>2, <1>3, <1>4, <1>5, <1>6, <1>7

(* The flags, the losses and the place in the pass.                          *)
LEMMA FlagRange ==
  ASSUME IInv, [Next]_vars
  PROVE  /\ rts' \in BOOLEAN /\ paused' \in BOOLEAN /\ cd' \in BOOLEAN /\ ready' \in BOOLEAN
         /\ ticked' \in BOOLEAN /\ emptied' \in BOOLEAN /\ unheeded' \in BOOLEAN
         /\ overflowed' \in BOOLEAN /\ lost' \in 0..MaxLost
         /\ pc' \in {"route", "read", "flow", "move", "output"}
<1>1. /\ rts \in BOOLEAN /\ paused \in BOOLEAN /\ cd \in BOOLEAN /\ ready \in BOOLEAN
      /\ ticked \in BOOLEAN /\ emptied \in BOOLEAN /\ unheeded \in BOOLEAN
      /\ overflowed \in BOOLEAN /\ lost \in 0..MaxLost /\ MaxLost \in Nat
      /\ pc \in {"route", "read", "flow", "move", "output"}
  BY Numbers DEF IInv, Shapes
<1>2. /\ rts' = rts \/ rts' = TRUE \/ rts' = ~StopInbound
      /\ unheeded' = unheeded \/ unheeded' = (unheeded \/ StopInbound)
         \/ unheeded' = (unheeded \/ (rts /\ StopInbound))
      /\ paused' = paused \/ paused' = FALSE \/ paused' = ~paused
  BY DEF Next, Pass, Route, Read, ReadPaused, Flow, SetRTS, SetRTSPaused, PauseEndsInTest, MoveOne, QueueOverflow,
         MoveOffLine, MoveDone, Output, NothingToSend, LockedOut, NotReady, CanSend, Stitch, PageGivenUp, Transmit,
         PopOffLine, Purge, SourceSends, PauseChanges, CarrierChanges, LineChanges, Tick, vars, inflow, history
<1>3. /\ cd' \in {cd, ~cd} /\ ready' \in {ready, ~ready}
      /\ overflowed' = overflowed \/ overflowed' = TRUE
      /\ ticked' = ticked \/ ticked' = FALSE \/ ticked' = TRUE
      /\ emptied' = emptied \/ emptied' = FALSE \/ emptied' = (bclState = "CDHigh")
  BY DEF Next, Pass, Route, Read, ReadPaused, Flow, SetRTS, SetRTSPaused, PauseEndsInTest, MoveOne, QueueOverflow,
         MoveOffLine, MoveDone, Output, NothingToSend, LockedOut, NotReady, CanSend, Stitch, PageGivenUp, Transmit,
         PopOffLine, Purge, SourceSends, PauseChanges, CarrierChanges, LineChanges, Tick, vars, channel, history
<1>4. /\ pc' = pc \/ pc' \in {"route", "read", "flow", "move", "output"}
      /\ lost' = lost \/ (lost < MaxLost /\ lost' = lost + 1)
  BY DEF Next, Pass, Route, Read, ReadPaused, Flow, SetRTS, SetRTSPaused, PauseEndsInTest, MoveOne, QueueOverflow,
         MoveOffLine, MoveDone, Output, NothingToSend, LockedOut, NotReady, CanSend, Stitch, PageGivenUp, Transmit,
         PopOffLine, Purge, SourceSends, PauseChanges, CarrierChanges, LineChanges, Tick, vars, Loses
<1>5. lost' \in 0..MaxLost
  BY <1>1, <1>4
<1>6. rts' \in BOOLEAN /\ unheeded' \in BOOLEAN /\ paused' \in BOOLEAN
  <2> DEFINE b == StopInbound
  <2>1. b \in BOOLEAN
    BY DEF StopInbound
  <2> HIDE DEF b
  <2>2. /\ rts' = rts \/ rts' = TRUE \/ rts' = ~b
        /\ unheeded' = unheeded \/ unheeded' = (unheeded \/ b) \/ unheeded' = (unheeded \/ (rts /\ b))
    BY <1>2 DEF b
  <2> QED BY <1>1, <1>2, <2>1, <2>2
<1>7. cd' \in BOOLEAN /\ ready' \in BOOLEAN /\ overflowed' \in BOOLEAN /\ ticked' \in BOOLEAN
  BY <1>1, <1>3
<1>8. emptied' \in BOOLEAN
  BY <1>1, <1>3
<1> QED BY <1>1, <1>4, <1>5, <1>6, <1>7, <1>8

(* The queue only loses its front.                                           *)
Pops == /\ MsgQout # <<>> /\ MsgQout' = Tail(MsgQout) /\ FlowStays
        /\ lastSent' = lastSent \/ lastSent' = Last(Head(MsgQout).ids)

LEMMA WhatMoves ==
  ASSUME [Next]_vars
  PROVE  \/ Route \/ Read \/ ReadPaused \/ MoveOne
         \/ (TakeOne /\ QueueStays /\ line' = line /\ qMSGin' = qMSGin
             /\ next' = next /\ lastSent' = lastSent /\ pc' = pc)
         \/ Stitch \/ (Pops /\ pc \in {"route", "output"} /\ pc' = "route") \/ SourceSends
         \/ (QueueStays /\ FlowStays /\ lastSent' = lastSent
             /\ (pc' \in {"route", "output"} => pc \in {"route", "output"} \/ qTTYout = <<>>)
             /\ (pc' = "read" => pc = "read"))
<1> USE DEF QueueStays, FlowStays
<1>1. CASE QueueOverflow \/ MoveOffLine
  BY <1>1 DEF QueueOverflow, MoveOffLine, inflow
<1>2. CASE PageGivenUp \/ Transmit \/ PopOffLine
  BY <1>2 DEF PageGivenUp, Transmit, PopOffLine, CanSend, Output, Pops, inflow
<1>3. CASE Purge
  BY <1>3 DEF Purge, Pops, inflow
<1>4. CASE MoveDone
  BY <1>4 DEF MoveDone, inflow
<1>5. CASE NothingToSend \/ LockedOut \/ NotReady
  BY <1>5 DEF NothingToSend, LockedOut, NotReady, Output, inflow
<1>6. CASE PauseChanges \/ CarrierChanges \/ LineChanges \/ Tick
  BY <1>6 DEF PauseChanges, CarrierChanges, LineChanges, Tick, inflow
<1>7. CASE SetRTS \/ SetRTSPaused \/ PauseEndsInTest
  BY <1>7 DEF SetRTS, SetRTSPaused, PauseEndsInTest, Flow
<1>8. CASE UNCHANGED vars
  BY <1>8 DEF vars, inflow
<1> QED BY <1>1, <1>2, <1>3, <1>4, <1>5, <1>6, <1>7, <1>8 DEF Next, Pass

LEMMA ShapesKept == IInv /\ [Next]_vars => Shapes' /\ Limits'
<1> SUFFICES ASSUME IInv, [Next]_vars PROVE Shapes' /\ Limits'
  OBVIOUS
<1> USE DEF IInv, QueueStays, FlowStays
<1>1. /\ Len(kind) \in Nat /\ next \in 1..(Len(kind) + 1) /\ lastSent \in 0..Len(kind)
      /\ line \in Seq(Messages) /\ qMSGin \in Seq(Messages) /\ qTTYout \in Seq(Messages)
      /\ MsgQout \in Seq(Entries) /\ Len(<<>>) = 0
      /\ Len(line) \in Nat /\ Len(qMSGin) \in Nat /\ Len(qTTYout) \in Nat /\ Len(MsgQout) \in Nat
  BY MessageNumbers DEF Shapes
<1>2. kind' = kind /\ route' = route /\ bcl' = bcl /\ Messages' = Messages /\ Entries' = Entries
  BY TrafficStays
\* It remains to follow the queues.
<1>3. SUFFICES /\ next' \in 1..(Len(kind) + 1) /\ lastSent' \in 0..Len(kind)
               /\ line' \in Seq(Messages) /\ qMSGin' \in Seq(Messages) /\ qTTYout' \in Seq(Messages)
               /\ MsgQout' \in Seq(Entries) /\ Len(line') <= InBuf
               /\ Len(qMSGin') <= MaxRead /\ Len(qTTYout') <= MaxRead /\ Len(MsgQout') <= MaxQ
               /\ pc' \in {"route", "output"} => qTTYout' = <<>>
               /\ pc' = "read" => qMSGin' = <<>>
               /\ \A i \in 1..Len(MsgQout') : /\ Len(MsgQout'[i].ids) \in 1..MaxStitch
                                              /\ MsgQout'[i].page => Len(MsgQout'[i].ids) = 1
  BY <1>1, <1>2, TimerRange, FlagRange DEF Shapes, Limits
<1>4. CASE Route
  <2>1. /\ qTTYout' = <<>> \o qMSGin /\ qMSGin' = <<>> /\ line' = line /\ next' = next
        /\ MsgQout' = MsgQout /\ lastSent' = lastSent /\ pc' = "read"
    BY <1>4 DEF Route, Limits
  <2>2. qTTYout' = qMSGin
    BY <1>1, <2>1
  <2> QED BY <1>1, <2>1, <2>2, Numbers DEF Limits
<1>5. CASE Read
  <2>1. PICK n \in 0..Len(line) : n <= MaxRead /\ qMSGin' = qMSGin \o SubSeq(line, 1, n)
                                 /\ line' = SubSeq(line, n + 1, Len(line))
    BY <1>5 DEF Read
  <2>2. /\ qMSGin = <<>> /\ next' = next /\ qTTYout' = qTTYout /\ MsgQout' = MsgQout /\ lastSent' = lastSent
        /\ pc' = "flow"
    BY <1>5 DEF Read, Limits
  <2> DEFINE p == SubSeq(line, 1, n)
  <2>3. p \in Seq(Messages) /\ Len(p) = n /\ line' \in Seq(Messages) /\ Len(line') = Len(line) - n
    BY <1>1, <2>1, CutIn2, MessageNumbers
  <2> HIDE DEF p
  <2>4. qMSGin' = <<>> \o p
    BY <2>1, <2>2 DEF p
  <2>5. qMSGin' = p
    BY <2>3, <2>4
  <2>6. Len(line') <= InBuf
    BY <1>1, <2>3, Numbers DEF Limits
  <2> QED BY <1>1, <2>1, <2>2, <2>3, <2>5, <2>6 DEF Limits
<1>13. CASE ReadPaused
  <2>1. /\ qMSGin' = qMSGin /\ next' = next /\ qTTYout' = qTTYout /\ MsgQout' = MsgQout /\ lastSent' = lastSent
        /\ pc' = "flow"
    BY <1>13 DEF ReadPaused
  <2>2. line' \in Seq(Messages) /\ Len(line') <= InBuf
    <3>1. CASE line' = line
      BY <1>1, <3>1 DEF Limits
    <3>2. CASE line' # line
      <4>1. PICK n \in 1..Len(line) : line' = SubSeq(line, n + 1, Len(line))
        BY <1>13, <3>2 DEF ReadPaused
      <4>2. n \in 0..Len(line) /\ n \in Nat
        BY <1>1
      <4>3. line' \in Seq(Messages) /\ Len(line') = Len(line) - n
        BY <1>1, <4>1, <4>2, CutIn2, MessageNumbers
      <4> QED BY <1>1, <4>2, <4>3, Numbers DEF Limits
    <3> QED BY <3>1, <3>2
  <2> QED BY <1>1, <2>1, <2>2 DEF Limits
<1>6. CASE MoveOne
  <2>1. /\ qTTYout' \in Seq(Messages) /\ Len(qTTYout') = Len(qTTYout) - 1 /\ Head(qTTYout) \in Messages
        /\ line' = line /\ qMSGin' = qMSGin /\ next' = next /\ lastSent' = lastSent /\ pc' = "move"
    BY <1>6, Taken DEF MoveOne, inflow
  <2> DEFINE e == Entry(Head(qTTYout))
  <2>2. e \in Entries /\ Len(e.ids) = 1
    BY <2>1 DEF Entry, Entries, IsPage
  <2>3. MsgQout' = Append(MsgQout, e) /\ ~(Len(MsgQout) >= MaxQ)
    BY <1>6 DEF MoveOne, NoRoom
  <2> HIDE DEF e
  <2>4. /\ MsgQout' \in Seq(Entries) /\ Len(MsgQout') = Len(MsgQout) + 1
        /\ \A i \in 1..Len(MsgQout') : (i \in 1..Len(MsgQout) /\ MsgQout'[i] = MsgQout[i]) \/ MsgQout'[i] = e
    BY <1>1, <2>2, <2>3
  <2>5. Len(MsgQout') <= MaxQ /\ 1 \in 1..MaxStitch
    BY <1>1, <2>3, <2>4, Numbers
  <2>6. \A i \in 1..Len(MsgQout') : /\ Len(MsgQout'[i].ids) \in 1..MaxStitch
                                    /\ MsgQout'[i].page => Len(MsgQout'[i].ids) = 1
    BY <2>2, <2>4, <2>5 DEF Limits
  <2>7. Len(qTTYout') <= MaxRead
    BY <1>1, <2>1, Numbers DEF Limits
  <2> QED BY <1>1, <2>1, <2>4, <2>5, <2>6, <2>7 DEF Limits
<1>7. CASE /\ TakeOne /\ QueueStays /\ line' = line /\ qMSGin' = qMSGin
           /\ next' = next /\ lastSent' = lastSent /\ pc' = pc
  <2>1. qTTYout' \in Seq(Messages) /\ Len(qTTYout') = Len(qTTYout) - 1 /\ pc' = "move"
    BY <1>7, Taken
  <2>2. Len(qTTYout') <= MaxRead
    BY <1>1, <2>1, Numbers DEF Limits
  <2> QED BY <1>1, <1>7, <2>1, <2>2 DEF Limits
<1>8. CASE Stitch
  <2>1. PICK n \in Stitchable : MsgQout' = StitchedQ(n)
    BY <1>8 DEF Stitch, StitchedQ
  <2>2. /\ FlowStays /\ lastSent' = lastSent /\ pc = "output" /\ pc' = "route"
    BY <1>8 DEF Stitch, CanSend, Output, inflow
  <2>3. /\ MsgQout' \in Seq(Entries) /\ Len(MsgQout') = Len(MsgQout) - n + 1 /\ n \in 1..MaxStitch /\ n \in Nat
        /\ Len(MsgQout'[1].ids) = n /\ MsgQout'[1].page = FALSE
        /\ \A i \in 2..Len(MsgQout') : MsgQout'[i] = MsgQout[n + i - 1] /\ n + i - 1 \in 1..Len(MsgQout)
    BY <2>1, Stitched
  <2>4. \A i \in 1..Len(MsgQout') : /\ Len(MsgQout'[i].ids) \in 1..MaxStitch
                                    /\ MsgQout'[i].page => Len(MsgQout'[i].ids) = 1
    <3> TAKE i \in 1..Len(MsgQout')
    <3>1. CASE i = 1
      BY <2>3, <3>1
    <3>2. CASE i # 1
      <4>1. i \in 2..Len(MsgQout')
        BY <2>3, <3>2
      <4> QED BY <2>3, <4>1 DEF Limits
    <3> QED BY <3>1, <3>2
  <2>5. Len(MsgQout') <= MaxQ
    BY <1>1, <2>3, Numbers DEF Limits
  <2> QED BY <1>1, <2>2, <2>3, <2>4, <2>5 DEF Limits
<1>9. CASE Pops /\ pc \in {"route", "output"} /\ pc' = "route"
  <2>1. MsgQout # <<>> /\ MsgQout' = Tail(MsgQout) /\ FlowStays
        /\ (lastSent' = lastSent \/ lastSent' = Last(Head(MsgQout).ids))
    BY <1>9 DEF Pops
  <2>2. /\ MsgQout' \in Seq(Entries) /\ Len(MsgQout') = Len(MsgQout) - 1 /\ Len(MsgQout) \in Nat \ {0}
        /\ \A i \in 1..Len(MsgQout') : MsgQout'[i] = MsgQout[i + 1] /\ i + 1 \in 1..Len(MsgQout)
        /\ Head(MsgQout) = MsgQout[1] /\ 1 \in 1..Len(MsgQout)
    BY <2>1, FrontLeaves
  <2>3. Last(Head(MsgQout).ids) \in 0..Len(kind)
    <3>1. Head(MsgQout).ids \in Seq(Messages) /\ Len(Head(MsgQout).ids) \in 1..MaxStitch
      BY <2>2, EntryShape DEF Limits
    <3>2. Last(Head(MsgQout).ids) \in Messages
      BY <3>1, Numbers DEF Last
    <3> QED BY <3>2, <1>1 DEF Messages
  <2>4. Len(MsgQout') <= MaxQ
    BY <2>2, Numbers DEF Limits
  <2>5. qTTYout = <<>>
    BY <1>9 DEF Limits
  <2> QED BY <1>1, <1>9, <2>1, <2>2, <2>3, <2>4, <2>5 DEF Limits
<1>10. CASE SourceSends
  <2>1. /\ next <= Len(kind) /\ Len(line) < InBuf /\ line' = Append(line, next) /\ next' = next + 1
        /\ qMSGin' = qMSGin /\ qTTYout' = qTTYout /\ MsgQout' = MsgQout /\ pc' = pc /\ lastSent' = lastSent
    BY <1>10 DEF SourceSends
  <2>2. next \in Messages /\ next + 1 \in 1..(Len(kind) + 1)
    BY <1>1, <2>1 DEF Messages
  <2>3. line' \in Seq(Messages) /\ Len(line') = Len(line) + 1
    BY <1>1, <2>1, <2>2
  <2>4. Len(line') <= InBuf
    BY <1>1, <2>1, <2>3, Numbers
  <2> QED BY <1>1, <2>1, <2>2, <2>3, <2>4 DEF Limits
<1>11. CASE /\ QueueStays /\ FlowStays /\ lastSent' = lastSent
            /\ pc' \in {"route", "output"} => pc \in {"route", "output"} \/ qTTYout = <<>>
            /\ pc' = "read" => pc = "read"
  BY <1>1, <1>11 DEF Limits
<1> QED BY <1>4, <1>5, <1>6, <1>7, <1>8, <1>9, <1>10, <1>11, <1>13, WhatMoves

-----------------------------------------------------------------------------
(* The order of the messages.                                                *)

(* The first message of an entry, and the last.                              *)
LEMMA OldestOfEntry ==
  ASSUME NEW S, S \subseteq Int, NEW s \in Seq(S), Len(s) \in Nat \ {0}
  PROVE  /\ Last(s) \in S /\ s[1] \in S
         /\ \A t : Before(s, t) => After(Last(s), t) /\ After(s[1], t)
         /\ \A n \in Int : After(n, s) => n < Last(s) /\ n < s[1]
         /\ \A n \in Int : Till(s, n) => Last(s) < n /\ s[1] < n
<1>1. Last(s) = s[Len(s)] /\ Len(s) \in 1..Len(s) /\ 1 \in 1..Len(s)
  BY DEF Last
<1>2. s[Len(s)] \in S /\ s[1] \in S
  BY <1>1
<1> QED BY <1>1, <1>2 DEF Before, After, Till

LEMMA OrderKept == IInv /\ [Next]_vars => InOrder' /\ QueueInOrder'
<1> SUFFICES ASSUME IInv, [Next]_vars PROVE InOrder' /\ QueueInOrder'
  OBVIOUS
<1> USE DEF IInv, QueueStays, FlowStays
<1>1. /\ line \in Seq(Messages) /\ qMSGin \in Seq(Messages) /\ qTTYout \in Seq(Messages) /\ MsgQout \in Seq(Entries)
      /\ Messages \subseteq Int /\ next \in Int /\ lastSent \in Int /\ Len(MsgQout) \in Nat
      /\ \A i \in 1..Len(MsgQout) : MsgQout[i].ids \in Seq(Messages) /\ Len(MsgQout[i].ids) \in Nat \ {0}
  <2>1. \A i \in 1..Len(MsgQout) : Len(MsgQout[i].ids) \in Nat \ {0}
    BY Numbers DEF Limits
  <2> QED BY <2>1, MessageNumbers, EntryShape DEF Shapes
<1>4. CASE Route
  <2>1. /\ qTTYout' = qTTYout \o qMSGin /\ qMSGin' = <<>> /\ line' = line /\ next' = next
        /\ MsgQout' = MsgQout /\ lastSent' = lastSent
    BY <1>4 DEF Route
  <2>2. InOrder'
    BY <1>1, <2>1, Joined, Nothing DEF InOrder
  <2>3. \A u : Ahead(u) => Ahead(u)'
    BY <1>1, <2>1, Joined, Nothing DEF Ahead
  <2>4. QueueInOrder'
    BY <2>1, <2>3 DEF QueueInOrder, Ahead
  <2> QED BY <2>2, <2>4
<1>5. CASE Read
  <2>1. PICK n \in 0..Len(line) : qMSGin' = qMSGin \o SubSeq(line, 1, n) /\ line' = SubSeq(line, n + 1, Len(line))
    BY <1>5 DEF Read
  <2>2. qTTYout' = qTTYout /\ next' = next /\ MsgQout' = MsgQout /\ lastSent' = lastSent
    BY <1>5 DEF Read
  <2> DEFINE p == SubSeq(line, 1, n)
  <2>3. /\ p \in Seq(Messages) /\ line' \in Seq(Messages)
        /\ Increasing(line) => Increasing(p) /\ Increasing(line') /\ Before(p, line')
        /\ \A m \in Int : After(m, line) => After(m, p) /\ After(m, line')
        /\ \A m \in Int : Till(line, m) => Till(p, m) /\ Till(line', m)
        /\ \A u : Before(u, line) => Before(u, p) /\ Before(u, line')
    BY <1>1, <2>1, CutIn2
  <2> HIDE DEF p
  <2>4. qMSGin' = qMSGin \o p
    BY <2>1 DEF p
  <2>5. InOrder'
    <3>1. /\ Increasing(line') /\ Till(line', next) /\ After(lastSent, line') /\ Before(qTTYout, line')
          /\ Increasing(p) /\ Till(p, next) /\ After(lastSent, p) /\ Before(qTTYout, p)
          /\ Before(qMSGin, p) /\ Before(qMSGin, line') /\ Before(p, line')
      BY <1>1, <2>3 DEF InOrder
    <3>2. /\ Increasing(qMSGin') /\ Till(qMSGin', next) /\ After(lastSent, qMSGin')
          /\ Before(qMSGin', line') /\ Before(qTTYout, qMSGin')
      BY <1>1, <2>3, <2>4, <3>1, Joined DEF InOrder
    <3> QED BY <2>2, <3>1, <3>2 DEF InOrder
  <2>6. \A u : Ahead(u) => Before(u, qTTYout') /\ Before(u, qMSGin') /\ Before(u, line')
    BY <1>1, <2>2, <2>3, <2>4, Joined DEF Ahead
  <2>7. QueueInOrder'
    BY <2>2, <2>6 DEF QueueInOrder, Ahead
  <2> QED BY <2>5, <2>7
<1>13. CASE ReadPaused
  <2>1. qMSGin' = qMSGin /\ qTTYout' = qTTYout /\ next' = next /\ MsgQout' = MsgQout /\ lastSent' = lastSent
    BY <1>13 DEF ReadPaused
  <2>2. /\ Increasing(line) => Increasing(line')
        /\ \A m \in Int : After(m, line) => After(m, line')
        /\ \A m \in Int : Till(line, m) => Till(line', m)
        /\ \A u : Before(u, line) => Before(u, line')
    <3>1. CASE line' = line
      BY <3>1
    <3>2. CASE line' # line
      <4>1. PICK n \in 1..Len(line) : line' = SubSeq(line, n + 1, Len(line))
        BY <1>13, <3>2 DEF ReadPaused
      <4>2. n \in 0..Len(line)
        BY <1>1
      <4> QED BY <1>1, <4>1, <4>2, CutIn2
    <3> QED BY <3>1, <3>2
  <2>3. InOrder'
    BY <1>1, <2>1, <2>2 DEF InOrder
  <2>4. QueueInOrder'
    BY <2>1, <2>2 DEF QueueInOrder, Ahead
  <2> QED BY <2>3, <2>4
<1>6. CASE MoveOne
  <2> DEFINE h == Head(qTTYout)
  <2>1. /\ qTTYout' = Tail(qTTYout) /\ qTTYout # <<>> /\ h \in Messages /\ h \in Int
        /\ line' = line /\ qMSGin' = qMSGin /\ next' = next /\ lastSent' = lastSent
    BY <1>1, <1>6, Taken DEF MoveOne, TakeOne, inflow
  <2>2. /\ Increasing(qTTYout') /\ Till(qTTYout', next) /\ After(lastSent, qTTYout') /\ Before(qTTYout', line)
        /\ Before(qTTYout', qMSGin) /\ After(h, qTTYout') /\ After(h, qMSGin) /\ After(h, line)
        /\ lastSent < h /\ h < next
    BY <1>1, <2>1, TailOrder DEF InOrder
  <2>3. InOrder'
    BY <2>1, <2>2 DEF InOrder
  <2>4. \A u : Ahead(u) => Before(u, qTTYout') /\ Before(u, qMSGin') /\ Before(u, line') /\ Till(u, h)
    BY <1>1, <2>1, TailOrder DEF Ahead
  <2> DEFINE e == Entry(h)
  <2>5. e.ids = <<h>> /\ e \in Entries
    BY <2>1 DEF Entry, IsPage, Entries
  <2>7. MsgQout' = Append(MsgQout, e)
    BY <1>6 DEF MoveOne
  <2> HIDE DEF e, h
  <2>6. /\ Increasing(e.ids) /\ Till(e.ids, next) /\ After(lastSent, e.ids)
        /\ Before(e.ids, qTTYout') /\ Before(e.ids, qMSGin') /\ Before(e.ids, line')
        /\ \A i \in 1..Len(MsgQout) : Before(MsgQout[i].ids, e.ids)
    <3>1. /\ Increasing(<<h>>) /\ Till(<<h>>, next) /\ After(lastSent, <<h>>)
          /\ \A t : (After(h, t) => Before(<<h>>, t)) /\ (Till(t, h) => Before(t, <<h>>))
      BY <2>1, <2>2, Alone
    <3> QED BY <2>1, <2>2, <2>4, <2>5, <3>1 DEF QueueInOrder
  <2>8. /\ Len(MsgQout') = Len(MsgQout) + 1 /\ MsgQout'[Len(MsgQout) + 1] = e
        /\ \A i \in 1..Len(MsgQout) : MsgQout'[i] = MsgQout[i]
    BY <1>1, <2>5, <2>7
  <2>9. \A i \in 1..Len(MsgQout') : i \in 1..Len(MsgQout) \/ (i = Len(MsgQout) + 1 /\ MsgQout'[i] = e)
    BY <1>1, <2>8
  <2>10. \A i \in 1..Len(MsgQout') :
       /\ Increasing(MsgQout'[i].ids) /\ Till(MsgQout'[i].ids, next) /\ After(lastSent, MsgQout'[i].ids)
       /\ Before(MsgQout'[i].ids, qTTYout') /\ Before(MsgQout'[i].ids, qMSGin') /\ Before(MsgQout'[i].ids, line')
    <3> TAKE i \in 1..Len(MsgQout')
    <3>1. CASE i \in 1..Len(MsgQout)
      BY <2>4, <2>8, <3>1 DEF QueueInOrder
    <3>2. CASE MsgQout'[i] = e
      BY <2>6, <3>2
    <3> QED BY <2>9, <3>1, <3>2
  <2>11. \A i, j \in 1..Len(MsgQout') : i < j => Before(MsgQout'[i].ids, MsgQout'[j].ids)
    <3> TAKE i, j \in 1..Len(MsgQout')
    <3> HAVE i < j
    <3>1. i \in 1..Len(MsgQout)
      BY <1>1, <2>8
    <3>2. CASE j \in 1..Len(MsgQout)
      BY <2>8, <3>1, <3>2 DEF QueueInOrder
    <3>3. CASE MsgQout'[j] = e
      BY <2>6, <2>8, <3>1, <3>3
    <3> QED BY <2>9, <3>2, <3>3
  <2> QED BY <2>1, <2>3, <2>10, <2>11 DEF QueueInOrder, Ahead
<1>7. CASE /\ TakeOne /\ QueueStays /\ line' = line /\ qMSGin' = qMSGin
           /\ next' = next /\ lastSent' = lastSent /\ pc' = pc
  <2>1. qTTYout' = Tail(qTTYout) /\ qTTYout # <<>>
    BY <1>7 DEF TakeOne
  <2>2. InOrder'
    BY <1>1, <1>7, <2>1, TailOrder DEF InOrder
  <2>3. QueueInOrder'
    BY <1>1, <1>7, <2>1, TailOrder DEF QueueInOrder, Ahead
  <2> QED BY <2>2, <2>3
<1>8. CASE Stitch
  <2>1. PICK n \in Stitchable : MsgQout' = StitchedQ(n)
    BY <1>8 DEF Stitch, StitchedQ
  <2>2. FlowStays /\ lastSent' = lastSent
    BY <1>8 DEF Stitch, CanSend, Output, inflow
  <2> DEFINE ids == MsgQout'[1].ids
  <2>3. /\ Len(MsgQout') = Len(MsgQout) - n + 1 /\ n \in 1..Len(MsgQout) /\ n \in Nat
        /\ Len(ids) = n /\ ids = [i \in 1..n |-> MsgQout[i].ids[1]]
        /\ \A i \in 2..Len(MsgQout') : MsgQout'[i] = MsgQout[n + i - 1] /\ n + i - 1 \in 1..Len(MsgQout)
        /\ \A i \in 1..n : Len(MsgQout[i].ids) = 1 /\ MsgQout[i].ids[1] \in Messages
    BY <2>1, Stitched
  <2>4. \A a \in 1..n : ids[a] = MsgQout[a].ids[1] /\ a \in 1..Len(MsgQout) /\ 1 \in 1..Len(MsgQout[a].ids)
    BY <2>3
  <2>5. InOrder'
    BY <2>2 DEF InOrder
  <2> HIDE DEF ids
  <2>6. Increasing(ids) /\ Till(ids, next) /\ After(lastSent, ids) /\ Ahead(ids)
    <3>1. Increasing(ids)
      BY <2>3, <2>4 DEF QueueInOrder, Increasing, Before
    <3>2. Till(ids, next) /\ After(lastSent, ids)
      BY <2>3, <2>4 DEF QueueInOrder, Till, After
    <3>3. Ahead(ids)
      BY <2>3, <2>4 DEF QueueInOrder, Ahead, Before
    <3> QED BY <3>1, <3>2, <3>3
  <2>7. \A j \in 2..Len(MsgQout') : Before(ids, MsgQout'[j].ids)
    <3> TAKE j \in 2..Len(MsgQout')
    <3>1. MsgQout'[j] = MsgQout[n + j - 1] /\ n + j - 1 \in 1..Len(MsgQout) /\ \A a \in 1..n : a < n + j - 1
      BY <2>3
    <3>2. \A a \in 1..n : Before(MsgQout[a].ids, MsgQout'[j].ids)
      BY <2>4, <3>1 DEF QueueInOrder
    <3> QED BY <2>3, <2>4, <3>2 DEF Before
  <2>8. \A i \in 1..Len(MsgQout') :
       /\ Increasing(MsgQout'[i].ids) /\ Till(MsgQout'[i].ids, next) /\ After(lastSent, MsgQout'[i].ids)
       /\ Before(MsgQout'[i].ids, qTTYout) /\ Before(MsgQout'[i].ids, qMSGin) /\ Before(MsgQout'[i].ids, line)
    <3> TAKE i \in 1..Len(MsgQout')
    <3>1. CASE i = 1
      BY <2>6, <3>1 DEF ids, Ahead
    <3>2. CASE i # 1
      <4>1. i \in 2..Len(MsgQout')
        BY <1>1, <2>3, <3>2
      <4> QED BY <2>3, <4>1 DEF QueueInOrder, Ahead
    <3> QED BY <3>1, <3>2
  <2>9. \A i, j \in 1..Len(MsgQout') : i < j => Before(MsgQout'[i].ids, MsgQout'[j].ids)
    <3> TAKE i, j \in 1..Len(MsgQout')
    <3> HAVE i < j
    <3>1. j \in 2..Len(MsgQout')
      BY <1>1, <2>3
    <3>2. CASE i = 1
      BY <2>7, <3>1, <3>2 DEF ids
    <3>3. CASE i # 1
      <4>1. i \in 2..Len(MsgQout')
        BY <1>1, <2>3, <3>3
      <4>2. n + i - 1 < n + j - 1
        BY <2>3, <3>1, <4>1
      <4> QED BY <2>3, <3>1, <4>1, <4>2 DEF QueueInOrder
    <3> QED BY <3>2, <3>3
  <2> QED BY <2>2, <2>5, <2>8, <2>9 DEF QueueInOrder, Ahead
<1>9. CASE Pops /\ pc \in {"route", "output"} /\ pc' = "route"
  <2>1. /\ MsgQout # <<>> /\ MsgQout' = Tail(MsgQout) /\ FlowStays
        /\ lastSent' = lastSent \/ lastSent' = Last(Head(MsgQout).ids)
    BY <1>9 DEF Pops
  <2>2. /\ Len(MsgQout') = Len(MsgQout) - 1 /\ Head(MsgQout) = MsgQout[1] /\ 1 \in 1..Len(MsgQout)
        /\ \A i \in 1..Len(MsgQout') : MsgQout'[i] = MsgQout[i + 1] /\ i + 1 \in 1..Len(MsgQout) /\ 1 < i + 1
        /\ \A i, j \in 1..Len(MsgQout') : i < j => i + 1 < j + 1
    BY <2>1, FrontLeaves
  <2> DEFINE ids == MsgQout[1].ids
  <2>3. ids \in Seq(Messages) /\ Len(ids) \in Nat \ {0}
    BY <1>1, <2>2
  <2>4. /\ Till(ids, next) /\ After(lastSent, ids)
        /\ Before(ids, qTTYout) /\ Before(ids, qMSGin) /\ Before(ids, line)
        /\ \A i \in 1..Len(MsgQout') : Before(ids, MsgQout'[i].ids)
    BY <2>2 DEF QueueInOrder, Ahead
  <2> HIDE DEF ids
  <2>5. /\ Last(ids) < next /\ After(Last(ids), qTTYout) /\ After(Last(ids), qMSGin) /\ After(Last(ids), line)
        /\ \A i \in 1..Len(MsgQout') : After(Last(ids), MsgQout'[i].ids)
    BY <1>1, <2>3, <2>4, OldestOfEntry
  <2>6. lastSent' = lastSent \/ lastSent' = Last(ids)
    BY <2>1, <2>2 DEF ids
  <2>7. InOrder'
    BY <2>1, <2>5, <2>6 DEF InOrder
  <2>8. \A i \in 1..Len(MsgQout') :
       /\ Increasing(MsgQout'[i].ids) /\ Till(MsgQout'[i].ids, next) /\ After(lastSent, MsgQout'[i].ids)
       /\ Before(MsgQout'[i].ids, qTTYout) /\ Before(MsgQout'[i].ids, qMSGin) /\ Before(MsgQout'[i].ids, line)
    BY <2>2 DEF QueueInOrder, Ahead
  <2>9. \A i, j \in 1..Len(MsgQout') : i < j => Before(MsgQout'[i].ids, MsgQout'[j].ids)
    BY <2>2 DEF QueueInOrder
  <2> QED BY <2>1, <2>5, <2>6, <2>7, <2>8, <2>9 DEF QueueInOrder, Ahead
<1>10. CASE SourceSends
  <2>1. /\ line' = Append(line, next) /\ next' = next + 1 /\ next <= Len(kind)
        /\ qMSGin' = qMSGin /\ qTTYout' = qTTYout /\ MsgQout' = MsgQout /\ lastSent' = lastSent
    BY <1>10 DEF SourceSends
  <2>2. next \in Messages
    BY <1>1, <2>1, MessageNumbers DEF Messages, Shapes
  <2>3. line' = line \o <<next>> /\ <<next>> \in Seq(Messages)
    BY <1>1, <2>1, <2>2, Appended
  <2>4. \A s : Till(s, next) => Before(s, <<next>>)
    BY <1>1, Alone
  <2>5. Increasing(<<next>>) /\ Till(<<next>>, next + 1) /\ After(lastSent, <<next>>) /\ next + 1 \in Int
        /\ lastSent < next + 1
    BY <1>1, Alone DEF InOrder
  <2>6. \A s \in Seq(Messages) : Till(s, next) => Till(s, next + 1)
    <3> TAKE s \in Seq(Messages)
    <3> HAVE Till(s, next)
    <3>0. \A i \in 1..Len(s) : s[i] \in Messages
      OBVIOUS
    <3>1. \A i \in 1..Len(s) : s[i] \in Int /\ s[i] < next
      BY <1>1, <3>0 DEF Till
    <3> QED BY <1>1, <3>1 DEF Till
  <2>7. InOrder'
    <3>1. /\ Increasing(line) /\ Till(line, next) /\ After(lastSent, line) /\ Before(qTTYout, line)
          /\ Till(qTTYout, next) /\ Before(qMSGin, line) /\ Till(qMSGin, next)
      BY DEF InOrder
    <3>2. /\ Till(line, next + 1) /\ Till(qTTYout, next + 1) /\ Till(qMSGin, next + 1)
          /\ Before(line, <<next>>) /\ Before(qTTYout, <<next>>) /\ Before(qMSGin, <<next>>)
      BY <1>1, <2>4, <2>6, <3>1
    <3>3. /\ Increasing(line') /\ Till(line', next + 1) /\ After(lastSent, line')
          /\ Before(qTTYout, line') /\ Before(qMSGin, line')
      BY <1>1, <2>3, <2>5, <3>1, <3>2, Joined
    <3> QED BY <2>1, <2>5, <3>2, <3>3 DEF InOrder
  <2>8. \A i \in 1..Len(MsgQout) : Till(MsgQout[i].ids, next + 1) /\ Before(MsgQout[i].ids, line')
    BY <1>1, <2>3, <2>4, <2>6, Joined DEF QueueInOrder, Ahead
  <2> QED BY <2>1, <2>7, <2>8 DEF QueueInOrder, Ahead
<1>11. CASE /\ QueueStays /\ FlowStays /\ lastSent' = lastSent
            /\ pc' \in {"route", "output"} => pc \in {"route", "output"} \/ qTTYout = <<>>
            /\ pc' = "read" => pc = "read"
  BY <1>11 DEF InOrder, QueueInOrder, Ahead
<1> QED BY <1>4, <1>5, <1>6, <1>7, <1>8, <1>9, <1>10, <1>11, <1>13, WhatMoves

-----------------------------------------------------------------------------
(* The lock-out and the flow control.                                        *)

(* The lock-out: what the code counts is what really passed.                 *)
LEMMA TimedKept == IInv /\ [Next]_vars => Timed'
<1> SUFFICES ASSUME IInv, [Next]_vars PROVE Timed'
  OBVIOUS
<1> USE DEF IInv
<1>1. /\ bclState \in {"WaitForCD", "CDHigh"} /\ busyFor \in Nat /\ locked \in Nat /\ busyFor <= BusyLimit + 1
      /\ locked <= BusyLimit + 1 /\ BusyLimit \in Nat \ {0} /\ ticked \in BOOLEAN
  BY Numbers DEF Shapes
<1>2. CASE Tick
  <2>1. /\ ~ticked /\ ticked' = TRUE /\ bclState' = bclState /\ MsgQout' = MsgQout /\ emptied' = emptied
        /\ bclState = "CDHigh"
        /\ busyFor' = IF busyFor <= BusyLimit THEN busyFor + 1 ELSE busyFor
        /\ locked' = IF MsgQout # <<>> /\ locked <= BusyLimit + 1 THEN locked + 1 ELSE locked
    BY <1>2 DEF Tick
  <2>3. CASE bclState = "CDHigh" /\ MsgQout = <<>>
    BY <1>1, <2>1, <2>3 DEF Timed
  <2>4. CASE bclState = "CDHigh" /\ MsgQout # <<>>
    <3>1. locked <= busyFor /\ (emptied \/ busyFor <= locked) /\ (busyFor > BusyLimit => locked = 0)
      BY <2>1, <2>4 DEF Timed
    <3>2. locked' = locked + 1
      BY <1>1, <2>1, <2>4
    <3>3. locked' <= busyFor' /\ (emptied \/ busyFor' <= locked')
      BY <1>1, <2>1, <2>4, <3>1, <3>2
    <3> QED BY <2>1, <2>4, <3>3 DEF Timed
  <2> QED BY <2>1, <2>3, <2>4
<1>3. CASE LockedOut
  <2>1. /\ MsgQout' = MsgQout /\ MsgQout # <<>> /\ locked' = locked /\ emptied' = emptied
        /\ bclState' = "CDHigh"
        /\ \/ bclState = "WaitForCD" /\ busyFor' = 0
           \/ bclState = "CDHigh" /\ busyFor <= BusyLimit /\ busyFor' = busyFor
    BY <1>3 DEF LockedOut, TimerStarts, TimerRuns, history
  <2> QED BY <1>1, <2>1 DEF Timed
<1>4. CASE CanSend \/ NotReady
  BY <1>4 DEF CanSend, NotReady, ChannelFree, Timed
<1>5. CASE Purge
  <2>1. /\ bclState' = bclState /\ busyFor' = busyFor /\ ticked' = ticked /\ MsgQout # <<>>
        /\ MsgQout' = Tail(MsgQout)
        /\ \/ Len(MsgQout) > 1 /\ locked' = locked /\ emptied' = emptied
           \/ Len(MsgQout) = 1 /\ locked' = 0 /\ emptied' = (bclState = "CDHigh")
    BY <1>5 DEF Purge, channel
  <2>2. Len(MsgQout) > 1 => MsgQout' # <<>>
    <3>1. MsgQout \in Seq(Entries)
      BY DEF Shapes
    <3>2. Len(MsgQout) > 1 => Len(Tail(MsgQout)) > 0 /\ Len(<<>>) = 0
      BY <2>1, <3>1, Tails
    <3> QED BY <2>1, <3>2
  <2>3. CASE Len(MsgQout) > 1
    BY <2>1, <2>2, <2>3 DEF Timed
  <2>4. CASE Len(MsgQout) = 1 /\ bclState = "WaitForCD"
    BY <2>1, <2>4 DEF Timed
  <2>5. CASE Len(MsgQout) = 1 /\ bclState = "CDHigh"
    <3>1. locked' = 0 /\ emptied' = TRUE /\ bclState' = "CDHigh" /\ busyFor' \in Nat
      <4>1. locked' = 0 /\ emptied' = (bclState = "CDHigh") /\ bclState' = bclState /\ busyFor' = busyFor
        BY <2>1, <2>5
      <4> QED BY <1>1, <2>5, <4>1
    <3> QED BY <3>1 DEF Timed
  <2> QED BY <1>1, <2>1, <2>3, <2>4, <2>5
<1>6. CASE NothingToSend
  <2>1. MsgQout = <<>> /\ MsgQout' = MsgQout /\ UNCHANGED <<bclState, busyFor, locked, emptied>>
    BY <1>6 DEF NothingToSend, history
  <2> QED BY <2>1 DEF Timed
<1>7. CASE MoveOne
  <2>1. UNCHANGED <<bclState, busyFor, locked, emptied, ticked>> /\ MsgQout' = Append(MsgQout, Entry(Head(qTTYout)))
    BY <1>7 DEF MoveOne, channel, history
  <2>2. MsgQout' # <<>>
    <3>1. MsgQout \in Seq(Entries)
      BY DEF Shapes
    <3> QED BY <2>1, <3>1
  <2> QED BY <2>1, <2>2 DEF Timed
<1>8. CASE UNCHANGED <<bclState, busyFor, locked, emptied, ticked, MsgQout>>
  BY <1>8 DEF Timed
<1>9. \/ Tick \/ LockedOut \/ CanSend \/ NotReady \/ Purge \/ NothingToSend \/ MoveOne
      \/ UNCHANGED <<bclState, busyFor, locked, emptied, ticked, MsgQout>>
  BY DEF Next, Pass, Route, Read, ReadPaused, Flow, SetRTS, SetRTSPaused, PauseEndsInTest, QueueOverflow, MoveOffLine, MoveDone,
         Stitch, PageGivenUp, Transmit, PopOffLine, SourceSends, PauseChanges, CarrierChanges, LineChanges,
         vars, channel, history
<1> QED BY <1>2, <1>3, <1>4, <1>5, <1>6, <1>7, <1>8, <1>9

(* What is under way only grows by what the source sends, and is counted     *)
(* again when RTS is set.                                                    *)
LEMMA RestrainedKept == IInv /\ [Next]_vars => Restrained'
<1> SUFFICES ASSUME IInv, [Next]_vars, Roomy, ~unheeded', route' = "named"
             PROVE  /\ ~overflowed'
                    /\ Routed' + Len(line') <= Held + 3 * MaxRead + InBuf
                    /\ rts' => Routed' <= Held + 3 * MaxRead
                    /\ rts' /\ pc' # "flow" => Routed' <= Held + 2 * MaxRead
  BY DEF Restrained, Roomy, Held
<1> USE DEF IInv
<1>1. ~unheeded /\ route = "named"
  <2>1. route = "named"
    BY TrafficStays
  <2>2. ~unheeded
    BY DEF Next, Pass, Route, Read, ReadPaused, Flow, SetRTS, SetRTSPaused, PauseEndsInTest, MoveOne,
         QueueOverflow, MoveOffLine, MoveDone, history, Output, NothingToSend, LockedOut, NotReady, CanSend, Stitch,
         PageGivenUp, Transmit, PopOffLine, Purge, SourceSends, PauseChanges, CarrierChanges, LineChanges, Tick, vars
  <2> QED BY <2>1, <2>2
<1>2. /\ ~overflowed
      /\ Routed + Len(line) <= Held + 3 * MaxRead + InBuf
      /\ rts => Routed <= Held + 3 * MaxRead
      /\ rts /\ pc # "flow" => Routed <= Held + 2 * MaxRead
  BY <1>1 DEF Restrained
<1>3. /\ Len(MsgQout) \in Nat /\ Len(qTTYout) \in Nat /\ Len(qMSGin) \in Nat /\ Len(line) \in Nat
      /\ Held \in Int /\ InBuf \in Nat /\ MaxRead \in Nat /\ MaxQ \in Nat
      /\ Len(line) <= InBuf /\ Len(qMSGin) <= MaxRead /\ Len(qTTYout) <= MaxRead
      /\ line \in Seq(Messages) /\ qMSGin \in Seq(Messages) /\ qTTYout \in Seq(Messages)
      /\ MsgQout \in Seq(Entries) /\ Len(<<>>) = 0 /\ Routed \in Nat
  BY Numbers DEF Shapes, Limits, Routed
\* Steps after which no more is under way and RTS is what it was.
<1> DEFINE Quiet == /\ overflowed' = overflowed /\ (rts' => rts) /\ (pc = "flow" => pc' = "flow")
                    /\ Routed' \in Int /\ Routed' <= Routed
                    /\ Len(line') \in Int /\ Len(line') <= Len(line)
<1>4. CASE Quiet
  BY <1>2, <1>3, <1>4
<1> HIDE DEF Quiet
<1>5. CASE Route
  <2>1. /\ line' = line /\ qTTYout' = qTTYout \o qMSGin /\ qMSGin' = <<>> /\ MsgQout' = MsgQout
        /\ overflowed' = overflowed /\ rts' = rts /\ pc = "route"
    BY <1>5 DEF Route
  <2>2. Len(qTTYout') = Len(qTTYout) + Len(qMSGin) /\ Len(qMSGin') = 0
    BY <1>3, <2>1, Joined, MessageNumbers
  <2>3. Routed' = Routed
    BY <1>3, <2>1, <2>2 DEF Routed
  <2>4. Quiet
    BY <1>3, <2>1, <2>3 DEF Quiet
  <2> QED BY <1>4, <2>4
<1>6. CASE Read
  <2>1. PICK n \in 0..Len(line) : /\ n <= MaxRead /\ qMSGin' = qMSGin \o SubSeq(line, 1, n)
                                  /\ line' = SubSeq(line, n + 1, Len(line))
    BY <1>6 DEF Read
  <2>2. /\ qTTYout' = qTTYout /\ MsgQout' = MsgQout /\ overflowed' = overflowed /\ rts' = rts
        /\ pc = "read" /\ pc' = "flow"
    BY <1>6 DEF Read
  <2> DEFINE p == SubSeq(line, 1, n)
  <2>3. p \in Seq(Messages) /\ Len(p) = n /\ Len(line') = Len(line) - n
    BY <1>3, <2>1, CutIn2, MessageNumbers
  <2>4. Len(qMSGin \o p) = Len(qMSGin) + Len(p)
    BY <1>3, <2>3, Joined, MessageNumbers
  <2>5. Len(qMSGin') = Len(qMSGin) + n
    BY <2>1, <2>3, <2>4
  <2>6. n \in Nat /\ n <= MaxRead
    BY <1>3, <2>1
  <2>7. Routed' = Routed + n
    BY <1>3, <2>2, <2>5, <2>6 DEF Routed
  <2>8. Routed' + Len(line') = Routed + Len(line)
    BY <1>3, <2>3, <2>6, <2>7
  <2>9. rts' => Routed' <= Held + 3 * MaxRead
    <3>1. rts => Routed <= Held + 2 * MaxRead
      BY <1>2, <2>2
    <3> QED BY <1>3, <2>2, <2>6, <2>7, <3>1
  <2> QED BY <1>2, <2>2, <2>8, <2>9
<1>7. CASE ReadPaused
  <2>1. /\ qMSGin' = qMSGin /\ qTTYout' = qTTYout /\ MsgQout' = MsgQout /\ overflowed' = overflowed
        /\ rts' = rts /\ pc = "read"
    BY <1>7 DEF ReadPaused
  <2>2. Len(line') \in Int /\ Len(line') <= Len(line)
    <3>1. CASE line' = line
      BY <1>3, <3>1
    <3>2. CASE line' # line
      <4>1. PICK n \in 1..Len(line) : line' = SubSeq(line, n + 1, Len(line))
        BY <1>7, <3>2 DEF ReadPaused
      <4>2. n \in 0..Len(line) /\ n \in Nat
        BY <1>3
      <4>3. Len(line') = Len(line) - n
        BY <1>3, <4>1, <4>2, CutIn2, MessageNumbers
      <4> QED BY <1>3, <4>2, <4>3
    <3> QED BY <3>1, <3>2
  <2>3. Routed' = Routed
    BY <2>1 DEF Routed
  <2>4. Quiet
    BY <1>3, <2>1, <2>2, <2>3 DEF Quiet
  <2> QED BY <1>4, <2>4
<1>8. CASE SetRTS \/ SetRTSPaused \/ PauseEndsInTest
  <2>1. /\ line' = line /\ qMSGin' = qMSGin /\ qTTYout' = qTTYout /\ MsgQout' = MsgQout
        /\ overflowed' = overflowed
    BY <1>8 DEF SetRTS, SetRTSPaused, PauseEndsInTest, Flow
  <2>2. rts' => ~StopInbound
    BY <1>8 DEF SetRTS, SetRTSPaused, PauseEndsInTest
  <2>3. rts' => Len(MsgQout) <= Held
    BY <1>1, <1>3, <2>2 DEF StopInbound, MoreThanThreeQuarters, Held
  <2>4. Routed' = Routed
    BY <2>1 DEF Routed
  <2>5. rts' => Routed <= Held + 2 * MaxRead
    BY <1>3, <2>3 DEF Routed
  <2> QED BY <1>2, <1>3, <2>1, <2>4, <2>5
<1>9. CASE MoveOne \/ MoveOffLine
  <2>1. /\ line' = line /\ qMSGin' = qMSGin /\ rts' = rts /\ overflowed' = overflowed /\ pc' = pc
    BY <1>9 DEF MoveOne, MoveOffLine, inflow
  <2>2. Len(qTTYout') = Len(qTTYout) - 1 /\ Len(qTTYout) \in Nat \ {0} /\ pc = "move"
    BY <1>9, Taken DEF MoveOne, MoveOffLine
  <2>3. Len(MsgQout') \in Int /\ Len(MsgQout') <= Len(MsgQout) + 1
    BY <1>3, <1>9 DEF MoveOne, MoveOffLine
  <2>4. Routed' \in Int /\ Routed' <= Routed
    BY <1>3, <2>1, <2>2, <2>3 DEF Routed
  <2>5. Quiet
    BY <1>3, <2>1, <2>2, <2>4 DEF Quiet
  <2> QED BY <1>4, <2>5
<1>10. CASE QueueOverflow
  <2>1. Len(qTTYout) \in Nat \ {0} /\ Len(MsgQout) >= MaxQ
    BY <1>10, Taken DEF QueueOverflow, NoRoom
  <2>2. Routed + Len(line) > MaxQ
    BY <1>3, <2>1 DEF Routed
  <2> QED BY <1>2, <1>3, <2>2 DEF Roomy
<1>11. CASE Stitch \/ PageGivenUp \/ Transmit \/ PopOffLine \/ Purge
  <2>1. /\ line' = line /\ qMSGin' = qMSGin /\ qTTYout' = qTTYout /\ rts' = rts
        /\ overflowed' = overflowed /\ pc # "flow"
    BY <1>11 DEF Stitch, PageGivenUp, Transmit, PopOffLine, Purge, CanSend, Output, inflow
  <2>2. Len(MsgQout') \in Int /\ Len(MsgQout') <= Len(MsgQout)
    <3>1. CASE Stitch
      <4>1. PICK n \in Stitchable : MsgQout' = StitchedQ(n)
        BY <3>1 DEF Stitch, StitchedQ
      <4>2. Len(MsgQout') = Len(MsgQout) - n + 1 /\ n \in 1..MaxStitch
        BY <4>1, Stitched
      <4> QED BY <1>3, <4>2, Numbers
    <3>2. CASE ~Stitch
      <4>1. MsgQout # <<>> /\ MsgQout' = Tail(MsgQout)
        BY <1>11, <3>2 DEF PageGivenUp, Transmit, PopOffLine, Purge, CanSend
      <4>2. Len(MsgQout') = Len(MsgQout) - 1
        BY <1>3, <4>1
      <4> QED BY <1>3, <4>2
    <3> QED BY <3>1, <3>2
  <2>3. Routed' \in Int /\ Routed' <= Routed
    BY <1>3, <2>1, <2>2 DEF Routed
  <2>4. Quiet
    BY <1>3, <2>1, <2>3 DEF Quiet
  <2> QED BY <1>4, <2>4
<1>12. CASE SourceSends
  <2>1. /\ rts /\ Len(line) < InBuf /\ line' = Append(line, next) /\ rts' = rts /\ pc' = pc
        /\ qMSGin' = qMSGin /\ qTTYout' = qTTYout /\ MsgQout' = MsgQout /\ overflowed' = overflowed
    BY <1>12 DEF SourceSends
  <2>2. Len(line') = Len(line) + 1
    BY <1>3, <2>1
  <2>3. Routed' = Routed
    BY <2>1 DEF Routed
  <2> QED BY <1>2, <1>3, <2>1, <2>2, <2>3
<1>13. CASE /\ UNCHANGED <<line, qMSGin, qTTYout, MsgQout, rts, overflowed>>
            /\ pc' # pc => pc # "flow"
  <2>1. Routed' = Routed
    BY <1>13 DEF Routed
  <2>2. Quiet
    BY <1>3, <1>13, <2>1 DEF Quiet
  <2> QED BY <1>4, <2>2
<1>14. \/ Route \/ Read \/ ReadPaused \/ (SetRTS \/ SetRTSPaused \/ PauseEndsInTest) \/ (MoveOne \/ MoveOffLine)
       \/ QueueOverflow \/ (Stitch \/ PageGivenUp \/ Transmit \/ PopOffLine \/ Purge) \/ SourceSends
       \/ (UNCHANGED <<line, qMSGin, qTTYout, MsgQout, rts, overflowed>> /\ (pc' # pc => pc # "flow"))
  BY DEF Next, Pass, MoveDone, Output, NothingToSend, LockedOut, NotReady, PauseChanges, CarrierChanges,
         LineChanges, Tick, vars, inflow
<1> QED BY <1>5, <1>6, <1>7, <1>8, <1>9, <1>10, <1>11, <1>12, <1>13, <1>14

-----------------------------------------------------------------------------
(* The queue read as one sequence.                                           *)

(* A set of numbers has a smallest one: the order of Nat is well-founded.    *)
LEMMA LeastNumber ==
  ASSUME NEW S, S \subseteq Nat, S # {}
  PROVE  \E x \in S : \A y \in S : x <= y
<1>1. IsWellFoundedOn(OpToRel(<, Nat), Nat)
  BY NatLessThanWellFounded
<1>2. PICK x \in S : \A y \in S : <<y, x>> \notin OpToRel(<, Nat)
  BY <1>1, WFMin
<1>3. \A y \in S : ~(y < x)
  BY <1>2 DEF OpToRel
<1>4. \A y \in S : x <= y
  <2> TAKE y \in S
  <2>1. x \in Nat /\ y \in Nat /\ ~(y < x)
    BY <1>3
  <2> QED BY <2>1
<1> QED BY <1>4

(* The concatenations of the first sequences, one by one: they exist, as the *)
(* smallest number of sequences without them would extend the ones before.   *)
Concatenations(ss, k, f) == f = [i \in 1..k |-> IF i = 1 THEN ss[i] ELSE f[i - 1] \o ss[i]]

LEMMA PrefixesExist ==
  ASSUME NEW ss, NEW n \in Nat \ {0}
  PROVE  \E f : Concatenations(ss, n, f)
<1> DEFINE Bad == {k \in Nat \ {0} : ~ \E f : Concatenations(ss, k, f)}
<1>1. SUFFICES ASSUME Bad # {} PROVE FALSE
  OBVIOUS
<1>2. PICK k \in Bad : \A j \in Bad : k <= j
  <2>1. Bad \subseteq Nat
    OBVIOUS
  <2> HIDE DEF Bad
  <2> QED BY <1>1, <2>1, LeastNumber
<1>3. k \in Nat \ {0} /\ ~ \E f : Concatenations(ss, k, f)
  OBVIOUS
<1>4. CASE k = 1
  <2>1. Concatenations(ss, 1, [i \in 1..1 |-> ss[i]])
    BY DEF Concatenations
  <2> QED BY <1>3, <1>4, <2>1
<1>5. CASE k # 1
  <2>1. k - 1 \in Nat \ {0} /\ ~(k <= k - 1)
    BY <1>3, <1>5
  <2>2. PICK g : Concatenations(ss, k - 1, g)
    BY <1>2, <2>1
  <2> DEFINE f == [i \in 1..k |-> IF i = k THEN g[k - 1] \o ss[k] ELSE g[i]]
  <2>3. \A i \in 1..k : f[i] = IF i = 1 THEN ss[i] ELSE f[i - 1] \o ss[i]
    <3> TAKE i \in 1..k
    <3>1. CASE i = k
      <4>1. k \in 1..k /\ k - 1 \in 1..k /\ k - 1 # k
        BY <1>3, <1>5
      <4>3. f[i] = g[k - 1] \o ss[k]
        BY <3>1, <4>1
      <4>2. f[k - 1] = g[k - 1]
        BY <4>1
      <4> QED BY <1>5, <3>1, <4>2, <4>3
    <3>2. CASE i # k
      <4>1. i \in 1..(k - 1) /\ f[i] = g[i]
        BY <1>3, <3>2
      <4>2. g[i] = IF i = 1 THEN ss[i] ELSE g[i - 1] \o ss[i]
        BY <2>2, <4>1 DEF Concatenations
      <4>3. i # 1 => i - 1 \in 1..k /\ i - 1 # k
        BY <1>3, <4>1
      <4>4. i # 1 => f[i - 1] = g[i - 1]
        BY <4>3
      <4> QED BY <4>1, <4>2, <4>4
    <3> QED BY <3>1, <3>2
  <2>4. f = [i \in 1..k |-> f[i]]
    OBVIOUS
  <2> HIDE DEF f
  <2>5. Concatenations(ss, k, f)
    BY <2>3, <2>4 DEF Concatenations
  <2> QED BY <1>3, <2>5
<1> QED BY <1>4, <1>5

LEMMA FlattenIsLastPrefix ==
  ASSUME NEW ss, Len(ss) \in Nat \ {0}
  PROVE  \E f : Concatenations(ss, Len(ss), f) /\ FlattenSeq(ss) = f[Len(ss)]
<1> DEFINE n == Len(ss)
<1> DEFINE f == CHOOSE g : g = [i \in 1..n |-> IF i = 1 THEN ss[i] ELSE g[i - 1] \o ss[i]]
<1>1. \E g : g = [i \in 1..n |-> IF i = 1 THEN ss[i] ELSE g[i - 1] \o ss[i]]
  BY PrefixesExist DEF Concatenations
<1>2. f = [i \in 1..n |-> IF i = 1 THEN ss[i] ELSE f[i - 1] \o ss[i]]
  BY <1>1
<1>3. FlattenSeq(ss) = f[n]
  BY DEF FlattenSeq
<1> HIDE DEF f
<1> QED BY <1>2, <1>3 DEF Concatenations

(* Sequences in order among themselves and one behind the other make one     *)
(* sequence in order; what holds of each of them against a bound or another  *)
(* sequence holds of the whole.                                              *)
LEMMA FlattenInOrder ==
  ASSUME NEW S, S \subseteq Int, NEW ss, Len(ss) \in Nat,
         \A i \in 1..Len(ss) : ss[i] \in Seq(S) /\ Increasing(ss[i]),
         \A i, j \in 1..Len(ss) : i < j => Before(ss[i], ss[j]),
         ss = <<>> \/ Len(ss) # 0,
         NEW lo \in Int, NEW hi \in Int, NEW t,
         \A i \in 1..Len(ss) : After(lo, ss[i]) /\ Till(ss[i], hi) /\ Before(ss[i], t)
  PROVE  /\ FlattenSeq(ss) \in Seq(S) /\ Increasing(FlattenSeq(ss))
         /\ After(lo, FlattenSeq(ss)) /\ Till(FlattenSeq(ss), hi) /\ Before(FlattenSeq(ss), t)
<1> DEFINE n == Len(ss)
<1>1. CASE n = 0
  <2>1. FlattenSeq(ss) = <<>>
    BY <1>1 DEF FlattenSeq
  <2> QED BY <2>1, Nothing
<1>2. CASE n # 0
  <2>1. PICK f : Concatenations(ss, n, f) /\ FlattenSeq(ss) = f[n]
    BY <1>2, FlattenIsLastPrefix
  <2> DEFINE Good(k) == /\ f[k] \in Seq(S) /\ Increasing(f[k]) /\ After(lo, f[k]) /\ Till(f[k], hi)
                        /\ Before(f[k], t)
                        /\ \A j \in 1..n : k < j => Before(f[k], ss[j])
  <2> DEFINE Bad == {k \in 1..n : ~Good(k)}
  <2>2. Good(1)
    <3>1. 1 \in 1..n /\ f[1] = ss[1]
      BY <1>2, <2>1 DEF Concatenations
    <3> QED BY <3>1
  <2>3. \A k \in 2..n : k - 1 \in 1..n /\ Good(k - 1) => Good(k)
    <3> SUFFICES ASSUME NEW k \in 2..n, k - 1 \in 1..n, Good(k - 1) PROVE Good(k)
      OBVIOUS
    <3> DEFINE a == f[k - 1]
    <3> DEFINE b == ss[k]
    <3>1. k \in 1..n /\ k # 1 /\ k - 1 < k
      OBVIOUS
    <3>a. f[k] = a \o b
      BY <2>1, <3>1 DEF Concatenations
    <3>2. a \in Seq(S) /\ b \in Seq(S) /\ Increasing(a) /\ Increasing(b) /\ Before(a, b)
          /\ After(lo, a) /\ Till(a, hi) /\ Before(a, t) /\ After(lo, b) /\ Till(b, hi) /\ Before(b, t)
      BY <3>1
    <3>b. \A j \in 1..n : k < j => Before(a, ss[j]) /\ Before(b, ss[j])
      BY <3>1
    <3> HIDE DEF a, b
    <3> DEFINE w == a \o b
    <3>c. w \in Seq(S) /\ Increasing(w) /\ Before(w, t) /\ After(lo, w) /\ Till(w, hi)
      BY <3>2, Joined
    <3>3. f[k] \in Seq(S) /\ Increasing(f[k])
      BY <3>a, <3>c
    <3>4. After(lo, f[k]) /\ Till(f[k], hi) /\ Before(f[k], t)
      BY <3>a, <3>c
    <3>5. \A j \in 1..n : k < j => Before(f[k], ss[j])
      BY <3>a, <3>b, <3>2, Joined
    <3> QED BY <3>3, <3>4, <3>5
  <2> HIDE DEF Good
  <2>4. Bad = {}
    <3> SUFFICES ASSUME Bad # {} PROVE FALSE
      OBVIOUS
    <3>1. Bad \subseteq Nat
      OBVIOUS
    <3>2. PICK k \in Bad : \A j \in Bad : k <= j
      <4> HIDE DEF Bad
      <4> QED BY <3>1, LeastNumber
    <3>3. k \in 1..n /\ ~Good(k) /\ k # 1
      BY <2>2
    <3>4. k \in 2..n /\ k - 1 \in 1..n /\ ~(k <= k - 1)
      BY <3>3
    <3>5. Good(k - 1)
      BY <3>2, <3>4
    <3> QED BY <2>3, <3>3, <3>4, <3>5
  <2>5. Good(n)
    <3>1. n \in 1..n
      BY <1>2
    <3> QED BY <2>4, <3>1
  <2> QED BY <2>1, <2>5 DEF Good
<1> QED BY <1>1, <1>2

LEMMA WayInOrder == IInv => OnceInOrder
<1> SUFFICES ASSUME IInv PROVE OnceInOrder
  OBVIOUS
<1> DEFINE ss == [i \in DOMAIN MsgQout |-> MsgQout[i].ids]
<1>1. /\ line \in Seq(Messages) /\ qMSGin \in Seq(Messages) /\ qTTYout \in Seq(Messages) /\ MsgQout \in Seq(Entries)
      /\ Messages \subseteq Int /\ next \in Int /\ lastSent \in Int /\ Len(MsgQout) \in Nat
  BY MessageNumbers DEF IInv, Shapes
<1>2. /\ Len(ss) = Len(MsgQout) /\ \A i \in 1..Len(MsgQout) : ss[i] = MsgQout[i].ids
      /\ ss = <<>> \/ Len(ss) # 0
  <2>1. DOMAIN MsgQout = 1..Len(MsgQout) /\ DOMAIN ss = 1..Len(MsgQout)
    BY <1>1
  <2>2. \A i \in 1..Len(MsgQout) : ss[i] \in Seq(Messages)
    BY <2>1, EntryShape DEF IInv
  <2>3. ss \in Seq(Seq(Messages)) /\ Len(ss) = Len(MsgQout)
    BY <1>1, <2>1, <2>2
  <2> QED BY <2>1, <2>3
<1> HIDE DEF ss
<1>3. /\ \A i \in 1..Len(ss) : /\ ss[i] \in Seq(Messages) /\ Increasing(ss[i])
                               /\ After(lastSent, ss[i]) /\ Till(ss[i], next)
                               /\ Before(ss[i], qTTYout) /\ Before(ss[i], qMSGin)
                               /\ Before(ss[i], line)
      /\ \A i, j \in 1..Len(ss) : i < j => Before(ss[i], ss[j])
  BY <1>2, EntryShape DEF IInv, QueueInOrder, Ahead
<1> DEFINE q == FlattenSeq(ss)
<1>4. /\ q \in Seq(Messages) /\ Increasing(q) /\ After(lastSent, q) /\ Till(q, next)
      /\ Before(q, qTTYout) /\ Before(q, qMSGin) /\ Before(q, line)
  <2>1. Len(ss) \in Nat
    BY <1>1, <1>2
  <2>2. q \in Seq(Messages) /\ Increasing(q) /\ After(lastSent, q) /\ Till(q, next) /\ Before(q, qTTYout)
    BY <1>1, <1>2, <1>3, <2>1, FlattenInOrder
  <2>3. Before(q, qMSGin)
    BY <1>1, <1>2, <1>3, <2>1, FlattenInOrder
  <2>4. Before(q, line)
    BY <1>1, <1>2, <1>3, <2>1, FlattenInOrder
  <2> QED BY <2>2, <2>3, <2>4
<1>5. Way = q \o qTTYout \o qMSGin \o line
  BY DEF Way, QueuedIds, ss
<1> HIDE DEF q
<1> DEFINE v == q \o qTTYout
<1> DEFINE w == v \o qMSGin
<1>6. /\ v \in Seq(Messages) /\ Increasing(v) /\ After(lastSent, v) /\ Till(v, next)
      /\ Before(v, qMSGin) /\ Before(v, line)
  BY <1>1, <1>4, Joined DEF IInv, InOrder
<1> HIDE DEF v
<1>10. w \in Seq(Messages) /\ Increasing(w) /\ After(lastSent, w) /\ Till(w, next) /\ Before(w, line)
  BY <1>1, <1>6, Joined DEF IInv, InOrder
<1> HIDE DEF w
<1>7. Way \in Seq(Messages) /\ Increasing(Way) /\ After(lastSent, Way) /\ Till(Way, next)
  <2>1. Way = w \o line
    BY <1>5 DEF v, w
  <2> QED BY <1>1, <1>10, <2>1, Joined DEF IInv, InOrder
<1>8. DOMAIN Way = 1..Len(Way) /\ Len(Way) \in Nat
  BY <1>7
<1>9. \A i \in 1..(Len(Way) - 1) : Way[i] < Way[i + 1]
  <2>1. \A i \in 1..(Len(Way) - 1) : i \in 1..Len(Way) /\ i + 1 \in 1..Len(Way) /\ i < i + 1
    BY <1>8
  <2> QED BY <1>7, <2>1 DEF Increasing
<1> QED BY <1>7, <1>8, <1>9 DEF OnceInOrder, After, Till

-----------------------------------------------------------------------------
LEMMA InitIInv == Init => IInv
<1> SUFFICES ASSUME Init PROVE IInv
  OBVIOUS
<1> USE DEF Init
<1>1. PICK s \in Setups : kind = s.kind /\ route = s.route /\ bcl = s.bcl
  OBVIOUS
<1>2. s = [kind |-> kind, route |-> route, bcl |-> bcl] /\ kind \in Seq(Kinds)
  <2>1. s \in Setup
    BY SerialAssumption
  <2>2. s = [kind |-> s.kind, route |-> s.route, bcl |-> s.bcl] /\ s.kind \in Seq(Kinds)
    BY <2>1 DEF Setup
  <2> QED BY <1>1, <2>2
<1>3. Len(kind) \in Nat
  BY <1>2
<1>4. Shapes
  <2>1. /\ MsgQout \in Seq(Entries) /\ line \in Seq(Messages) /\ qMSGin \in Seq(Messages)
        /\ qTTYout \in Seq(Messages)
    OBVIOUS
  <2>2. 1 \in 1..(Len(kind) + 1) /\ 0 \in 0..Len(kind) /\ 0 \in 0..(BusyLimit + 1) /\ 0 \in 0..MaxLost
    BY <1>3, Numbers
  <2>3. [kind |-> kind, route |-> route, bcl |-> bcl] \in Setups
    BY <1>1, <1>2
  <2> QED BY <2>1, <2>2, <2>3 DEF Shapes
<1>5. Len(line) = 0 /\ Len(qMSGin) = 0 /\ Len(qTTYout) = 0 /\ Len(MsgQout) = 0 /\ 1..0 = {}
  OBVIOUS
<1>6. Limits
  BY <1>5, Numbers DEF Limits
<1>7. InOrder /\ QueueInOrder
  BY <1>5, Nothing DEF InOrder, QueueInOrder
<1>8. Timed
  BY DEF Timed
<1>9. Restrained
  <2>1. Held \in Nat
    BY Numbers DEF Held
  <2> QED BY <1>5, <2>1, Numbers DEF Restrained, Routed
<1> QED BY <1>4, <1>6, <1>7, <1>8, <1>9 DEF IInv

(* The inductive invariant holds in every reachable state, for any traffic.  *)
THEOREM Invariance == Spec => []IInv
<1>1. IInv /\ [Next]_vars => IInv'
  BY ShapesKept, OrderKept, TimedKept, RestrainedKept DEF IInv
<1> QED BY InitIInv, <1>1, PTL DEF Spec

(* Queues and timers keep to their ranges; a lock-out ends after BusyLimit   *)
(* seconds and one pass, however the carrier comes and goes.                 *)
THEOREM TypeCorrectness == Spec => []TypeOK
<1>1. IInv => TypeOK
  <2> SUFFICES ASSUME IInv PROVE TypeOK
    OBVIOUS
  <2>1. DOMAIN MsgQout = 1..Len(MsgQout)
    BY DEF IInv, Shapes
  <2>2. \A i \in DOMAIN MsgQout : MsgQout[i].page \in BOOLEAN /\ Len(MsgQout[i].ids) \in 1..MaxStitch
    BY <2>1, EntryShape DEF IInv, Limits
  <2> QED BY <2>2 DEF IInv, Shapes, Limits, TypeOK
<1> QED BY Invariance, <1>1, PTL

(* What is on its way keeps its order through the stitching and is newer     *)
(* than what was sent: no message is transmitted twice, or after a younger.  *)
THEOREM MessagesKeepTheirOrder == Spec => []OnceInOrder
BY Invariance, WayInOrder, PTL

(* A source that obeys RTS never overflows the queue, as long as the quarter *)
(* of the queue that RTS leaves free has room for what is under way when RTS  *)
(* falls, but for the two cases in which the code does not do what its        *)
(* comments say: a pause while the queue is backed up, and a route that does  *)
(* not name the port.                                                        *)
THEOREM RtsRestrainsTheSource ==
  ASSUME Roomy
  PROVE  Spec => []BackPressure
<1>1. IInv => BackPressure
  <2>1. IInv => route \in {"named", "matched"}
    <3>1. IInv => [kind |-> kind, route |-> route, bcl |-> bcl] \in Setup
      BY SerialAssumption DEF IInv, Shapes
    <3> QED BY <3>1 DEF Setup
  <2> QED BY <2>1 DEF IInv, Restrained, BackPressure
<1> QED BY Invariance, <1>1, PTL

(* With the same room and neither of the two cases, a port that is named by   *)
(* its route and never paused, the queue never overflows.                     *)
THEOREM NeverPausedNeverOverflows ==
  ASSUME Roomy
  PROVE  Spec /\ [](~paused /\ route = "named") => []~overflowed
<1>1. Init => ~unheeded
  BY DEF Init
<1>2. ~unheeded /\ ~paused /\ [Next]_vars => ~unheeded'
  BY DEF Next, Pass, Route, Read, ReadPaused, Flow, SetRTS, SetRTSPaused, PauseEndsInTest, MoveOne,
         QueueOverflow, MoveOffLine, MoveDone, history, Output, NothingToSend, LockedOut, NotReady, CanSend, Stitch,
         PageGivenUp, Transmit, PopOffLine, Purge, SourceSends, PauseChanges, CarrierChanges, LineChanges, Tick, vars
<1>3. IInv /\ ~unheeded /\ ~paused /\ route = "named" => ~overflowed
  BY DEF IInv, Restrained
<1> QED BY Invariance, <1>1, <1>2, <1>3, PTL DEF Spec

(* Nothing is transmitted while somebody is on the air before the lock-out   *)
(* has lasted its time, unless the queue was purged empty during it.         *)
THEOREM BusyChannelIsRespected == Spec => BusyChannelRespected
<1>1. IInv /\ [Next]_vars => (lastSent' # lastSent /\ bcl /\ cd => locked > BusyLimit \/ emptied)
  <2> SUFFICES ASSUME IInv, [Next]_vars, lastSent' # lastSent, bcl, cd, ~emptied
               PROVE  locked > BusyLimit
    OBVIOUS
  <2>1. Transmit
    BY DEF Next, Pass, Route, Read, ReadPaused, Flow, SetRTS, SetRTSPaused, PauseEndsInTest, MoveOne, QueueOverflow, MoveOffLine, MoveDone,
           NothingToSend, LockedOut, NotReady, Stitch, PageGivenUp, PopOffLine, Purge,
           SourceSends, PauseChanges, CarrierChanges, LineChanges, Tick, vars, setup, inflow
  <2>2. bclState = "CDHigh" /\ busyFor > BusyLimit
    BY <2>1 DEF Transmit, CanSend, ChannelFree, IInv, Shapes
  <2>3. busyFor <= locked
    BY <2>2 DEF IInv, Timed
  <2>4. busyFor \in Int /\ locked \in Int /\ BusyLimit \in Int
    BY Numbers DEF IInv, Shapes
  <2> QED BY <2>2, <2>3, <2>4
<1> QED BY Invariance, <1>1, PTL DEF Spec, BusyChannelRespected
=============================================================================

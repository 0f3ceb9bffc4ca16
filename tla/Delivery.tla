------------------------------ MODULE Delivery ------------------------------
(***************************************************************************)
(* What the message pipeline promises the devices, without its queues, its *)
(* threads and its limits: the router makes the copies of a message once,  *)
(* in the order of the arrivals and of the route table; a copy then either *)
(* leaves on a port of its destination or is given up, once and for good;  *)
(* and no port ever transmits a copy behind one that was made later.       *)
(* MessageFlow implements this (ImplementsDelivery there).                 *)
(***************************************************************************)
EXTENDS Integers, Sequences, SequencesExt

CONSTANTS
  MaxMsg,      \* bound: messages that ever arrive
  Ports,       \* the ports of the gateway
  PortsOf      \* route table entry -> the ports bound to its destination

VARIABLES
  arrived,     \* number of messages that have arrived so far
  routed,      \* the copies made: <<message, route table entry>>
  sent,        \* port -> the copies written to it, in order
  gone         \* the copies given up

vars == <<arrived, routed, sent, gone>>

Before(c, d) == c[1] < d[1] \/ (c[1] = d[1] /\ c[2] < d[2])

Written == UNION {ToSet(sent[p]) : p \in Ports}
Pending == routed \ (Written \cup gone)

Init ==
  /\ arrived = 0 /\ routed = {} /\ gone = {}
  /\ sent = [p \in Ports |-> <<>>]

Arrive ==
  /\ arrived < MaxMsg
  /\ arrived' = arrived + 1
  /\ UNCHANGED <<routed, sent, gone>>

\* The router works through the messages and through its table in order.
Route ==
  /\ \E m \in 1 .. arrived, r \in DOMAIN PortsOf :
       /\ \A c \in routed : Before(c, <<m, r>>)
       /\ routed' = routed \cup {<<m, r>>}
  /\ UNCHANGED <<arrived, sent, gone>>

Send ==
  /\ \E c \in Pending : \E p \in PortsOf[c[2]] :
       /\ \A d \in ToSet(sent[p]) : Before(d, c)
       /\ sent' = [sent EXCEPT ![p] = Append(@, c)]
  /\ UNCHANGED <<arrived, routed, gone>>

\* A purge or a full queue may give up several copies at once.
GiveUp ==
  /\ \E C \in SUBSET Pending : gone' = gone \cup C
  /\ UNCHANGED <<arrived, routed, sent>>

Next == Arrive \/ Route \/ Send \/ GiveUp

Spec == Init /\ [][Next]_vars
=============================================================================

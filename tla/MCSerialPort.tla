----------------------------- MODULE MCSerialPort -----------------------------
(* More plain messages than the queue holds, for a port that minds no busy     *)
(* channel, by a route of either sort; a mix of pages for one that does.       *)
EXTENDS SerialPort

Plain(n) == [i \in 1..n |-> "plain"]
Mixed == <<"pageA", "pageA", "pageA", "pageB", "long", "unknown", "plain">>

MCSetups ==
  {[kind |-> Plain(15), route |-> r, bcl |-> FALSE] : r \in {"named", "matched"}}
  \cup {[kind |-> Mixed, route |-> "named", bcl |-> TRUE]}
================================================================================

------------------------------ MODULE MCRouter ------------------------------
(* A terminal T and a modem M, messages of each format that is received, one *)
(* too long for a frame, routes to both and to X, which no device has.  The  *)
(* hash tells the frames apart, and nothing else.                            *)
EXTENDS Router

MCDesignators == {"T", "M"}
MCHash(b, d) == b.seq + 1
Received(f, t) ==
  [format |-> f, body |-> [text |-> t, seq |-> IF f = "WMX" THEN 0 ELSE Bare],
   src |-> "M", id |-> 0, was |-> f]
MCMessages == {Received(f, "t") : f \in {"ASCII", "PRAVE", "WMX", "PageASCII"}} \cup {Received("ASCII", "u")}
Route(f, d) == [format |-> f, srcs |-> {"M"}, ids |-> {0}, dst |-> d]
FewEntries == {Route("ALL", "T"), Route("ALL", "M"), Route("WMX", "X")}
MCEntries == {Route("ALL", "T"), Route("ALL", "M"), Route("WMX", "M"), Route("ALL", "X")}
=============================================================================

---------------------------- MODULE MCStreamParser ----------------------------
(* All orders of four things a modem or a computer sends, of four TAP        *)
(* commands, of documents and of lines a user types.                          *)
EXTENDS StreamParser

Streams == {"nmea", "wmx", "wmxd", "noise", "soh", "cutnmea", "cutwmx"}
Taps == {"page", "badpage", "unknown", "connect", "check", "bye", "wmx", "noise", "cutpage"}
Documents == {"doc", "noise", "cutdoc"}

MCSent ==
  [device : {"dWMXmodem", "dAVLPC"}, items : [1..4 -> Streams]]
  \cup [device : Servers \cup {"dDataModem", "dTerminal", "dNONE"}, items : {<<"wmx", "nmea", "noise", "wmxd">>}]
  \cup [device : {"dCLI"}, items : {<<k, k, k, k>> : k \in {"line", "crlf"}}]
  \cup [device : {"dTAP"}, items : [1..4 -> Taps]]
  \cup [device : {"dCigorn"}, items : [1..4 -> Documents]]

MCDocuments == [device : {"dCigorn"}, items : {<<"doc", "doc">>}]
================================================================================

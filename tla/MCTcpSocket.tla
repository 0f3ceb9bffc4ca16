------------------------------ MODULE MCTcpSocket ------------------------------
(* Two sockets of every kind that matters to each other: a listening server   *)
(* and a client, which open connections, and the two ends of datagrams.       *)
EXTENDS TcpSocket

MCTables == {<<"server", "client">>, <<"udptx", "udprx">>}
================================================================================

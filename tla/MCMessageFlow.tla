-------------------------- MODULE MCMessageFlow --------------------------
(* Instances of the pipeline small enough for TLC.                          *)
EXTENDS MessageFlow

(* Two COM ports and one socket.  Two route entries send what the host says *)
(* to the radio, so two messages overfill a queue of two entries; what the  *)
(* base station says goes to designators no port is bound to.               *)
TwoComPorts == <<"radio", "base">>
OneSocket   == <<"host">>
FanOutTable == << [src |-> "radio", dst |-> "host"],
                  [src |-> "host",  dst |-> "radio"],
                  [src |-> "host",  dst |-> "radio"],
                  [src |-> "base",  dst |-> "nosock"],
                  [src |-> "base",  dst |-> "nocom"] >>
=============================================================================

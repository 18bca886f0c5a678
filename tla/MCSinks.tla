------------------------------ MODULE MCSinks -------------------------------
(* The sinks with standard input and a few more descriptors, so that the    *)
(* table can be full.                                                       *)
EXTENDS Sinks, TLC

\* Both sinks with a lasting TCP connection.
Lasting == [mqttEnable |-> TRUE, tcpEnable |-> TRUE, singleshot |-> FALSE]

\* The TCP sink alone, with a connection per message.
PerMessage == [mqttEnable |-> FALSE, tcpEnable |-> TRUE, singleshot |-> TRUE]

BothConfigs == {Lasting, PerMessage}
LastingOnly == {Lasting}

=============================================================================

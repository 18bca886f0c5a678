------------------------------- MODULE Sinks --------------------------------
(***************************************************************************)
(* The two sinks of the bridge and the descriptor table they share: the    *)
(* MQTT thread (client-mqtt.c over transport.c), the TCP thread            *)
(* (client-tcp.c over client-trans-tcp.cpp), and the threads that publish, *)
(* which write to the sockets the sink threads have opened.  The OPC UA    *)
(* client of the process opens and closes its own sockets beside them.     *)
(*                                                                         *)
(* A descriptor is a number, socket() returns the lowest free one, and     *)
(* each sink keeps its number twice: in the variable sock of the sink and  *)
(* in a static variable of its transport.                                  *)
(***************************************************************************)
EXTENDS Integers, FiniteSets

CONSTANTS Pubs,          \* the threads that publish: poll groups and main
          Mqtt, Tcp,     \* mqtt_run and tcp_run
          MaxFd,         \* descriptors are 0 .. MaxFd
          Configs        \* what the configuration may say

ASSUME SinksAssumption ==
    /\ Mqtt # Tcp /\ Mqtt \notin Pubs /\ Tcp \notin Pubs
    /\ IsFiniteSet(Pubs) /\ MaxFd \in Nat
    /\ Configs \subseteq [mqttEnable : BOOLEAN, tcpEnable : BOOLEAN, singleshot : BOOLEAN]

VARIABLES
    config,    \* the configuration, read at the start
    fd,        \* who opened each descriptor
    up,        \* the sockets that the MQTT thread has connected
    sock,      \* sock of client-mqtt.c and of client-tcp.c
    mysock,    \* the static variable of transport.c
    tcpsock,   \* the static variable of client-trans-tcp.cpp
    pc,        \* where each thread is
    arg,       \* the parameter sock of tcp_sendPacketBuffer in each publisher
    rc,        \* the local rc of tcp_open in each thread
    beStop,
    foreign,   \* history: a sink has written to, or closed, a descriptor that
               \* another part of the process opened
    clash      \* history: two threads have been in the TCP transport at once,
               \* or one before the TCP thread had its connection, or somebody
               \* else has taken the number in the TCP sink's sock

vars == <<config, fd, up, sock, mysock, tcpsock, pc, arg, rc, beStop, foreign, clash>>

Fds == 0 .. MaxFd
Nums == Fds \cup {-1}
Threads == Pubs \cup {Mqtt, Tcp}
Owners == {"stdin", "mqtt", "tcp", "ua"}
Places == {"start", "open", "socket", "connect", "return", "hello", "retry", "serve",
           "close", "end", "idle", "drop"}

TypeOK ==
    /\ config \in Configs
    /\ fd \in [Fds -> Owners \cup {"free"}]
    /\ up \subseteq {f \in Fds : fd[f] \in {"mqtt", "tcp"}}
    /\ sock \in [{"mqtt", "tcp"} -> Nums] /\ mysock \in Nums /\ tcpsock \in Nums
    /\ pc \in [Threads -> Places] /\ arg \in [Pubs -> Nums]
    /\ rc \in [Pubs \cup {Tcp} -> {-1, 0}]
    /\ beStop \in BOOLEAN
    /\ foreign \in BOOLEAN /\ clash \in BOOLEAN

Init ==
    /\ config \in Configs
    /\ fd = [f \in Fds |-> IF f = 0 THEN "stdin" ELSE "free"] /\ up = {}
    /\ sock = [s \in {"mqtt", "tcp"} |-> 0] /\ mysock = -1 /\ tcpsock = -1
    /\ pc = [t \in Threads |-> IF t \in Pubs THEN "idle" ELSE "start"]
    /\ arg = [p \in Pubs |-> -1] /\ rc = [t \in Pubs \cup {Tcp} |-> 0]
    /\ beStop = FALSE /\ foreign = FALSE /\ clash = FALSE

-----------------------------------------------------------------------------
(* Descriptors.                                                            *)

Goto(t, to) == pc' = [pc EXCEPT ![t] = to]

Free == {f \in Fds : fd[f] = "free"}
Lowest == CHOOSE f \in Free : \A g \in Free : f <= g

\* A new descriptor for owner.
Take(owner) ==
    /\ Free # {}
    /\ fd' = [fd EXCEPT ![Lowest] = owner]
    /\ up' = up \ {Lowest}

\* A sink uses descriptor n, to write or to close: whose is it?
Use(sink, n) ==
    foreign' = (foreign \/ (n \in Fds /\ fd[n] \notin {"free", "stdin", sink}))

\* close of descriptor n.
Close(n) ==
    /\ fd' = IF n \in Fds THEN [fd EXCEPT ![n] = "free"] ELSE fd
    /\ up' = up \ {n}

-----------------------------------------------------------------------------
(* The MQTT thread: mqtt_connect over transport_open, until it works.      *)

MqttStart ==
    /\ pc[Mqtt] = "start"
    /\ Goto(Mqtt, IF config.mqttEnable THEN "open" ELSE "end")
    /\ UNCHANGED <<fd, up, sock, mysock, tcpsock, arg, rc, beStop, foreign>>

\* The address lookup, which may fail; -1 stands for its error code.
MqttLookup ==
    /\ pc[Mqtt] = "open"
    /\ mysock' = -1
    /\ \/ Goto(Mqtt, "retry") /\ sock' = [sock EXCEPT !["mqtt"] = -1]
       \/ Goto(Mqtt, "socket") /\ UNCHANGED sock
    /\ UNCHANGED <<fd, up, tcpsock, arg, rc, beStop, foreign>>

\* Without a descriptor transport_open returns the 0 of the lookup.
MqttSocket ==
    /\ pc[Mqtt] = "socket"
    /\ \/ Take("mqtt") /\ mysock' = Lowest /\ Goto(Mqtt, "connect") /\ UNCHANGED sock
       \/ /\ Goto(Mqtt, "hello") /\ sock' = [sock EXCEPT !["mqtt"] = 0]
          /\ UNCHANGED <<fd, up, mysock>>
    /\ UNCHANGED <<tcpsock, arg, rc, beStop, foreign>>

\* A refused connection is returned as a descriptor, too.  A number that has
\* become another part's in between is closed, or connected already.
MqttConnect ==
    /\ pc[Mqtt] = "connect"
    /\ \/ up' = up
       \/ fd[mysock] \in {"mqtt", "tcp"} /\ up' = up \cup {mysock}
    /\ sock' = [sock EXCEPT !["mqtt"] = mysock]
    /\ Goto(Mqtt, "hello")
    /\ UNCHANGED <<fd, mysock, tcpsock, arg, rc, beStop, foreign>>

\* CONNECT goes to sock, CONNACK is read from mysock.
MqttHello ==
    /\ pc[Mqtt] = "hello"
    /\ Use("mqtt", sock["mqtt"])
    /\ \/ Goto(Mqtt, "retry")
       \/ mysock \in up /\ sock["mqtt"] = mysock /\ Goto(Mqtt, "serve")
    /\ UNCHANGED <<fd, up, sock, mysock, tcpsock, arg, rc, beStop>>

\* Mutant: the loop does not look at beStop.
MqttRetry_forever ==
    /\ pc[Mqtt] = "retry"
    /\ Goto(Mqtt, "open")
    /\ UNCHANGED <<fd, up, sock, mysock, tcpsock, arg, rc, beStop, foreign>>

\* The next attempt follows at once; the socket of the last one stays open.
MqttRetry ==
    /\ pc[Mqtt] = "retry"
    /\ Goto(Mqtt, IF beStop THEN "close" ELSE "open")
    /\ UNCHANGED <<fd, up, sock, mysock, tcpsock, arg, rc, beStop, foreign>>

MqttServe ==
    /\ pc[Mqtt] = "serve" /\ beStop
    /\ Goto(Mqtt, "close")
    /\ UNCHANGED <<fd, up, sock, mysock, tcpsock, arg, rc, beStop, foreign>>

\* DISCONNECT and transport_close.
MqttClose ==
    /\ pc[Mqtt] = "close"
    /\ Use("mqtt", sock["mqtt"])
    /\ Close(sock["mqtt"])
    /\ Goto(Mqtt, "end")
    /\ UNCHANGED <<sock, mysock, tcpsock, arg, rc, beStop>>

-----------------------------------------------------------------------------
(* tcp_open, in the TCP thread and in the publishers.  Every thread uses    *)
(* the one static variable.                                                *)

TcpLookup(t) ==
    /\ pc[t] = "open" /\ t # Mqtt
    /\ tcpsock' = -1
    /\ \/ Goto(t, "return") /\ rc' = [rc EXCEPT ![t] = -1]
       \/ Goto(t, "socket") /\ rc' = [rc EXCEPT ![t] = 0]
    /\ UNCHANGED <<fd, up, sock, mysock, arg, beStop, foreign>>

TcpSocket(t) ==
    /\ pc[t] = "socket" /\ t # Mqtt
    /\ \/ Take("tcp") /\ tcpsock' = Lowest /\ Goto(t, "connect")
       \/ tcpsock' = -1 /\ Goto(t, "return") /\ UNCHANGED <<fd, up>>
    /\ UNCHANGED <<sock, mysock, arg, rc, beStop, foreign>>

TcpConnect(t) ==
    /\ pc[t] = "connect" /\ t # Mqtt
    /\ \E r \in {-1, 0} : rc' = [rc EXCEPT ![t] = r]
    /\ Goto(t, "return")
    /\ UNCHANGED <<fd, up, sock, mysock, tcpsock, arg, beStop, foreign>>

\* What tcp_open returns; the rc of a refused connect is lost.
Returned(t) == IF tcpsock = -1 THEN rc[t] ELSE tcpsock

-----------------------------------------------------------------------------
(* The TCP thread.                                                         *)

TcpStart ==
    /\ pc[Tcp] = "start"
    /\ Goto(Tcp, IF config.tcpEnable THEN "open" ELSE "end")
    /\ UNCHANGED <<fd, up, sock, mysock, tcpsock, arg, rc, beStop, foreign>>

\* Mutant: a connection that is not up is opened again.
tcp_connect_again ==
    /\ pc[Tcp] = "return"
    /\ sock' = [sock EXCEPT !["tcp"] = Returned(Tcp)]
    /\ Goto(Tcp, IF rc[Tcp] = 0 THEN "serve" ELSE IF beStop THEN "close" ELSE "open")
    /\ UNCHANGED <<fd, up, mysock, tcpsock, arg, rc, beStop, foreign>>

tcp_connect ==
    /\ pc[Tcp] = "return"
    /\ sock' = [sock EXCEPT !["tcp"] = Returned(Tcp)]
    /\ Goto(Tcp, IF Returned(Tcp) >= 0 THEN "serve" ELSE IF beStop THEN "close" ELSE "open")
    /\ UNCHANGED <<fd, up, mysock, tcpsock, arg, rc, beStop, foreign>>

TcpServe ==
    /\ pc[Tcp] = "serve" /\ beStop
    /\ Goto(Tcp, "close")
    /\ UNCHANGED <<fd, up, sock, mysock, tcpsock, arg, rc, beStop, foreign>>

tcp_close ==
    /\ pc[Tcp] = "close"
    /\ Use("tcp", sock["tcp"]) /\ Close(sock["tcp"])
    /\ Goto(Tcp, "end")
    /\ UNCHANGED <<sock, mysock, tcpsock, arg, rc, beStop>>

-----------------------------------------------------------------------------
(* Publishers.                                                             *)

mqtt_publish(p) ==
    /\ pc[p] = "idle"
    /\ Use("mqtt", sock["mqtt"])
    /\ UNCHANGED <<fd, up, sock, mysock, tcpsock, pc, arg, rc, beStop>>

tcp_publish(p) ==
    /\ pc[p] = "idle"
    /\ Use("tcp", sock["tcp"])
    /\ arg' = [arg EXCEPT ![p] = IF config.singleshot THEN sock["tcp"] ELSE @]
    /\ Goto(p, IF config.singleshot THEN "drop" ELSE "idle")
    /\ UNCHANGED <<fd, up, sock, mysock, tcpsock, rc, beStop>>

SingleshotClose(p) ==
    /\ pc[p] = "drop"
    /\ Use("tcp", arg[p]) /\ Close(arg[p])
    /\ Goto(p, "open")
    /\ UNCHANGED <<sock, mysock, tcpsock, arg, rc, beStop>>

\* The new number goes to the static variable; sock keeps the old one.
SingleshotReturn(p) ==
    /\ pc[p] = "return"
    /\ tcpsock' = Returned(p)
    /\ arg' = [arg EXCEPT ![p] = -1]
    /\ Goto(p, "idle")
    /\ UNCHANGED <<fd, up, sock, mysock, rc, beStop, foreign>>

-----------------------------------------------------------------------------
(* The rest of the process, and the peers.                                 *)

\* The OPC UA client opens its socket, and closes it.  It closes standard
\* input where its address lookup has failed.
UaOpen ==
    /\ \A f \in Fds : fd[f] # "ua"
    /\ Take("ua")
    /\ UNCHANGED <<sock, mysock, tcpsock, pc, arg, rc, beStop, foreign>>

UaClose(f) ==
    /\ fd[f] = "ua" \/ (f = 0 /\ fd[f] = "stdin")
    /\ Close(f)
    /\ UNCHANGED <<sock, mysock, tcpsock, pc, arg, rc, beStop, foreign>>

PeerCloses(f) ==
    /\ f \in up /\ up' = up \ {f}
    /\ UNCHANGED <<fd, sock, mysock, tcpsock, pc, arg, rc, beStop, foreign>>

Stop ==
    /\ ~beStop /\ beStop' = TRUE
    /\ UNCHANGED <<fd, up, sock, mysock, tcpsock, pc, arg, rc, foreign>>

\* main cancels the two threads once beStop is set.
Cancelled(t) ==
    /\ beStop /\ t \in {Mqtt, Tcp} /\ pc[t] # "end"
    /\ Goto(t, "end")
    /\ UNCHANGED <<fd, up, sock, mysock, tcpsock, arg, rc, beStop, foreign>>

InTransport == {t \in Pubs \cup {Tcp} :
                   pc[t] \in {"drop", "open", "socket", "connect", "return"}}

\* What holds of every step beside its own action.
History ==
    /\ clash' = \/ clash
                \/ Cardinality(InTransport') > 1
                \/ pc[Tcp] # "serve" /\ InTransport' \cap Pubs # {}
                \/ \E f \in Fds : fd[f] = "free" /\ fd'[f] \in {"mqtt", "ua"} /\ f = sock["tcp"]
    /\ UNCHANGED config

MqttStep ==
    /\ \/ MqttStart \/ MqttLookup \/ MqttSocket \/ MqttConnect
       \/ MqttHello \/ MqttRetry \/ MqttServe \/ MqttClose
    /\ History

OpenStep(t) == TcpLookup(t) \/ TcpSocket(t) \/ TcpConnect(t)

TcpStep == (TcpStart \/ OpenStep(Tcp) \/ tcp_connect \/ TcpServe \/ tcp_close) /\ History

PubStep(p) ==
    /\ \/ mqtt_publish(p) \/ tcp_publish(p) \/ SingleshotClose(p)
       \/ OpenStep(p) \/ SingleshotReturn(p)
    /\ History

OtherStep ==
    /\ \/ Stop \/ UaOpen
       \/ \E f \in Fds : UaClose(f) \/ PeerCloses(f)
       \/ \E t \in {Mqtt, Tcp} : Cancelled(t)
    /\ History

Next == MqttStep \/ TcpStep \/ OtherStep \/ \E p \in Pubs : PubStep(p)

Spec == Init /\ [][Next]_vars

\* Both threads are scheduled, and every read ends by its timeout.
FairSpec == Spec /\ WF_vars(MqttStep) /\ WF_vars(TcpStep)

-----------------------------------------------------------------------------
(* Properties.                                                             *)

\* With a lasting TCP connection, and until the process stops, no sink writes to
\* or closes a descriptor of another part of the process, except for standard
\* input, which is what a sink has before its first connect, and for what has
\* taken the number of standard input.
StaysHome == ~config.singleshot /\ ~beStop /\ fd[0] = "stdin" => ~foreign

\* With a lasting TCP connection the TCP thread never loses a socket: each one
\* it opened is the one it publishes on.
TcpKeepsSocket ==
    ~config.singleshot => \A f \in Fds : fd[f] = "tcp" => f \in {sock["tcp"], tcpsock}

\* Without a clash the singleshot scheme loses only sockets with a number below
\* that of sock: it works its way up to its old number again, and the loss is
\* bounded.
SingleshotLossBounded ==
    config.singleshot /\ ~clash /\ ~beStop =>
        \A f \in Fds : fd[f] = "tcp" => f <= sock["tcp"] \/ f = tcpsock

\* Each sink keeps to its own sockets, in both modes of the TCP sink.
SocketsKept == TypeOK /\ StaysHome /\ TcpKeepsSocket /\ SingleshotLossBounded

\* Both sink threads end after the stop flag was set, even if no peer is ever
\* reached and pthread_cancel never strikes.
SinksStop == beStop ~> pc[Mqtt] = "end" /\ pc[Tcp] = "end"

=============================================================================

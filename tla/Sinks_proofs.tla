---------------------------- MODULE Sinks_proofs ----------------------------
(***************************************************************************)
(* Proof that the sinks keep to their own sockets (SocketsKept), for any    *)
(* finite set of publishers, any size of the descriptor table and any       *)
(* configurations.  The inductive invariant says, beside the property,      *)
(* where each thread can be, which numbers the sinks hold and whose they    *)
(* are, and why a singleshot connection finds its old number free.          *)
(* Then, for the MQTT library below them: for any filters, bounds and       *)
(* packet identifiers, reused ones too, a call that succeeds has the answer *)
(* to it or to a call that gave up (AnswerIsOwn).                           *)
(***************************************************************************)
EXTENDS Sinks, MqttClient, FiniteSetTheorems, WellFoundedInduction, TLAPS

-----------------------------------------------------------------------------
(* The inductive invariant.                                                *)

\* A publisher is in tcp_open only for a message of its own, the MQTT thread
\* connects the socket it has just opened, and the sinks close only to stop.
Where ==
    /\ \A p \in Pubs : pc[p] \in {"idle", "drop", "open", "socket", "connect", "return"}
    /\ pc[Mqtt] = "connect" => mysock \in Fds
    /\ pc[Tcp] \in {"start", "open", "socket", "connect", "return", "serve", "close", "end"}
    /\ pc[Mqtt] = "close" \/ pc[Tcp] = "close" => beStop

AllIdle == \A p \in Pubs : pc[p] = "idle"

\* As long as the TCP thread is connecting, only its attempt has a socket.
Attempt ==
    \A f \in Fds : fd[f] = "tcp" =>
        /\ pc[Tcp] \notin {"start", "open", "socket"}
        /\ pc[Tcp] \in {"connect", "return"} => f = tcpsock

Lasting ==
    ~config.singleshot => AllIdle /\ Attempt /\ \A f \in Fds : fd[f] = "tcp" => f \in {sock["tcp"], tcpsock}

\* Before the stop every number that a sink holds is none, standard input, or a
\* descriptor it has opened.
Home ==
    ~config.singleshot /\ ~beStop /\ fd[0] = "stdin" =>
        /\ ~foreign
        /\ sock["mqtt"] \in {-1, 0} \/ fd[sock["mqtt"]] = "mqtt"
        /\ mysock = -1 \/ fd[mysock] = "mqtt"
        /\ sock["tcp"] \in {-1, 0} \/ fd[sock["tcp"]] = "tcp"
        /\ tcpsock = -1 \/ fd[tcpsock] = "tcp"

\* Without a clash one thread at a time is in the transport, a publisher only
\* beside a TCP thread that serves; from its close to its socket() the number in
\* sock is free.
Alone ==
    /\ \A t, u \in InTransport : t = u
    /\ pc[Tcp] # "serve" => AllIdle

PerMessage ==
    /\ Attempt
    /\ pc[Tcp] = "end" => \A f \in Fds : fd[f] # "tcp"
    /\ pc[Tcp] = "serve" =>
        /\ sock["tcp"] \in Fds
        /\ \A f \in Fds : fd[f] = "tcp" => f <= sock["tcp"]
        /\ \A p \in Pubs :
            /\ pc[p] = "drop" => arg[p] = sock["tcp"]
            /\ pc[p] \in {"open", "socket"} => fd[sock["tcp"]] = "free"

Singleshot == config.singleshot /\ ~clash /\ ~beStop => Alone /\ PerMessage

IInv == TypeOK /\ Where /\ Lasting /\ Home /\ Singleshot

-----------------------------------------------------------------------------
(* Facts about sets.                                                       *)

\* socket() returns a free descriptor, and none below it is free: among the free
\* descriptors take one with the smallest set of free ones below it.
LEMMA LowestIsLeast ==
    Free # {} => Lowest \in Free /\ \A g \in Free : Lowest <= g
<1> SUFFICES ASSUME Free # {}
             PROVE  \E f \in Free : \A g \in Free : f <= g
  BY DEF Lowest
<1> DEFINE Below(f) == {g \in Free : g < f}
           Belows == {Below(f) : f \in Free}
<1>1. Free \subseteq Fds /\ Fds \subseteq Nat /\ IsFiniteSet(Free)
  <2>1. IsFiniteSet(Fds)
    BY SinksAssumption, FS_Interval DEF Fds
  <2> QED
    BY <2>1, SinksAssumption, FS_Subset DEF Free, Fds
<1>2. IsWellFoundedOn(StrictSubsetOrdering(Free), SUBSET Free)
  BY <1>1, FS_StrictSubsetOrderingWellFounded, FS_FiniteSubsetsOfFinite
<1>3. PICK B \in Belows : \A C \in Belows : <<C, B>> \notin StrictSubsetOrdering(Free)
  <2>1. Belows \subseteq SUBSET Free /\ Belows # {}
    OBVIOUS
  <2> HIDE DEF Belows
  <2> QED
    BY <1>2, <2>1, WFMin
<1>4. PICK f \in Free : B = Below(f)
  OBVIOUS
<1>5. ASSUME NEW g \in Free, g < f PROVE FALSE
  <2>1. /\ \A h \in Free : h < g => h < f
        /\ g < f /\ ~(g < g)
    BY <1>1, <1>5, SMT
  <2>2. <<Below(g), Below(f)>> \in StrictSubsetOrdering(Free)
    BY <2>1 DEF StrictSubsetOrdering
  <2> QED
    BY <1>3, <1>4, <2>2
<1> QED
  BY <1>1, <1>5

\* What the model's count of the threads in the transport means.
LEMMA AtMostOne ==
    ASSUME NEW S, IsFiniteSet(S), ~(Cardinality(S) > 1), NEW a \in S, NEW b \in S
    PROVE  a = b
<1> SUFFICES ASSUME a # b PROVE FALSE
  OBVIOUS
<1> DEFINE A == {a}
<1>1. IsFiniteSet(A \cup {b}) /\ Cardinality(A \cup {b}) = 2
  <2>1. IsFiniteSet(A) /\ Cardinality(A) = 1 /\ b \notin A
    BY FS_Singleton
  <2> HIDE DEF A
  <2> QED
    BY <2>1, FS_AddElement
<1>2. Cardinality(A \cup {b}) <= Cardinality(S)
  BY FS_Subset
<1>3. Cardinality(S) \in Nat
  BY FS_CardinalityType
<1> HIDE DEF A
<1> QED
  BY <1>1, <1>2, <1>3

\* A new descriptor: it was free, no free one is below it, and no other changes.
LEMMA TakeTakes ==
    ASSUME NEW owner, TypeOK, Take(owner)
    PROVE  /\ Lowest \in Fds /\ fd[Lowest] = "free" /\ \A g \in Fds : fd[g] = "free" => Lowest <= g
           /\ fd' = [fd EXCEPT ![Lowest] = owner] /\ up' = up \ {Lowest}
  BY LowestIsLeast DEF Take, Free

\* The table keeps its type.
LEMMA TakeTypes ==
    ASSUME NEW owner \in Owners, TypeOK, Take(owner)
    PROVE  /\ fd' \in [Fds -> Owners \cup {"free"}]
           /\ up' \subseteq {f \in Fds : fd'[f] \in {"mqtt", "tcp"}}
           /\ Lowest \in Nums
  BY TakeTakes DEF TypeOK, Owners, Nums

\* What the history says of a step without a clash.
LEMMA Within ==
    ASSUME TypeOK, Where', History, ~clash'
    PROVE  /\ ~clash /\ config' = config
           /\ \A t, u \in InTransport' : t = u
           /\ pc[Tcp] # "serve" => AllIdle'
           /\ \A f \in Fds : f = sock["tcp"] /\ fd[f] = "free" => fd'[f] \notin {"mqtt", "ua"}
<1>1. /\ ~clash /\ config' = config /\ ~(Cardinality(InTransport') > 1)
      /\ pc[Tcp] = "serve" \/ InTransport' \cap Pubs = {}
      /\ \A f \in Fds : f = sock["tcp"] /\ fd[f] = "free" => fd'[f] \notin {"mqtt", "ua"}
  BY DEF History
<1>2. IsFiniteSet(InTransport')
  <2>1. IsFiniteSet(Pubs \cup {Tcp})
    BY SinksAssumption, FS_AddElement
  <2> QED
    BY <2>1, FS_Subset DEF InTransport
<1>3. \A t, u \in InTransport' : t = u
  BY <1>1, <1>2, AtMostOne
<1>4. pc[Tcp] # "serve" => AllIdle'
  BY <1>1 DEF InTransport, AllIdle, Where
<1> QED
  BY <1>1, <1>3, <1>4

\* A step of another part leaves the TCP thread, the publishers and their numbers
\* alone, opens no TCP socket and does not take the number in sock.
Bystander ==
    /\ tcpsock' = tcpsock /\ arg' = arg /\ sock'["tcp"] = sock["tcp"]
    /\ pc'[Tcp] = pc[Tcp] /\ \A p \in Pubs : pc'[p] = pc[p]
    /\ \A f \in Fds : /\ fd'[f] = "tcp" => fd[f] = "tcp"
                      /\ f = sock["tcp"] /\ fd[f] = "free" => fd'[f] = "free"

\* What a bystander does to the descriptors leaves the message in hand alone.
LEMMA Bystanding == PerMessage /\ Bystander => PerMessage'
<1> SUFFICES ASSUME PerMessage, Bystander PROVE PerMessage'
  OBVIOUS
<1>1. Attempt' /\ (pc'[Tcp] = "end" => \A f \in Fds : fd'[f] # "tcp")
  BY DEF PerMessage, Attempt, Bystander
<1>2. ASSUME pc'[Tcp] = "serve"
      PROVE  /\ sock'["tcp"] \in Fds
             /\ \A f \in Fds : fd'[f] = "tcp" => f <= sock'["tcp"]
             /\ \A p \in Pubs :
                 /\ pc'[p] = "drop" => arg'[p] = sock'["tcp"]
                 /\ pc'[p] \in {"open", "socket"} => fd'[sock'["tcp"]] = "free"
  BY <1>2 DEF PerMessage, Bystander
<1> QED
  BY <1>1, <1>2 DEF PerMessage

\* The stop is for good.
LEMMA StopStays == Next /\ beStop => beStop'
  BY DEF Next, MqttStep, TcpStep, PubStep, OpenStep, OtherStep, MqttStart, MqttLookup,
     MqttSocket, MqttConnect, MqttHello, MqttRetry, MqttServe, MqttClose, TcpStart,
     TcpLookup, TcpSocket, TcpConnect, tcp_connect, TcpServe, tcp_close, mqtt_publish,
     tcp_publish, SingleshotClose, SingleshotReturn, Stop, UaOpen, UaClose, PeerCloses,
     Cancelled

-----------------------------------------------------------------------------
(* One lemma per conjunct, with a case per action.                         *)

\* Every step keeps the types; what is connected is a socket of a sink.
LEMMA NextTypeOK ==
    ASSUME TypeOK, Where, Next
    PROVE  TypeOK'
<1> USE SinksAssumption
<1>1. CASE MqttStart /\ History
  BY <1>1 DEF MqttStart, TypeOK, Places, Goto, History
<1>2. CASE MqttLookup /\ History
  BY <1>2 DEF MqttLookup, TypeOK, Places, Nums, Goto, History
<1>3. CASE MqttSocket /\ History
  <2>1. CASE Take("mqtt") /\ mysock' = Lowest /\ Goto(Mqtt, "connect") /\ UNCHANGED sock
    <3>1. "mqtt" \in Owners
      BY DEF Owners
    <3>2. Take("mqtt")
      BY <2>1
    <3>3. /\ fd' \in [Fds -> Owners \cup {"free"}]
          /\ up' \subseteq {x \in Fds : fd'[x] \in {"mqtt", "tcp"}}
          /\ Lowest \in Nums
      BY <3>1, <3>2, TakeTypes
    <3> QED
      BY <1>3, <2>1, <3>3 DEF MqttSocket, TypeOK, Places, Goto, History
  <2>2. CASE Goto(Mqtt, "hello") /\ sock' = [sock EXCEPT !["mqtt"] = 0] /\ UNCHANGED <<fd, up, mysock>>
    BY <1>3, <2>2 DEF MqttSocket, TypeOK, Threads, Places, Nums, Fds, Goto, History
  <2> QED
    BY <1>3, <2>1, <2>2 DEF MqttSocket
<1>4. CASE MqttConnect /\ History
  BY <1>4 DEF MqttConnect, TypeOK, Where, Places, Goto, History
<1>5. CASE MqttHello /\ History
  BY <1>5 DEF MqttHello, TypeOK, Places, Goto, Use, History
<1>6. CASE MqttRetry /\ History
  BY <1>6 DEF MqttRetry, TypeOK, Places, Goto, History
<1>7. CASE MqttServe /\ History
  BY <1>7 DEF MqttServe, TypeOK, Places, Goto, History
<1>8. CASE MqttClose /\ History
  BY <1>8 DEF MqttClose, TypeOK, Places, Goto, Close, Use, History
<1>9. CASE TcpStart /\ History
  BY <1>9 DEF TcpStart, TypeOK, Places, Goto, History
<1>10. CASE tcp_connect /\ History
  BY <1>10 DEF tcp_connect, TypeOK, Threads, Places, Nums, Goto, Returned, History, Fds
<1>11. CASE TcpServe /\ History
  BY <1>11 DEF TcpServe, TypeOK, Places, Goto, History
<1>12. CASE tcp_close /\ History
  BY <1>12 DEF tcp_close, TypeOK, Places, Goto, Close, Use, History
<1>13. ASSUME NEW t \in Pubs \cup {Tcp}, TcpLookup(t), History PROVE TypeOK'
  BY <1>13 DEF TcpLookup, TypeOK, Places, Nums, Goto, History
<1>14. ASSUME NEW t \in Pubs \cup {Tcp}, TcpSocket(t), History PROVE TypeOK'
  <2>1. CASE Take("tcp") /\ tcpsock' = Lowest /\ Goto(t, "connect")
    <3>1. "tcp" \in Owners
      BY DEF Owners
    <3>2. Take("tcp")
      BY <2>1
    <3>3. /\ fd' \in [Fds -> Owners \cup {"free"}]
          /\ up' \subseteq {x \in Fds : fd'[x] \in {"mqtt", "tcp"}}
          /\ Lowest \in Nums
      BY <3>1, <3>2, TakeTypes
    <3> QED
      BY <1>14, <2>1, <3>3 DEF TcpSocket, TypeOK, Places, Goto, History
  <2>2. CASE tcpsock' = -1 /\ Goto(t, "return") /\ UNCHANGED <<fd, up>>
    BY <1>14, <2>2 DEF TcpSocket, TypeOK, Places, Nums, Goto, History
  <2> QED
    BY <1>14, <2>1, <2>2 DEF TcpSocket
<1>15. ASSUME NEW t \in Pubs \cup {Tcp}, TcpConnect(t), History PROVE TypeOK'
  BY <1>15 DEF TcpConnect, TypeOK, Places, Goto, History
<1>16. ASSUME NEW p \in Pubs, mqtt_publish(p), History PROVE TypeOK'
  BY <1>16 DEF mqtt_publish, TypeOK, Use, History
<1>17. ASSUME NEW p \in Pubs, tcp_publish(p), History PROVE TypeOK'
  BY <1>17 DEF tcp_publish, TypeOK, Places, Goto, Use, History
<1>18. ASSUME NEW p \in Pubs, SingleshotClose(p), History PROVE TypeOK'
  BY <1>18 DEF SingleshotClose, TypeOK, Places, Goto, Close, Use, History
<1>19. ASSUME NEW p \in Pubs, SingleshotReturn(p), History PROVE TypeOK'
  BY <1>19 DEF SingleshotReturn, TypeOK, Threads, Places, Nums, Goto, Returned, History, Fds
<1>20. CASE Stop /\ History
  BY <1>20 DEF Stop, TypeOK, History
<1>21. CASE UaOpen /\ History
  BY <1>21, TakeTakes, TakeTypes DEF UaOpen, TypeOK, Owners, History
<1>22. ASSUME NEW f \in Fds, UaClose(f), History PROVE TypeOK'
  BY <1>22 DEF UaClose, TypeOK, Close, History
<1>23. ASSUME NEW f \in Fds, PeerCloses(f), History PROVE TypeOK'
  BY <1>23 DEF PeerCloses, TypeOK, History
<1>24. ASSUME NEW t \in {Mqtt, Tcp}, Cancelled(t), History PROVE TypeOK'
  BY <1>24 DEF Cancelled, TypeOK, Places, Goto, History
<1> QED
  BY <1>1, <1>2, <1>3, <1>4, <1>5, <1>6, <1>7, <1>8, <1>9, <1>10, <1>11,
     <1>12, <1>13, <1>14, <1>15, <1>16, <1>17, <1>18, <1>19, <1>20, <1>21,
     <1>22, <1>23, <1>24 DEF Next, MqttStep, TcpStep, PubStep, OpenStep,
     OtherStep

\* Every step keeps each thread where it can be.
LEMMA NextWhere ==
    ASSUME TypeOK, Where, Next
    PROVE  Where'
<1> USE SinksAssumption
<1>1. CASE MqttStart /\ History
  BY <1>1 DEF MqttStart, Where, Goto
<1>2. CASE MqttLookup /\ History
  BY <1>2 DEF MqttLookup, TypeOK, Where, Threads, Goto
<1>3. CASE MqttSocket /\ History
  BY <1>3, TakeTakes DEF MqttSocket, TypeOK, Where, Threads, Goto
<1>4. CASE MqttConnect /\ History
  BY <1>4 DEF MqttConnect, Where, Goto
<1>5. CASE MqttHello /\ History
  BY <1>5 DEF MqttHello, TypeOK, Where, Threads, Goto
<1>6. CASE MqttRetry /\ History
  BY <1>6 DEF MqttRetry, Where, Goto
<1>7. CASE MqttServe /\ History
  BY <1>7 DEF MqttServe, Where, Goto
<1>8. CASE MqttClose /\ History
  BY <1>8 DEF MqttClose, Where, Goto
<1>9. CASE TcpStart /\ History
  BY <1>9 DEF TcpStart, Where, Goto
<1>10. CASE tcp_connect /\ History
  BY <1>10 DEF tcp_connect, Where, Goto
<1>11. CASE TcpServe /\ History
  BY <1>11 DEF TcpServe, Where, Goto
<1>12. CASE tcp_close /\ History
  BY <1>12 DEF tcp_close, Where, Goto
<1>13. ASSUME NEW t \in Pubs \cup {Tcp}, TcpLookup(t), History PROVE Where'
  BY <1>13 DEF TcpLookup, TypeOK, Where, Threads, Goto
<1>14. ASSUME NEW t \in Pubs \cup {Tcp}, TcpSocket(t), History PROVE Where'
  BY <1>14, TakeTakes DEF TcpSocket, TypeOK, Where, Threads, Goto
<1>15. ASSUME NEW t \in Pubs \cup {Tcp}, TcpConnect(t), History PROVE Where'
  BY <1>15 DEF TcpConnect, Where, Goto
<1>16. ASSUME NEW p \in Pubs, mqtt_publish(p), History PROVE Where'
  BY <1>16 DEF mqtt_publish, Where
<1>17. ASSUME NEW p \in Pubs, tcp_publish(p), History PROVE Where'
  BY <1>17 DEF tcp_publish, Where, Goto
<1>18. ASSUME NEW p \in Pubs, SingleshotClose(p), History PROVE Where'
  BY <1>18 DEF SingleshotClose, Where, Goto
<1>19. ASSUME NEW p \in Pubs, SingleshotReturn(p), History PROVE Where'
  BY <1>19 DEF SingleshotReturn, Where, Goto
<1>20. CASE Stop /\ History
  BY <1>20 DEF Stop, Where
<1>21. CASE UaOpen /\ History
  BY <1>21, TakeTakes DEF UaOpen, Where
<1>22. ASSUME NEW f \in Fds, UaClose(f), History PROVE Where'
  BY <1>22 DEF UaClose, Where
<1>23. ASSUME NEW f \in Fds, PeerCloses(f), History PROVE Where'
  BY <1>23 DEF PeerCloses, Where
<1>24. ASSUME NEW t \in {Mqtt, Tcp}, Cancelled(t), History PROVE Where'
  BY <1>24 DEF Cancelled, Where, Goto
<1> QED
  BY <1>1, <1>2, <1>3, <1>4, <1>5, <1>6, <1>7, <1>8, <1>9, <1>10, <1>11,
     <1>12, <1>13, <1>14, <1>15, <1>16, <1>17, <1>18, <1>19, <1>20, <1>21,
     <1>22, <1>23, <1>24 DEF Next, MqttStep, TcpStep, PubStep, OpenStep,
     OtherStep

\* With a lasting connection the TCP thread alone opens sockets, one at a time,
\* and keeps the last in sock.
LEMMA NextLasting ==
    ASSUME TypeOK, Where, Lasting, Next
    PROVE  Lasting'
<1> USE SinksAssumption
<1>1. CASE MqttStart /\ History
  BY <1>1 DEF MqttStart, Goto, History, Lasting, AllIdle, Attempt
<1>2. CASE MqttLookup /\ History
  BY <1>2 DEF MqttLookup, TypeOK, Threads, Goto, History, Lasting, AllIdle, Attempt
<1>3. CASE MqttSocket /\ History
  BY <1>3, TakeTakes DEF MqttSocket, TypeOK, Threads, Goto, History, Lasting, AllIdle, Attempt
<1>4. CASE MqttConnect /\ History
  BY <1>4 DEF MqttConnect, Goto, History, Lasting, AllIdle, Attempt
<1>5. CASE MqttHello /\ History
  BY <1>5 DEF MqttHello, TypeOK, Threads, Goto, History, Lasting, AllIdle, Attempt
<1>6. CASE MqttRetry /\ History
  BY <1>6 DEF MqttRetry, Goto, History, Lasting, AllIdle, Attempt
<1>7. CASE MqttServe /\ History
  BY <1>7 DEF MqttServe, Goto, History, Lasting, AllIdle, Attempt
<1>8. CASE MqttClose /\ History
  BY <1>8 DEF MqttClose, Goto, Close, History, Lasting, AllIdle, Attempt
<1>9. CASE TcpStart /\ History
  BY <1>9 DEF TcpStart, Goto, History, Lasting, AllIdle, Attempt
<1>10. CASE tcp_connect /\ History
  BY <1>10 DEF tcp_connect, Fds, Goto, Returned, History, Lasting, AllIdle, Attempt
<1>11. CASE TcpServe /\ History
  BY <1>11 DEF TcpServe, Goto, History, Lasting, AllIdle, Attempt
<1>12. CASE tcp_close /\ History
  BY <1>12 DEF tcp_close, Goto, Close, History, Lasting, AllIdle, Attempt
<1>13. ASSUME NEW t \in Pubs \cup {Tcp}, TcpLookup(t), History PROVE Lasting'
  BY <1>13 DEF TcpLookup, TypeOK, Threads, Goto, History, Lasting, AllIdle, Attempt
<1>14. ASSUME NEW t \in Pubs \cup {Tcp}, TcpSocket(t), History PROVE Lasting'
  BY <1>14, TakeTakes DEF TcpSocket, TypeOK, Threads, Goto, History, Lasting, AllIdle, Attempt
<1>15. ASSUME NEW t \in Pubs \cup {Tcp}, TcpConnect(t), History PROVE Lasting'
  BY <1>15 DEF TcpConnect, Goto, History, Lasting, AllIdle, Attempt
<1>16. ASSUME NEW p \in Pubs, mqtt_publish(p), History PROVE Lasting'
  BY <1>16 DEF mqtt_publish, History, Lasting, AllIdle, Attempt
<1>17. ASSUME NEW p \in Pubs, tcp_publish(p), History PROVE Lasting'
  BY <1>17 DEF tcp_publish, Goto, History, Lasting, AllIdle, Attempt
<1>18. ASSUME NEW p \in Pubs, SingleshotClose(p), History PROVE Lasting'
  BY <1>18 DEF SingleshotClose, History, Lasting, AllIdle
<1>19. ASSUME NEW p \in Pubs, SingleshotReturn(p), History PROVE Lasting'
  BY <1>19 DEF SingleshotReturn, History, Lasting, AllIdle
<1>20. CASE Stop /\ History
  BY <1>20 DEF Stop, History, Lasting, AllIdle, Attempt
<1>21. CASE UaOpen /\ History
  BY <1>21, TakeTakes DEF UaOpen, TypeOK, History, Lasting, AllIdle, Attempt
<1>22. ASSUME NEW f \in Fds, UaClose(f), History PROVE Lasting'
  BY <1>22 DEF UaClose, Close, History, Lasting, AllIdle, Attempt
<1>23. ASSUME NEW f \in Fds, PeerCloses(f), History PROVE Lasting'
  BY <1>23 DEF PeerCloses, History, Lasting, AllIdle, Attempt
<1>24. ASSUME NEW t \in {Mqtt, Tcp}, Cancelled(t), History PROVE Lasting'
  BY <1>24 DEF Cancelled, Goto, History, Lasting, AllIdle, Attempt
<1> QED
  BY <1>1, <1>2, <1>3, <1>4, <1>5, <1>6, <1>7, <1>8, <1>9, <1>10, <1>11,
     <1>12, <1>13, <1>14, <1>15, <1>16, <1>17, <1>18, <1>19, <1>20, <1>21,
     <1>22, <1>23, <1>24 DEF Next, MqttStep, TcpStep, PubStep, OpenStep,
     OtherStep

\* A number that a sink holds stays its own until the stop, since nobody else
\* closes it.
LEMMA NextHome ==
    ASSUME TypeOK, Where, Lasting, Home, Next
    PROVE  Home'
<1> USE SinksAssumption
<1>1. CASE MqttStart /\ History
  BY <1>1 DEF MqttStart, History, Home
<1>2. CASE MqttLookup /\ History
  BY <1>2 DEF MqttLookup, TypeOK, History, Home
<1>3. CASE MqttSocket /\ History
  BY <1>3, TakeTakes DEF MqttSocket, TypeOK, Where, Threads, Goto, History, Nums, Fds, Lasting, AllIdle, Home
<1>4. CASE MqttConnect /\ History
  BY <1>4 DEF MqttConnect, History, Home
<1>5. CASE MqttHello /\ History
  BY <1>5 DEF MqttHello, TypeOK, Use, History, Fds, Home
<1>6. CASE MqttRetry /\ History
  BY <1>6 DEF MqttRetry, History, Home
<1>7. CASE MqttServe /\ History
  BY <1>7 DEF MqttServe, Home
<1>8. CASE MqttClose /\ History
  BY <1>8 DEF MqttClose, Where, Home
<1>9. CASE TcpStart /\ History
  BY <1>9 DEF TcpStart, History, Home
<1>10. CASE tcp_connect /\ History
  BY <1>10 DEF tcp_connect, TypeOK, Returned, History, Home
<1>11. CASE TcpServe /\ History
  BY <1>11 DEF TcpServe, Home
<1>12. CASE tcp_close /\ History
  BY <1>12 DEF tcp_close, Where, Home
<1>13. ASSUME NEW t \in Pubs \cup {Tcp}, TcpLookup(t), History PROVE Home'
  BY <1>13 DEF TcpLookup, History, Home
<1>14. ASSUME NEW t \in Pubs \cup {Tcp}, TcpSocket(t), History PROVE Home'
  <2>1. CASE Take("tcp") /\ tcpsock' = Lowest
    BY <1>14, <2>1, TakeTakes DEF TcpSocket, TypeOK, Nums, Fds, History, Home
  <2>2. CASE tcpsock' = -1 /\ UNCHANGED fd
    BY <1>14, <2>2 DEF TcpSocket, History, Home
  <2> QED
    BY <1>14, <2>1, <2>2 DEF TcpSocket
<1>15. ASSUME NEW t \in Pubs \cup {Tcp}, TcpConnect(t), History PROVE Home'
  BY <1>15 DEF TcpConnect, History, Home
<1>16. ASSUME NEW p \in Pubs, mqtt_publish(p), History PROVE Home'
  BY <1>16 DEF mqtt_publish, TypeOK, Use, History, Fds, Home
<1>17. ASSUME NEW p \in Pubs, tcp_publish(p), History PROVE Home'
  BY <1>17 DEF tcp_publish, TypeOK, Use, History, Fds, Home
<1>18. ASSUME NEW p \in Pubs, SingleshotClose(p), History PROVE Home'
  BY <1>18 DEF SingleshotClose, History, Lasting, AllIdle, Home
<1>19. ASSUME NEW p \in Pubs, SingleshotReturn(p), History PROVE Home'
  BY <1>19 DEF SingleshotReturn, History, Lasting, AllIdle, Home
<1>20. CASE Stop /\ History
  BY <1>20 DEF Stop, Home
<1>21. CASE UaOpen /\ History
  BY <1>21, TakeTakes DEF UaOpen, TypeOK, History, Nums, Fds, Home
<1>22. ASSUME NEW f \in Fds, UaClose(f), History PROVE Home'
  BY <1>22 DEF UaClose, Close, History, Home
<1>23. ASSUME NEW f \in Fds, PeerCloses(f), History PROVE Home'
  BY <1>23 DEF PeerCloses, History, Home
<1>24. ASSUME NEW t \in {Mqtt, Tcp}, Cancelled(t), History PROVE Home'
  BY <1>24 DEF Cancelled, Home
<1> QED
  BY <1>1, <1>2, <1>3, <1>4, <1>5, <1>6, <1>7, <1>8, <1>9, <1>10, <1>11,
     <1>12, <1>13, <1>14, <1>15, <1>16, <1>17, <1>18, <1>19, <1>20, <1>21,
     <1>22, <1>23, <1>24 DEF Next, MqttStep, TcpStep, PubStep, OpenStep,
     OtherStep

\* Without a clash a singleshot connection takes a number that is not above the
\* one in sock, because that one is free when it asks.
LEMMA NextSingleshot ==
    ASSUME TypeOK, Where, Singleshot, Where', Next
    PROVE  Singleshot'
<1> USE SinksAssumption
<1> DEFINE Kept == (pc[Tcp] # "serve" => AllIdle) /\ PerMessage
<1> SUFFICES ASSUME config.singleshot', ~clash', ~beStop'
             PROVE  Alone' /\ PerMessage'
  BY DEF Singleshot
<1>h. /\ ~beStop /\ ~beStop' /\ Alone /\ PerMessage
      /\ \A t, u \in InTransport' : t = u
      /\ pc[Tcp] # "serve" => AllIdle /\ AllIdle'
      /\ \A f \in Fds : f = sock["tcp"] /\ fd[f] = "free" => fd'[f] \notin {"mqtt", "ua"}
  <2>1. History
    BY DEF Next, MqttStep, TcpStep, PubStep, OtherStep
  <2>2. ~beStop
    BY StopStays
  <2> QED
    BY <2>1, <2>2, Within DEF Singleshot, Alone
<1>k. SUFFICES Kept'
  BY <1>h DEF Alone
<1>1. CASE MqttStart /\ History
  <2>1. Bystander
    BY <1>1, <1>h DEF MqttStart, Bystander, Goto
  <2> QED
    BY <1>h, <2>1, Bystanding DEF Bystander
<1>2. CASE MqttLookup /\ History
  <2>1. Bystander
    BY <1>2, <1>h DEF MqttLookup, Bystander, TypeOK, Threads, Goto
  <2> QED
    BY <1>h, <2>1, Bystanding DEF Bystander
<1>3. CASE MqttSocket /\ History
  <2>1. Bystander
    BY <1>3, <1>h, TakeTakes DEF MqttSocket, Bystander, TypeOK, Threads, Goto
  <2> QED
    BY <1>h, <2>1, Bystanding DEF Bystander
<1>4. CASE MqttConnect /\ History
  <2>1. Bystander
    BY <1>4, <1>h DEF MqttConnect, Bystander, Goto
  <2> QED
    BY <1>h, <2>1, Bystanding DEF Bystander
<1>5. CASE MqttHello /\ History
  <2>1. Bystander
    BY <1>5, <1>h DEF MqttHello, Bystander, TypeOK, Threads, Goto
  <2> QED
    BY <1>h, <2>1, Bystanding DEF Bystander
<1>6. CASE MqttRetry /\ History
  <2>1. Bystander
    BY <1>6, <1>h DEF MqttRetry, Bystander, Goto
  <2> QED
    BY <1>h, <2>1, Bystanding DEF Bystander
<1>7. CASE MqttServe /\ History
  <2>1. Bystander
    BY <1>7, <1>h DEF MqttServe
  <2> QED
    BY <1>h, <2>1, Bystanding DEF Bystander
<1>8. CASE MqttClose /\ History
  BY <1>8, <1>h DEF MqttClose, Where
<1>9. CASE TcpStart /\ History
  <2>1. pc[Tcp] # "serve" /\ pc'[Tcp] \in {"open", "end"} /\ \A f \in Fds : fd'[f] # "tcp"
    BY <1>9, <1>h DEF TcpStart, TypeOK, Threads, Goto, PerMessage, Attempt
  <2> QED
    BY <1>h, <2>1 DEF PerMessage, Attempt
<1>10. CASE tcp_connect /\ History
  <2>1. /\ pc[Tcp] # "serve" /\ sock'["tcp"] = Returned(Tcp)
        /\ \A f \in Fds : fd'[f] = "tcp" => f = tcpsock
    BY <1>10, <1>h DEF tcp_connect, TypeOK, PerMessage, Attempt
  <2>2. CASE Returned(Tcp) >= 0
    <3>1. pc'[Tcp] = "serve" /\ Returned(Tcp) \in Fds
      BY <1>10, <2>2 DEF tcp_connect, TypeOK, Threads, Goto, Returned, Nums, Fds
    <3>2. \A f \in Fds : fd'[f] = "tcp" => f = Returned(Tcp)
      BY <2>1 DEF Returned, Fds
    <3>3. \A f \in Fds : fd'[f] = "tcp" => f <= sock'["tcp"]
      BY <2>1, <3>2 DEF Fds
    <3> QED
      BY <1>h, <2>1, <3>1, <3>3 DEF PerMessage, Attempt, AllIdle
  <2>3. CASE ~(Returned(Tcp) >= 0)
    <3>1. tcpsock = -1 /\ pc'[Tcp] = "open"
      BY <1>10, <1>h, <2>3 DEF tcp_connect, TypeOK, Threads, Goto, Returned, Nums, Fds
    <3> QED
      BY <1>h, <2>1, <3>1 DEF PerMessage, Attempt, Fds
  <2> QED
    BY <2>2, <2>3
<1>11. CASE TcpServe /\ History
  BY <1>11, <1>h DEF TcpServe
<1>12. CASE tcp_close /\ History
  BY <1>12, <1>h DEF tcp_close, Where
<1>13. ASSUME NEW t \in Pubs \cup {Tcp}, TcpLookup(t), History PROVE Kept'
  BY <1>13, <1>h DEF TcpLookup, TypeOK, Threads, Goto, AllIdle, Attempt, PerMessage
<1>14. ASSUME NEW t \in Pubs \cup {Tcp}, TcpSocket(t), History PROVE Kept'
  <2> USE DEF TypeOK, Threads, Goto
  <2>1. CASE t = Tcp
    <3>1. /\ pc[Tcp] # "serve" /\ pc'[Tcp] \in {"connect", "return"}
          /\ \A f \in Fds : fd'[f] = "tcp" => f = tcpsock'
      BY <1>14, <1>h, <2>1, TakeTakes DEF TcpSocket, PerMessage, Attempt
    <3> QED
      BY <1>h, <3>1 DEF PerMessage, Attempt
  <2>2. CASE t \in Pubs
    <3>1. /\ pc[Tcp] = "serve" /\ pc[t] = "socket" /\ sock["tcp"] \in Fds
          /\ fd[sock["tcp"]] = "free" /\ UNCHANGED <<sock, arg>>
      BY <1>14, <1>h, <2>2 DEF TcpSocket, PerMessage, AllIdle
    <3>2. pc'[Tcp] = "serve" /\ \A p \in Pubs : pc'[p] \notin {"drop", "open", "socket"}
      <4>1. \A p \in Pubs : p # t => pc[p] \notin {"drop", "open", "socket"}
        BY <1>h, <2>2, <3>1 DEF Alone, InTransport
      <4> QED
        BY <1>14, <2>2, <3>1, <4>1 DEF TcpSocket
    <3>3. \A f \in Fds : fd'[f] = "tcp" => f <= sock["tcp"]
      BY <1>14, <1>h, <3>1, TakeTakes DEF TcpSocket, PerMessage
    <3> QED
      BY <3>1, <3>2, <3>3 DEF PerMessage, Attempt
  <2> QED
    BY <2>1, <2>2
<1>15. ASSUME NEW t \in Pubs \cup {Tcp}, TcpConnect(t), History PROVE Kept'
  BY <1>15, <1>h DEF TcpConnect, Goto, Attempt, PerMessage
<1>16. ASSUME NEW p \in Pubs, mqtt_publish(p), History PROVE Kept'
  <2>1. Bystander
    BY <1>16, <1>h DEF mqtt_publish, Bystander
  <2> QED
    BY <1>h, <2>1, Bystanding DEF Bystander
<1>17. ASSUME NEW p \in Pubs, tcp_publish(p), History PROVE Kept'
  BY <1>17, <1>h DEF tcp_publish, TypeOK, Goto, Attempt, PerMessage
<1>18. ASSUME NEW p \in Pubs, SingleshotClose(p), History PROVE Kept'
  BY <1>18, <1>h DEF SingleshotClose, TypeOK, Goto, Attempt, PerMessage, Close
<1>19. ASSUME NEW p \in Pubs, SingleshotReturn(p), History PROVE Kept'
  BY <1>19, <1>h DEF SingleshotReturn, Goto, AllIdle, Attempt, PerMessage
<1>20. CASE Stop /\ History
  BY <1>20, <1>h DEF Stop
<1>21. CASE UaOpen /\ History
  <2>1. Bystander
    BY <1>21, <1>h, TakeTakes DEF UaOpen, Bystander, TypeOK
  <2> QED
    BY <1>h, <2>1, Bystanding DEF Bystander
<1>22. ASSUME NEW f \in Fds, UaClose(f), History PROVE Kept'
  <2>1. Bystander
    BY <1>22, <1>h DEF UaClose, Bystander, Close
  <2> QED
    BY <1>h, <2>1, Bystanding DEF Bystander
<1>23. ASSUME NEW f \in Fds, PeerCloses(f), History PROVE Kept'
  <2>1. Bystander
    BY <1>23, <1>h DEF PeerCloses, Bystander
  <2> QED
    BY <1>h, <2>1, Bystanding DEF Bystander
<1>24. ASSUME NEW t \in {Mqtt, Tcp}, Cancelled(t), History PROVE Kept'
  BY <1>24, <1>h DEF Cancelled
<1> QED
  BY <1>1, <1>2, <1>3, <1>4, <1>5, <1>6, <1>7, <1>8, <1>9, <1>10, <1>11,
     <1>12, <1>13, <1>14, <1>15, <1>16, <1>17, <1>18, <1>19, <1>20, <1>21,
     <1>22, <1>23, <1>24 DEF Next, MqttStep, TcpStep, PubStep, OpenStep,
     OtherStep

-----------------------------------------------------------------------------
(* The theorem.                                                            *)

\* The invariant holds at first.
LEMMA InitIInv == Init => IInv
<1> SUFFICES ASSUME Init PROVE IInv
  OBVIOUS
<1>1. TypeOK
  <2>1. 0 \in Fds /\ 0 \in Nums /\ -1 \in Nums
    BY SinksAssumption DEF Fds, Nums
  <2>2. fd \in [Fds -> Owners \cup {"free"}] /\ pc \in [Threads -> Places]
    BY DEF Init, Owners, Places
  <2> QED
    BY <2>1, <2>2 DEF Init, TypeOK
<1>2. Where
  BY SinksAssumption DEF Init, Where, Threads
<1>3. \A f \in Fds : fd[f] # "tcp"
  BY DEF Init
<1>4. AllIdle /\ pc[Tcp] = "start"
  BY SinksAssumption DEF Init, AllIdle, Threads
<1>5. \A t, u \in InTransport : t = u
  BY SinksAssumption, <1>4 DEF InTransport, AllIdle
<1> QED
  BY <1>1, <1>2, <1>3, <1>4, <1>5
  DEF Init, IInv, Lasting, Home, Singleshot, Alone, PerMessage, Attempt

\* Every step keeps it.
LEMMA NextIInv == IInv /\ [Next]_vars => IInv'
<1> SUFFICES ASSUME IInv, [Next]_vars PROVE IInv'
  OBVIOUS
<1>1. CASE Next
  <2>1. TypeOK'
    BY <1>1, NextTypeOK DEF IInv
  <2>2. Where'
    BY <1>1, NextWhere DEF IInv
  <2> QED
    BY <1>1, <2>1, <2>2, NextLasting, NextHome, NextSingleshot DEF IInv
<1>2. CASE UNCHANGED vars
  BY <1>2 DEF vars, IInv, TypeOK, Where, Lasting, Home, Singleshot, Alone, PerMessage,
     AllIdle, Attempt, InTransport
<1> QED
  BY <1>1, <1>2

\* It says that sockets are kept.
LEMMA IInvKeeps == IInv => SocketsKept
<1> SUFFICES ASSUME IInv PROVE SocketsKept
  OBVIOUS
<1>1. TypeOK /\ StaysHome /\ TcpKeepsSocket
  BY DEF IInv, Lasting, Home, StaysHome, TcpKeepsSocket
<1>2. SingleshotLossBounded
  BY SinksAssumption DEF IInv, TypeOK, Where, Singleshot, Alone, PerMessage, Attempt,
     SingleshotLossBounded, Fds, Nums
<1> QED
  BY <1>1, <1>2 DEF SocketsKept

\* The inductive invariant holds in every reachable state.
THEOREM SinksInvariance == Spec => []IInv
<1>1. Init => IInv
  BY InitIInv
<1>2. IInv /\ [Next]_vars => IInv'
  BY NextIInv
<1> QED
  BY <1>1, <1>2, PTL DEF Spec

\* Whatever the number of publishers and descriptors: the sinks of mqtt/client-mqtt.c
\* and client-tcp.c write to and close only descriptors of their own until the
\* stop, a lasting connection never loses a socket, and the singleshot scheme
\* only loses sockets below its old number as long as no threads clash.
THEOREM SinksKeepSockets == Spec => []SocketsKept
  BY SinksInvariance, IInvKeeps, PTL

-----------------------------------------------------------------------------
(* The client of the MQTT library: the answers on their way.               *)

\* The answers that carry the identifier of a call.
Ending == {"suback", "unsuback", "puback", "pubcomp"}
NoAnswer == <<"none", 0>>

\* The answer a packet leads to, on its way to the client or to the broker: its
\* own, or the one at the end of an exchange of several packets.
Leads(p) ==
    IF p.type \in Ending THEN <<p.type, p.id>>
    ELSE IF p.type = "pubrec" THEN <<"pubcomp", p.id>> ELSE NoAnswer
Asks(p) ==
    IF p.type = "subscribe" THEN <<"suback", p.id>>
    ELSE IF p.type = "unsubscribe" THEN <<"unsuback", p.id>>
    ELSE IF p.type = "publish" /\ p.qos = 1 THEN <<"puback", p.id>>
    ELSE IF p.type = "pubrel" \/ (p.type = "publish" /\ p.qos = 2) THEN <<"pubcomp", p.id>>
    ELSE NoAnswer

\* Of the packets c to the client and b to the broker: each answer they lead to was
\* given up or is the one expected, and that one is under way once, whatever the
\* identifiers that have been used again.
Tracked(c, b, given, a) ==
    /\ \A k \in 1..Len(c) : Leads(c[k]) \in given \cup {a, NoAnswer}
    /\ \A k \in 1..Len(b) : Asks(b[k]) \in given \cup {a, NoAnswer}
    /\ a \notin given \cup {NoAnswer} =>
          /\ \A j, k \in 1..Len(c) : Leads(c[j]) = a /\ Leads(c[k]) = a => j = k
          /\ \A j, k \in 1..Len(b) : Asks(b[j]) = a /\ Asks(b[k]) = a => j = k
          /\ \A j \in 1..Len(c) : \A k \in 1..Len(b) : ~(Leads(c[j]) = a /\ Asks(b[k]) = a)

Expected == IF call = NoCall THEN NoAnswer ELSE Answer

\* What a call waits for.
Waited ==
    {<<"connect", "connack">>, <<"subscribe", "suback">>, <<"unsubscribe", "unsuback">>,
     <<"publish", "puback">>, <<"publish", "pubcomp">>}
CallOK ==
    call = NoCall \/ /\ call = [op |-> call.op, want |-> call.want, id |-> call.id,
                                timer |-> call.timer, topic |-> call.topic]
                     /\ <<call.op, call.want>> \in Waited

Topics == Filters \cup Names \cup {<<>>, <<"a">>}
PacketTypes ==
    {"connect", "connack", "subscribe", "suback", "unsubscribe", "unsuback", "publish", "puback",
     "pubrec", "pubrel", "pubcomp", "pingreq", "pingresp"}
PacketSet == [type : PacketTypes, id : Nat, topic : Topics, qos : Nat, n : Nat]
Fields(m) ==
    /\ m = [isconnected |-> m.isconnected, ping_outstanding |-> m.ping_outstanding, next |-> m.next,
            handlers |-> m.handlers, ping_timer |-> m.ping_timer]
    /\ m.next \in Nat

AnswersInv ==
    /\ Fields(mc) /\ CallOK
    /\ toClient \in Seq(PacketSet) /\ toBroker \in Seq(PacketSet) /\ messages \in Nat
    /\ Tracked(toClient, toBroker, owed, Expected)
    /\ AnswerIsOwn

\* A packet after the others.
LEMMA Appended ==
    ASSUME NEW P, NEW s \in Seq(P), NEW p \in P
    PROVE  /\ Append(s, p) \in Seq(P) /\ Len(Append(s, p)) = Len(s) + 1 /\ Len(s) \in Nat
           /\ \A k \in 1..Len(Append(s, p)) : (k \in 1..Len(s) /\ Append(s, p)[k] = s[k]) \/ (k = Len(s) + 1 /\ Append(s, p)[k] = p)
OBVIOUS

\* The packets after the first.
LEMMA Rested ==
    ASSUME NEW P, NEW s \in Seq(P), s # <<>>
    PROVE  /\ Tail(s) \in Seq(P) /\ Head(s) \in P /\ Head(s) = s[1] /\ 1 \in 1..Len(s)
           /\ \A k \in 1..Len(Tail(s)) : k + 1 \in 1..Len(s) /\ k + 1 # 1 /\ Tail(s)[k] = s[k + 1]
           /\ \A j, k \in 1..Len(Tail(s)) : j + 1 = k + 1 => j = k
OBVIOUS

\* A call sends its packet.
LEMMA Sending ==
    ASSUME NEW P, NEW c \in Seq(P), NEW b \in Seq(P), NEW p \in P, NEW given, NEW a,
           Tracked(c, b, given, NoAnswer), Asks(p) \in {a, NoAnswer}
    PROVE  Tracked(c, Append(b, p), given, a)
<1> DEFINE s == Append(b, p)
<1>1. \A k \in 1..Len(s) : (k \in 1..Len(b) /\ s[k] = b[k]) \/ (k = Len(b) + 1 /\ s[k] = p)
  BY Appended
<1> HIDE DEF s
<1>2. /\ \A k \in 1..Len(c) : Leads(c[k]) \in given \cup {NoAnswer}
      /\ \A k \in 1..Len(b) : Asks(b[k]) \in given \cup {NoAnswer}
  BY DEF Tracked
<1> QED
  BY <1>1, <1>2 DEF Tracked, s

\* A packet that leads to nothing.
LEMMA Telling ==
    ASSUME NEW P, NEW c \in Seq(P), NEW b \in Seq(P), NEW p \in P, NEW given, NEW a,
           Tracked(c, b, given, a)
    PROVE  /\ Asks(p) = NoAnswer => Tracked(c, Append(b, p), given, a)
           /\ Leads(p) = NoAnswer => Tracked(Append(c, p), b, given, a)
<1> DEFINE s == Append(b, p)
           t == Append(c, p)
<1>1. \A k \in 1..Len(s) : (k \in 1..Len(b) /\ s[k] = b[k]) \/ (k = Len(b) + 1 /\ s[k] = p)
  BY Appended
<1>2. \A k \in 1..Len(t) : (k \in 1..Len(c) /\ t[k] = c[k]) \/ (k = Len(c) + 1 /\ t[k] = p)
  BY Appended
<1> HIDE DEF s, t
<1>3. ASSUME Asks(p) = NoAnswer PROVE Tracked(c, s, given, a)
  BY <1>1, <1>3 DEF Tracked
<1>4. ASSUME Leads(p) = NoAnswer PROVE Tracked(t, b, given, a)
  BY <1>2, <1>4 DEF Tracked
<1> QED
  BY <1>3, <1>4 DEF s, t

\* The first packet to either side is read.
LEMMA Taking ==
    ASSUME NEW P, NEW c \in Seq(P), NEW b \in Seq(P), NEW given, NEW a, Tracked(c, b, given, a)
    PROVE  /\ c # <<>> => Tracked(Tail(c), b, given, a)
           /\ b # <<>> => Tracked(c, Tail(b), given, a)
<1>1. ASSUME c # <<>> PROVE Tracked(Tail(c), b, given, a)
  <2> DEFINE t == Tail(c)
  <2>1. /\ \A k \in 1..Len(t) : k + 1 \in 1..Len(c) /\ t[k] = c[k + 1]
        /\ \A j, k \in 1..Len(t) : j + 1 = k + 1 => j = k
    BY <1>1, Rested
  <2> HIDE DEF t
  <2> QED
    BY <2>1 DEF Tracked, t
<1>2. ASSUME b # <<>> PROVE Tracked(c, Tail(b), given, a)
  <2> DEFINE t == Tail(b)
  <2>1. /\ \A k \in 1..Len(t) : k + 1 \in 1..Len(b) /\ t[k] = b[k + 1]
        /\ \A j, k \in 1..Len(t) : j + 1 = k + 1 => j = k
    BY <1>2, Rested
  <2> HIDE DEF t
  <2> QED
    BY <2>1 DEF Tracked, t
<1> QED
  BY <1>1, <1>2

\* It is read and a packet that leads to the same goes the other way.
LEMMA Forwarding ==
    ASSUME NEW P, NEW c \in Seq(P), NEW b \in Seq(P), NEW given, NEW a, Tracked(c, b, given, a), NEW p \in P
    PROVE  /\ c # <<>> /\ Asks(p) = Leads(Head(c)) => Tracked(Tail(c), Append(b, p), given, a)
           /\ b # <<>> /\ Leads(p) = Asks(Head(b)) => Tracked(Append(c, p), Tail(b), given, a)
<1>1. ASSUME c # <<>>, Asks(p) = Leads(Head(c)) PROVE Tracked(Tail(c), Append(b, p), given, a)
  <2> DEFINE t == Tail(c)
             s == Append(b, p)
  <2>1. /\ \A k \in 1..Len(t) : k + 1 \in 1..Len(c) /\ k + 1 # 1 /\ t[k] = c[k + 1]
        /\ \A j, k \in 1..Len(t) : j + 1 = k + 1 => j = k
        /\ 1 \in 1..Len(c) /\ Head(c) = c[1]
    BY <1>1, Rested
  <2>2. \A k \in 1..Len(s) : (k \in 1..Len(b) /\ s[k] = b[k]) \/ (k = Len(b) + 1 /\ s[k] = p)
    BY Appended
  <2> HIDE DEF s, t
  <2>3. Asks(p) = Leads(c[1])
    BY <1>1, <2>1
  <2>4. /\ \A k \in 1..Len(t) : Leads(t[k]) \in given \cup {a, NoAnswer}
        /\ \A k \in 1..Len(s) : Asks(s[k]) \in given \cup {a, NoAnswer}
    BY <2>1, <2>2, <2>3 DEF Tracked
  <2>5. ASSUME a \notin given \cup {NoAnswer}
        PROVE  /\ \A j, k \in 1..Len(t) : Leads(t[j]) = a /\ Leads(t[k]) = a => j = k
               /\ \A j, k \in 1..Len(s) : Asks(s[j]) = a /\ Asks(s[k]) = a => j = k
               /\ \A j \in 1..Len(t) : \A k \in 1..Len(s) : ~(Leads(t[j]) = a /\ Asks(s[k]) = a)
    <3>1. \A j, k \in 1..Len(t) : Leads(t[j]) = a /\ Leads(t[k]) = a => j = k
      BY <2>1, <2>5 DEF Tracked
    <3>2. \A j, k \in 1..Len(s) : Asks(s[j]) = a /\ Asks(s[k]) = a => j = k
      BY <2>1, <2>2, <2>3, <2>5 DEF Tracked
    <3>3. ASSUME NEW j \in 1..Len(t), NEW k \in 1..Len(s), Leads(t[j]) = a, Asks(s[k]) = a PROVE FALSE
      <4>1. j + 1 \in 1..Len(c) /\ j + 1 # 1 /\ Leads(c[j + 1]) = a
        BY <2>1, <3>3
      <4>2. CASE k \in 1..Len(b) /\ s[k] = b[k]
        BY <2>5, <3>3, <4>1, <4>2 DEF Tracked
      <4>3. CASE s[k] = p
        BY <2>1, <2>3, <2>5, <3>3, <4>1, <4>3 DEF Tracked
      <4> QED
        BY <2>2, <4>2, <4>3
    <3> QED
      BY <3>1, <3>2, <3>3
  <2> QED
    BY <2>4, <2>5 DEF Tracked, s, t
<1>2. ASSUME b # <<>>, Leads(p) = Asks(Head(b)) PROVE Tracked(Append(c, p), Tail(b), given, a)
  <2> DEFINE t == Tail(b)
             s == Append(c, p)
  <2>1. /\ \A k \in 1..Len(t) : k + 1 \in 1..Len(b) /\ k + 1 # 1 /\ t[k] = b[k + 1]
        /\ \A j, k \in 1..Len(t) : j + 1 = k + 1 => j = k
        /\ 1 \in 1..Len(b) /\ Head(b) = b[1]
    BY <1>2, Rested
  <2>2. \A k \in 1..Len(s) : (k \in 1..Len(c) /\ s[k] = c[k]) \/ (k = Len(c) + 1 /\ s[k] = p)
    BY Appended
  <2> HIDE DEF s, t
  <2>3. Leads(p) = Asks(b[1])
    BY <1>2, <2>1
  <2> QED
    BY <2>1, <2>2, <2>3 DEF Tracked, s, t
<1> QED
  BY <1>1, <1>2

\* The call ends with the answer expected, or gives it up.
LEMMA Concluding ==
    ASSUME NEW P, NEW c \in Seq(P), NEW b \in Seq(P), NEW given, NEW a, Tracked(c, b, given, a)
    PROVE  /\ c # <<>> /\ Leads(Head(c)) = a => Tracked(Tail(c), b, given, NoAnswer)
           /\ a[1] = "connack" => Tracked(c, b, given, NoAnswer)
           /\ Tracked(c, b, given \cup {a}, NoAnswer)
<1>1. ASSUME c # <<>>, Leads(Head(c)) = a PROVE Tracked(Tail(c), b, given, NoAnswer)
  <2> DEFINE t == Tail(c)
  <2>1. /\ \A k \in 1..Len(t) : k + 1 \in 1..Len(c) /\ k + 1 # 1 /\ t[k] = c[k + 1]
        /\ 1 \in 1..Len(c) /\ Head(c) = c[1]
    BY <1>1, Rested
  <2> HIDE DEF t
  <2>2. Leads(c[1]) = a
    BY <1>1, <2>1
  <2>3. CASE a \in given \cup {NoAnswer}
    BY <2>1, <2>3 DEF Tracked, t
  <2>4. CASE a \notin given \cup {NoAnswer}
    <3>1. \A k \in 1..Len(t) : Leads(t[k]) # a
      BY <2>1, <2>2, <2>4 DEF Tracked
    <3>2. \A k \in 1..Len(b) : Asks(b[k]) # a
      BY <2>1, <2>2, <2>4 DEF Tracked
    <3> QED
      BY <2>1, <3>1, <3>2 DEF Tracked, t
  <2> QED
    BY <2>3, <2>4
<1>2. ASSUME a[1] = "connack" PROVE Tracked(c, b, given, NoAnswer)
  <2>1. \A k \in 1..Len(c) : Leads(c[k]) # a
    BY <1>2 DEF Leads, Ending, NoAnswer
  <2>2. \A k \in 1..Len(b) : Asks(b[k]) # a
    BY <1>2 DEF Asks, NoAnswer
  <2> QED
    BY <2>1, <2>2 DEF Tracked
<1>3. Tracked(c, b, given \cup {a}, NoAnswer)
  BY DEF Tracked
<1> QED
  BY <1>1, <1>2, <1>3

LEMMA Packets ==
    ASSUME NEW type \in PacketTypes, NEW id \in Nat
    PROVE  /\ Packet(type, id) \in PacketSet
           /\ Packet(type, id).type = type /\ Packet(type, id).id = id /\ Packet(type, id).qos = 0
BY DEF Packet, PacketSet, Topics

\* What leaves the call, the answers and the client's numbers alone.
LEMMA Aside ==
    ASSUME AnswersInv, UNCHANGED <<call, result, owed>>, Fields(mc'),
           toClient' \in Seq(PacketSet), toBroker' \in Seq(PacketSet), messages' \in Nat,
           Tracked(toClient', toBroker', owed, Expected)
    PROVE  AnswersInv'
BY DEF AnswersInv, CallOK, Expected, Answer, AnswerIsOwn

\* A client with a field set is one.
LEMMA SetFields ==
    ASSUME NEW m, Fields(m), NEW v
    PROVE  /\ Fields([m EXCEPT !.isconnected = v]) /\ Fields([m EXCEPT !.ping_outstanding = v])
           /\ Fields([m EXCEPT !.handlers = v]) /\ Fields([m EXCEPT !.ping_timer = v])
           /\ v \in Nat => Fields([m EXCEPT !.next = IF v = 0 THEN @ ELSE v])
<1> DEFINE R(x1, x2, x3, x4, x5) ==
             [isconnected |-> x1, ping_outstanding |-> x2, next |-> x3, handlers |-> x4, ping_timer |-> x5]
<1>1. \A x1, x2, x3, x4, x5 : x3 \in Nat => Fields(R(x1, x2, x3, x4, x5))
  BY DEF Fields
<1>2. m = R(m.isconnected, m.ping_outstanding, m.next, m.handlers, m.ping_timer) /\ m.next \in Nat
  BY DEF Fields
<1>3. [m EXCEPT !.isconnected = v] = R(v, m.ping_outstanding, m.next, m.handlers, m.ping_timer)
  BY <1>2
<1>4. [m EXCEPT !.ping_outstanding = v] = R(m.isconnected, v, m.next, m.handlers, m.ping_timer)
  BY <1>2
<1>5. [m EXCEPT !.handlers = v] = R(m.isconnected, m.ping_outstanding, m.next, v, m.ping_timer)
  BY <1>2
<1>6. [m EXCEPT !.ping_timer = v] = R(m.isconnected, m.ping_outstanding, m.next, m.handlers, v)
  BY <1>2
<1>7. [m EXCEPT !.next = IF v = 0 THEN @ ELSE v] = R(m.isconnected, m.ping_outstanding, IF v = 0 THEN m.next ELSE v, m.handlers, m.ping_timer)
  BY <1>2
<1> HIDE DEF R
<1> QED
  BY <1>1, <1>2, <1>3, <1>4, <1>5, <1>6, <1>7

LEMMA Calling ==
    ASSUME AnswersInv, NEW op, NEW type \in PacketTypes, NEW want, NEW id \in Nat, NEW topic \in Topics, NEW qos \in Nat,
           <<op, want>> \in Waited \cup {<<"publish", "none">>},
           Begins(op, type, want, id, topic, qos),
           Asks([type |-> type, id |-> id, topic |-> topic, qos |-> qos, n |-> 0])
             \in {NoAnswer} \cup (IF want = "none" THEN {} ELSE {<<want, id>>})
    PROVE  AnswersInv'
<1> DEFINE client == [mc EXCEPT !.next = IF id = 0 THEN @ ELSE id]
           p == [type |-> type, id |-> id, topic |-> topic, qos |-> qos, n |-> 0]
<1>1. call = NoCall /\ UNCHANGED <<toClient, owed, messages>>
  BY DEF Begins
<1>8. [Packet(type, id) EXCEPT !.topic = topic, !.qos = qos] = p
  <2>1. Packet(type, id) = [type |-> type, id |-> id, topic |-> <<>>, qos |-> 0, n |-> 0]
    BY DEF Packet
  <2>2. [Packet(type, id) EXCEPT !.topic = topic] = [type |-> type, id |-> id, topic |-> topic, qos |-> 0, n |-> 0]
    BY <2>1
  <2>3. \A r : r = [type |-> type, id |-> id, topic |-> topic, qos |-> 0, n |-> 0] => [r EXCEPT !.qos = qos] = p
    OBVIOUS
  <2> QED
    BY <2>2, <2>3
<1>2. Expected = NoAnswer /\ Tracked(toClient, toBroker, owed, NoAnswer)
  BY <1>1 DEF Expected, AnswersInv
<1>3. p \in PacketSet
  BY DEF PacketSet
<1>4. Fields(client) /\ Fields([client EXCEPT !.ping_timer = KeepAlive])
  <2>1. Fields(client)
    BY SetFields DEF AnswersInv
  <2> HIDE DEF client
  <2> QED
    BY <2>1, SetFields
<1>5. CASE /\ \/ UNCHANGED <<mc, toBroker>>
              \/ mc' = client /\ UNCHANGED toBroker
           /\ Ends(op, "failure", id, 0, FALSE)
  <2>1. Fields(mc')
    BY <1>4, <1>5 DEF AnswersInv
  <2>2. call' = NoCall /\ result'.rc = "failure" /\ toBroker' = toBroker
    BY <1>5 DEF Ends
  <2>3. Expected' = NoAnswer
    BY <2>2 DEF Expected
  <2> QED
    BY <1>1, <1>2, <2>1, <2>2, <2>3 DEF AnswersInv, CallOK, AnswerIsOwn
<1>6. CASE open /\ toBroker' = Append(toBroker, p) /\ mc' = [client EXCEPT !.ping_timer = KeepAlive]
           /\ want = "none" /\ Ends(op, "success", id, id, FALSE)
  <2>1. Fields(mc')
    BY <1>4, <1>6
  <2>2. call' = NoCall /\ result'.id = result'.answer
    BY <1>6 DEF Ends
  <2>3. Expected' = NoAnswer
    BY <2>2 DEF Expected
  <2>4. Asks(p) = NoAnswer
    BY <1>6
  <2> HIDE DEF p
  <2>5. Tracked(toClient, Append(toBroker, p), owed, NoAnswer) /\ Append(toBroker, p) \in Seq(PacketSet)
    BY <1>2, <1>3, <2>4, Telling, Appended DEF AnswersInv
  <2> QED
    BY <1>1, <1>6, <2>1, <2>2, <2>3, <2>5 DEF AnswersInv, CallOK, AnswerIsOwn
<1>7. CASE open /\ toBroker' = Append(toBroker, p) /\ mc' = [client EXCEPT !.ping_timer = KeepAlive]
           /\ want # "none" /\ UNCHANGED result
           /\ call' = [op |-> op, want |-> want, id |-> id, timer |-> CommandTimeout, topic |-> topic]
  <2>1. Fields(mc')
    BY <1>4, <1>7
  <2>2. <<op, want>> \in Waited
    BY <1>7
  <2>3. CallOK'
    BY <1>7, <2>2 DEF CallOK
  <2>4. Expected' = <<want, id>>
    <3>1. call'.want = want /\ call'.id = id /\ call' # NoCall
      BY <1>7 DEF NoCall
    <3> QED
      BY <3>1 DEF Expected, Answer
  <2>5. Asks(p) \in {<<want, id>>, NoAnswer}
    BY <1>7
  <2> HIDE DEF p
  <2>6. Tracked(toClient, Append(toBroker, p), owed, <<want, id>>) /\ Append(toBroker, p) \in Seq(PacketSet)
    BY <1>2, <1>3, <2>5, Sending, Appended DEF AnswersInv
  <2> QED
    BY <1>1, <1>7, <2>1, <2>3, <2>4, <2>6 DEF AnswersInv, AnswerIsOwn
<1> HIDE DEF p, client
<1> QED
  BY <1>1, <1>5, <1>6, <1>7, <1>8 DEF Begins, sendPacket, client

\* keepalive sends a packet that leads to no answer of a call.
LEMMA Pinging ==
    ASSUME NEW client, Fields(client), NEW c \in Seq(PacketSet), NEW b \in Seq(PacketSet), NEW given, NEW a,
           Tracked(c, b, given, a)
    PROVE  /\ b \o Pings(client).packets \in Seq(PacketSet)
           /\ Tracked(c, b \o Pings(client).packets, given, a)
           /\ Fields(Pings(client).client)
<1> DEFINE q == Packet("pingreq", 0)
           r == Pings(client)
           told == [client EXCEPT !.ping_outstanding = TRUE]
           pinged == [told EXCEPT !.ping_timer = KeepAlive]
<1>1. CASE r = [client |-> pinged, packets |-> <<q>>]
  <2>1. q \in PacketSet /\ Asks(q) = NoAnswer
    <3>1. "pingreq" \in PacketTypes /\ 0 \in Nat
      BY DEF PacketTypes
    <3>2. q \in PacketSet /\ q.type = "pingreq"
      BY <3>1, Packets
    <3> HIDE DEF q
    <3> QED
      BY <3>2 DEF Asks, NoAnswer
  <2>2. Fields(pinged)
    <3>1. Fields(told)
      BY SetFields
    <3> HIDE DEF told
    <3> QED
      BY <3>1, SetFields
  <2> HIDE DEF q, pinged
  <2>3. r.packets = <<q>> /\ r.client = pinged
    BY <1>1
  <2> HIDE DEF r
  <2>4. b \o <<q>> = Append(b, q) /\ Append(b, q) \in Seq(PacketSet)
    BY <2>1
  <2>5. Tracked(c, Append(b, q), given, a)
    BY <2>1, Telling
  <2> QED
    BY <2>2, <2>3, <2>4, <2>5 DEF r
<1>2. CASE r = [client |-> client, packets |-> <<>>]
  <2>1. r.packets = <<>> /\ r.client = client
    BY <1>2
  <2>2. b \o <<>> = b
    OBVIOUS
  <2> QED
    BY <2>1, <2>2
<1>3. [client EXCEPT !.ping_outstanding = TRUE, !.ping_timer = KeepAlive] = pinged
  OBVIOUS
<1> QED
  BY <1>1, <1>2, <1>3 DEF Pings

\* Answers given up before stay so.
LEMMA MoreGiven ==
    ASSUME NEW c, NEW b, NEW given, NEW more, Tracked(c, b, given, NoAnswer)
    PROVE  Tracked(c, b, given \cup more, NoAnswer)
BY DEF Tracked

\* The packet that ends a call: it had the identifier or one given up.
LEMMA Ended ==
    ASSUME AnswersInv, toClient # <<>>, IsAwaited(Head(toClient)),
           NEW given, given = {Answer} \ {<<Head(toClient).type, Head(toClient).id>>}
    PROVE  /\ Tracked(Tail(toClient), toBroker, owed \cup given, NoAnswer)
           /\ Replies(Head(toClient)) = <<>>
           /\ call.op \in {"subscribe", "unsubscribe", "publish"} =>
                Head(toClient).id = call.id \/ <<Head(toClient).type, Head(toClient).id>> \in owed
<1> DEFINE p == Head(toClient)
<1>1. /\ toClient \in Seq(PacketSet) /\ toBroker \in Seq(PacketSet)
      /\ call # NoCall /\ <<call.op, call.want>> \in Waited /\ p.type = call.want
  BY DEF AnswersInv, IsAwaited, CallOK, NoCall
<1>2. Tracked(toClient, toBroker, owed, Answer)
  BY <1>1 DEF AnswersInv, Expected
<1>3. 1 \in 1..Len(toClient) /\ toClient[1] = p
  BY <1>1, Rested
<1>4. Leads(p) \in owed \cup {Answer, NoAnswer}
  BY <1>2, <1>3 DEF Tracked
<1>5. CASE call.want = "connack"
  <2>1. Answer[1] = "connack"
    BY <1>5 DEF Answer
  <2>2. Tracked(toClient, toBroker, owed, NoAnswer)
    BY <1>1, <1>2, <2>1, Concluding
  <2>3. Tracked(Tail(toClient), toBroker, owed, NoAnswer)
    BY <1>1, <2>2, Taking
  <2>4. Replies(p) = <<>>
    BY <1>1, <1>5 DEF Replies
  <2>5. call.op = "connect"
    BY <1>1, <1>5 DEF Waited
  <2> QED
    BY <2>3, <2>4, <2>5, MoreGiven
<1>6. CASE call.want \in Ending
  <2>1. Leads(p) = <<p.type, p.id>> /\ Leads(p) # NoAnswer
    BY <1>1, <1>6 DEF Leads, Ending, NoAnswer
  <2>2. Replies(p) = <<>>
    BY <1>1, <1>6 DEF Replies, Ending
  <2>3. <<p.type, p.id>> \in owed \/ p.id = call.id
    BY <1>4, <2>1 DEF Answer
  <2>4. CASE Leads(p) = Answer
    <3>1. Tracked(Tail(toClient), toBroker, owed, NoAnswer)
      BY <1>1, <1>2, <2>4, Concluding
    <3> QED
      BY <2>2, <2>3, <3>1, MoreGiven
  <2>5. CASE Leads(p) # Answer
    <3>1. given = {Answer}
      BY <2>1, <2>5
    <3>2. Tracked(toClient, toBroker, owed \cup {Answer}, NoAnswer)
      BY <1>1, <1>2, Concluding
    <3>3. Tracked(Tail(toClient), toBroker, owed \cup {Answer}, NoAnswer)
      BY <1>1, <3>2, Taking
    <3> QED
      BY <2>2, <2>3, <3>1, <3>3
  <2> QED
    BY <2>4, <2>5
<1> QED
  BY <1>1, <1>5, <1>6 DEF Waited, Ending

\* Any other packet is answered, or is not.
LEMMA Replying ==
    ASSUME NEW c \in Seq(PacketSet), NEW b \in Seq(PacketSet), NEW given, NEW a, Tracked(c, b, given, a), c # <<>>
    PROVE  /\ b \o Replies(Head(c)) \in Seq(PacketSet)
           /\ Tracked(Tail(c), b \o Replies(Head(c)), given, a)
<1> DEFINE p == Head(c)
<1>1. p \in PacketSet
  BY Rested
<1>2. p.id \in Nat /\ {"puback", "pubrec", "pubrel"} \subseteq PacketTypes
  BY <1>1 DEF PacketSet, PacketTypes
<1>3. Tracked(Tail(c), b, given, a) /\ Tail(c) \in Seq(PacketSet)
  BY Taking, Rested
<1>4. b \o <<>> = b
  OBVIOUS
<1>5. \A q \in PacketSet : b \o <<q>> = Append(b, q) /\ Append(b, q) \in Seq(PacketSet)
  OBVIOUS
<1>6. ASSUME NEW type \in {"puback", "pubrec"}, Replies(p) = <<Packet(type, p.id)>>
      PROVE  b \o Replies(p) \in Seq(PacketSet) /\ Tracked(Tail(c), b \o Replies(p), given, a)
  <2> DEFINE q == Packet(type, p.id)
  <2>1. q \in PacketSet /\ q.type = type
    BY <1>2, Packets
  <2> HIDE DEF q
  <2>2. Asks(q) = NoAnswer
    BY <2>1 DEF Asks
  <2>3. Tracked(Tail(c), Append(b, q), given, a)
    BY <1>3, <2>1, <2>2, Telling
  <2>4. Replies(p) = <<q>>
    BY <1>6 DEF q
  <2> QED
    BY <1>5, <2>1, <2>3, <2>4
<1>7. ASSUME p.type = "pubrec", Replies(p) = <<Packet("pubrel", p.id)>>
      PROVE  b \o Replies(p) \in Seq(PacketSet) /\ Tracked(Tail(c), b \o Replies(p), given, a)
  <2> DEFINE q == Packet("pubrel", p.id)
  <2>1. q \in PacketSet /\ q.type = "pubrel" /\ q.id = p.id
    BY <1>2, Packets
  <2> HIDE DEF q
  <2>2. Asks(q) = Leads(p)
    BY <1>7, <2>1 DEF Asks, Leads, Ending
  <2>3. Tracked(Tail(c), Append(b, q), given, a)
    BY <2>1, <2>2, Forwarding
  <2>4. Replies(p) = <<q>>
    BY <1>7 DEF q
  <2> QED
    BY <1>5, <2>1, <2>3, <2>4
<1>8. ASSUME Replies(p) = <<>>
      PROVE  b \o Replies(p) \in Seq(PacketSet) /\ Tracked(Tail(c), b \o Replies(p), given, a)
  BY <1>3, <1>4, <1>8
<1> HIDE DEF p
<1>9. \/ \E type \in {"puback", "pubrec"} : Replies(p) = <<Packet(type, p.id)>>
      \/ p.type = "pubrec" /\ Replies(p) = <<Packet("pubrel", p.id)>>
      \/ Replies(p) = <<>>
  BY DEF Replies
<1> QED
  BY <1>6, <1>7, <1>8, <1>9 DEF p

LEMMA CycleKeeps ==
    ASSUME AnswersInv, Cycle
    PROVE  AnswersInv'
<1> DEFINE p == Head(toClient)
           replied == IF Replies(p) # <<>> /\ open THEN [Noticed(p) EXCEPT !.ping_timer = KeepAlive] ELSE Noticed(p)
           pinged == Pings(replied)
<1>1. /\ toClient # <<>> /\ toClient' = Tail(toClient)
      /\ toBroker' = IF open THEN toBroker \o Replies(p) \o pinged.packets ELSE toBroker
      /\ mc' = IF IsAwaited(p) THEN Answered(pinged.client, p) ELSE pinged.client
      /\ Awaits(p)
      /\ owed' = owed \cup (IF IsAwaited(p) THEN {Answer} \ {<<p.type, p.id>>} ELSE {})
      /\ UNCHANGED messages
  BY DEF Cycle
<1>2. /\ toClient \in Seq(PacketSet) /\ toBroker \in Seq(PacketSet) /\ messages \in Nat /\ Fields(mc)
      /\ Tracked(toClient, toBroker, owed, Expected)
  BY DEF AnswersInv
<1>3. Fields(replied)
  <2>1. Fields(Noticed(p))
    BY <1>2, SetFields DEF Noticed
  <2> QED
    BY <2>1, SetFields
<1>4. toClient' \in Seq(PacketSet)
  BY <1>1, <1>2, Rested
<1> HIDE DEF p, replied
<1>5. ASSUME NEW b \in Seq(PacketSet), NEW c \in Seq(PacketSet), NEW given, NEW a, Tracked(c, b, given, a)
      PROVE  b \o pinged.packets \in Seq(PacketSet) /\ Tracked(c, b \o pinged.packets, given, a) /\ Fields(pinged.client)
  BY <1>3, <1>5, Pinging
<1> HIDE DEF pinged
<1>6. Fields(pinged.client)
  BY <1>2, <1>5
<1>7. Fields(mc')
  <2>1. Fields(Answered(pinged.client, p))
    BY <1>6, SetFields DEF Answered
  <2> QED
    BY <1>1, <1>6, <2>1
<1>8. CASE IsAwaited(p)
  <2> DEFINE given == {Answer} \ {<<p.type, p.id>>}
  <2>1. owed' = owed \cup given
    BY <1>1, <1>8
  <2>2. /\ Tracked(toClient', toBroker, owed', NoAnswer)
        /\ Replies(p) = <<>>
        /\ call.op \in {"subscribe", "unsubscribe", "publish"} => p.id = call.id \/ <<p.type, p.id>> \in owed
    BY <1>1, <1>8, <2>1, Ended DEF p
  <2> HIDE DEF given
  <2>3. toBroker \o Replies(p) = toBroker
    BY <1>2, <2>2
  <2>4. toBroker' \in Seq(PacketSet) /\ Tracked(toClient', toBroker', owed', NoAnswer)
    BY <1>1, <1>2, <1>4, <1>5, <2>2, <2>3
  <2>5. /\ call' = NoCall
        /\ result' = [op |-> call.op, rc |-> IF p.qos \in {0, 1, 2} THEN "success" ELSE "failure", id |-> call.id,
                      answer |-> p.id, late |-> p.type = call.want /\ <<p.type, p.id>> \in owed]
    BY <1>1, <1>8 DEF Awaits, Ends
  <2>6. p.type = call.want
    BY <1>8 DEF IsAwaited
  <2>7. AnswerIsOwn'
    BY <2>2, <2>5, <2>6 DEF AnswerIsOwn
  <2>8. Expected' = NoAnswer
    BY <2>5 DEF Expected
  <2> QED
    BY <1>1, <1>2, <1>4, <1>7, <2>4, <2>5, <2>7, <2>8 DEF AnswersInv, CallOK
<1>9. CASE ~IsAwaited(p)
  <2>1. UNCHANGED <<call, result, owed>>
    BY <1>1, <1>9 DEF Awaits
  <2>2. toBroker \o Replies(p) \in Seq(PacketSet) /\ Tracked(toClient', toBroker \o Replies(p), owed, Expected)
    BY <1>1, <1>2, Replying DEF p
  <2>3. Tracked(toClient', toBroker, owed, Expected)
    BY <1>1, <1>2, Taking
  <2>4. toBroker' \in Seq(PacketSet) /\ Tracked(toClient', toBroker', owed, Expected)
    BY <1>1, <1>2, <1>4, <1>5, <2>2, <2>3
  <2> QED
    BY <1>1, <1>2, <1>4, <1>7, <2>1, <2>4, Aside
<1> QED
  BY <1>8, <1>9

LEMMA CycleEmptyKeeps ==
    ASSUME AnswersInv, CycleEmpty
    PROVE  AnswersInv'
<1> DEFINE aged == [mc EXCEPT !.ping_timer = IF @ > 0 THEN @ - 1 ELSE 0]
           pinged == Pings(aged)
<1>1. /\ mc' = pinged.client /\ toBroker' = toBroker \o pinged.packets /\ UNCHANGED <<toClient, messages>>
      /\ \/ UNCHANGED <<call, result, owed>>
         \/ call # NoCall /\ call' = [call EXCEPT !.timer = @ - 1] /\ UNCHANGED <<result, owed>>
         \/ call # NoCall /\ Ends(call.op, "failure", call.id, 0, FALSE) /\ owed' = owed \cup {Answer}
  BY DEF CycleEmpty
<1>2. /\ toClient \in Seq(PacketSet) /\ toBroker \in Seq(PacketSet) /\ messages \in Nat /\ Fields(mc)
      /\ Tracked(toClient, toBroker, owed, Expected)
  BY DEF AnswersInv
<1>3. Fields(aged)
  <2> DEFINE v == IF mc.ping_timer > 0 THEN mc.ping_timer - 1 ELSE 0
  <2>1. aged = [mc EXCEPT !.ping_timer = v]
    OBVIOUS
  <2> HIDE DEF v, aged
  <2> QED
    BY <1>2, <2>1, SetFields
<1> HIDE DEF aged
<1>4. ASSUME NEW given, NEW a, Tracked(toClient, toBroker, given, a)
      PROVE  toBroker' \in Seq(PacketSet) /\ Tracked(toClient', toBroker', given, a) /\ Fields(mc')
  BY <1>1, <1>2, <1>3, <1>4, Pinging
<1> HIDE DEF pinged
<1>5. CASE UNCHANGED <<call, result, owed>>
  BY <1>1, <1>2, <1>4, <1>5, Aside
<1>6. CASE call # NoCall /\ call' = [call EXCEPT !.timer = @ - 1] /\ UNCHANGED <<result, owed>>
  <2>1. /\ call = [op |-> call.op, want |-> call.want, id |-> call.id, timer |-> call.timer, topic |-> call.topic]
        /\ <<call.op, call.want>> \in Waited
    BY <1>6 DEF AnswersInv, CallOK
  <2>2. call' = [op |-> call.op, want |-> call.want, id |-> call.id, timer |-> call.timer - 1, topic |-> call.topic]
    BY <1>6, <2>1
  <2>3. call'.op = call.op /\ call'.want = call.want /\ call'.id = call.id /\ call'.topic = call.topic /\ call'.timer = call.timer - 1
    BY <2>2
  <2>4. call.want # "none"
    BY <2>1 DEF Waited
  <2>5. call' # NoCall
    BY <2>3, <2>4 DEF NoCall
  <2>6. CallOK' /\ Expected' = Expected
    BY <1>6, <2>1, <2>2, <2>3, <2>5 DEF CallOK, Expected, Answer
  <2> QED
    BY <1>1, <1>2, <1>4, <1>6, <2>6 DEF AnswersInv, AnswerIsOwn
<1>7. CASE call # NoCall /\ Ends(call.op, "failure", call.id, 0, FALSE) /\ owed' = owed \cup {Answer}
  <2>1. Tracked(toClient, toBroker, owed', NoAnswer)
    BY <1>2, <1>7, Concluding DEF Expected
  <2>2. call' = NoCall /\ result'.rc = "failure"
    BY <1>7 DEF Ends
  <2>3. Expected' = NoAnswer
    BY <2>2 DEF Expected
  <2> QED
    BY <1>1, <1>2, <1>4, <2>1, <2>2, <2>3 DEF AnswersInv, CallOK, AnswerIsOwn
<1> QED
  BY <1>1, <1>5, <1>6, <1>7

LEMMA NextIds == ASSUME AnswersInv PROVE getNextPacketId \in Nat
<1>1. mc.next \in Nat
  BY DEF AnswersInv, Fields
<1> QED
  BY <1>1 DEF getNextPacketId

LEMMA CallsKeep ==
    ASSUME AnswersInv
    PROVE  /\ MQTTConnect => AnswersInv'
           /\ \A f \in Filters : MQTTSubscribe(f) \/ MQTTUnsubscribe(f) => AnswersInv'
           /\ \A qos \in 0..2 : MQTTPublish(qos) => AnswersInv'
<1>1. ASSUME MQTTConnect PROVE AnswersInv'
  <2>1. "connect" \in PacketTypes /\ <<"connect", "connack">> \in Waited /\ <<>> \in Topics /\ 0 \in Nat
    BY DEF PacketTypes, Waited, Topics
  <2>2. Asks([type |-> "connect", id |-> 0, topic |-> <<>>, qos |-> 0, n |-> 0]) = NoAnswer
    BY DEF Asks
  <2>3. Begins("connect", "connect", "connack", 0, <<>>, 0)
    BY <1>1 DEF MQTTConnect
  <2> QED
    BY <2>1, <2>2, <2>3, Calling
<1>2. ASSUME NEW f \in Filters, MQTTSubscribe(f) PROVE AnswersInv'
  <2> DEFINE id == getNextPacketId
  <2>1. Begins("subscribe", "subscribe", "suback", id, f, 0)
    BY <1>2 DEF MQTTSubscribe
  <2>2. id \in Nat
    BY NextIds
  <2> HIDE DEF id
  <2>3. "subscribe" \in PacketTypes /\ <<"subscribe", "suback">> \in Waited /\ f \in Topics /\ 0 \in Nat
    BY DEF PacketTypes, Waited, Topics
  <2>4. Asks([type |-> "subscribe", id |-> id, topic |-> f, qos |-> 0, n |-> 0]) = <<"suback", id>>
    BY DEF Asks
  <2> QED
    BY <2>1, <2>2, <2>3, <2>4, Calling
<1>3. ASSUME NEW f \in Filters, MQTTUnsubscribe(f) PROVE AnswersInv'
  <2> DEFINE id == getNextPacketId
  <2>1. Begins("unsubscribe", "unsubscribe", "unsuback", id, f, 0)
    BY <1>3 DEF MQTTUnsubscribe
  <2>2. id \in Nat
    BY NextIds
  <2> HIDE DEF id
  <2>3. "unsubscribe" \in PacketTypes /\ <<"unsubscribe", "unsuback">> \in Waited /\ f \in Topics /\ 0 \in Nat
    BY DEF PacketTypes, Waited, Topics
  <2>4. Asks([type |-> "unsubscribe", id |-> id, topic |-> f, qos |-> 0, n |-> 0]) = <<"unsuback", id>>
    BY DEF Asks
  <2> QED
    BY <2>1, <2>2, <2>3, <2>4, Calling
<1>4. ASSUME NEW qos \in 0..2, MQTTPublish(qos) PROVE AnswersInv'
  <2> DEFINE id == IF qos = 0 THEN 0 ELSE getNextPacketId
             want == <<"none", "puback", "pubcomp">>[qos + 1]
  <2>1. Begins("publish", "publish", want, id, <<"a">>, qos)
    BY <1>4 DEF MQTTPublish
  <2>2. id \in Nat
    BY NextIds
  <2>3. /\ qos = 0 => want = "none"
        /\ qos = 1 => want = "puback"
        /\ qos = 2 => want = "pubcomp"
    OBVIOUS
  <2> HIDE DEF id, want
  <2>4. qos \in Nat /\ (qos = 0 \/ qos = 1 \/ qos = 2)
    OBVIOUS
  <2>5. "publish" \in PacketTypes /\ <<"a">> \in Topics
    BY DEF PacketTypes, Topics
  <2>6. <<"publish", want>> \in Waited \cup {<<"publish", "none">>}
    BY <2>3, <2>4 DEF Waited
  <2>7. Asks([type |-> "publish", id |-> id, topic |-> <<"a">>, qos |-> qos, n |-> 0])
          \in {NoAnswer} \cup (IF want = "none" THEN {} ELSE {<<want, id>>})
    BY <2>3, <2>4 DEF Asks
  <2> QED
    BY <2>1, <2>2, <2>4, <2>5, <2>6, <2>7, Calling
<1> QED
  BY <1>1, <1>2, <1>3, <1>4

LEMMA BrokerReadsKeeps ==
    ASSUME AnswersInv, NEW refuse, BrokerReads(refuse)
    PROVE  AnswersInv'
<1> DEFINE p == Head(toBroker)
           answers == BrokerAnswer(p, refuse)
<1>1. /\ toBroker # <<>> /\ toBroker' = Tail(toBroker) /\ toClient' = toClient \o answers
      /\ UNCHANGED <<mc, call, result, owed, messages>>
  BY DEF BrokerReads
<1>2. /\ toClient \in Seq(PacketSet) /\ toBroker \in Seq(PacketSet) /\ messages \in Nat /\ Fields(mc)
      /\ Tracked(toClient, toBroker, owed, Expected)
  BY DEF AnswersInv
<1>3. p \in PacketSet /\ toBroker' \in Seq(PacketSet)
  BY <1>1, <1>2, Rested
<1>4. p.id \in Nat
  BY <1>3 DEF PacketSet
<1>5. {"connack", "suback", "unsuback", "puback", "pubrec", "pubcomp", "pingresp"} \subseteq PacketTypes
  BY DEF PacketTypes
<1> HIDE DEF p
<1>6. CASE answers = <<>>
  <2>1. toClient' = toClient
    BY <1>1, <1>2, <1>6
  <2>2. Tracked(toClient', toBroker', owed, Expected)
    BY <1>1, <1>2, <2>1, Taking
  <2> QED
    BY <1>1, <1>2, <1>3, <2>1, <2>2, Aside
<1>7. ASSUME NEW q \in PacketSet, answers = <<q>>, Leads(q) = Asks(p) PROVE AnswersInv'
  <2>1. toClient' = Append(toClient, q) /\ toClient' \in Seq(PacketSet)
    BY <1>1, <1>2, <1>7
  <2>2. Tracked(toClient', toBroker', owed, Expected)
    BY <1>1, <1>2, <1>7, <2>1, Forwarding DEF p
  <2> QED
    BY <1>1, <1>2, <1>3, <2>1, <2>2, Aside
<1>8. ASSUME NEW type \in PacketTypes, NEW id \in Nat, NEW code \in Nat
      PROVE  /\ [Packet(type, id) EXCEPT !.qos = code] \in PacketSet
             /\ Leads([Packet(type, id) EXCEPT !.qos = code]) = Leads(Packet(type, id))
  <2>1. Packet(type, id) = [type |-> type, id |-> id, topic |-> <<>>, qos |-> 0, n |-> 0] /\ <<>> \in Topics
    BY DEF Packet, Topics
  <2>2. [Packet(type, id) EXCEPT !.qos = code] = [type |-> type, id |-> id, topic |-> <<>>, qos |-> code, n |-> 0]
    BY <2>1
  <2> QED
    BY <2>1, <2>2 DEF PacketSet, Leads
<1>9. ASSUME NEW type \in PacketTypes, NEW id \in Nat
      PROVE  /\ Packet(type, id) \in PacketSet
             /\ Leads(Packet(type, id)) = IF type \in Ending THEN <<type, id>> ELSE IF type = "pubrec" THEN <<"pubcomp", id>> ELSE NoAnswer
  BY Packets DEF Leads
<1>10. CASE p.type = "connect"
  <2> DEFINE code == IF refuse THEN 5 ELSE 0
             q == [Packet("connack", 0) EXCEPT !.qos = code]
  <2>1. answers = <<q>>
    BY <1>10 DEF BrokerAnswer
  <2>2. code \in Nat
    OBVIOUS
  <2> HIDE DEF code
  <2>3. q \in PacketSet /\ Leads(q) = NoAnswer
    BY <1>5, <1>8, <1>9, <2>2 DEF Ending
  <2>4. Asks(p) = NoAnswer
    BY <1>10 DEF Asks
  <2> HIDE DEF q, answers
  <2> QED
    BY <1>7, <2>1, <2>3, <2>4
<1>11. CASE p.type = "subscribe"
  <2> DEFINE code == IF refuse THEN 128 ELSE 0
             q == [Packet("suback", p.id) EXCEPT !.qos = code]
  <2>1. answers = <<q>>
    BY <1>11 DEF BrokerAnswer
  <2>2. code \in Nat
    OBVIOUS
  <2> HIDE DEF code
  <2>3. q \in PacketSet /\ Leads(q) = <<"suback", p.id>>
    BY <1>4, <1>5, <1>8, <1>9, <2>2 DEF Ending
  <2>4. Asks(p) = <<"suback", p.id>>
    BY <1>11 DEF Asks
  <2> HIDE DEF q, answers
  <2> QED
    BY <1>7, <2>1, <2>3, <2>4
<1>12. ASSUME NEW type \in {"unsuback", "puback", "pubrec", "pubcomp", "pingresp"}, NEW id \in Nat, answers = <<Packet(type, id)>>,
              Asks(p) = IF type = "pingresp" THEN NoAnswer ELSE IF type = "pubrec" THEN <<"pubcomp", id>> ELSE <<type, id>>
       PROVE  AnswersInv'
  <2>1. Packet(type, id) \in PacketSet /\ Leads(Packet(type, id)) = Asks(p)
    BY <1>5, <1>9, <1>12 DEF Ending
  <2> HIDE DEF answers
  <2> QED
    BY <1>7, <1>12, <2>1
<1>13. CASE p.type = "unsubscribe"
  <2>1. answers = <<Packet("unsuback", p.id)>> /\ Asks(p) = <<"unsuback", p.id>>
    BY <1>13 DEF BrokerAnswer, Asks
  <2> HIDE DEF answers
  <2> QED
    BY <1>4, <1>12, <2>1
<1>14. CASE p.type = "publish" /\ p.qos = 1
  <2>1. answers = <<Packet("puback", p.id)>> /\ Asks(p) = <<"puback", p.id>>
    BY <1>14 DEF BrokerAnswer, Asks
  <2> HIDE DEF answers
  <2> QED
    BY <1>4, <1>12, <2>1
<1>15. CASE p.type = "publish" /\ p.qos = 2
  <2>1. answers = <<Packet("pubrec", p.id)>> /\ Asks(p) = <<"pubcomp", p.id>>
    BY <1>15 DEF BrokerAnswer, Asks
  <2> HIDE DEF answers
  <2> QED
    BY <1>4, <1>12, <2>1
<1>16. CASE p.type = "pubrel"
  <2>1. answers = <<Packet("pubcomp", p.id)>> /\ Asks(p) = <<"pubcomp", p.id>>
    BY <1>16 DEF BrokerAnswer, Asks
  <2> HIDE DEF answers
  <2> QED
    BY <1>4, <1>12, <2>1
<1>17. CASE p.type = "pingreq"
  <2>1. answers = <<Packet("pingresp", 0)>> /\ Asks(p) = NoAnswer
    BY <1>17 DEF BrokerAnswer, Asks
  <2> HIDE DEF answers
  <2> QED
    BY <1>12, <2>1
<1> QED
  BY <1>6, <1>10, <1>11, <1>13, <1>14, <1>15, <1>16, <1>17 DEF BrokerAnswer

LEMMA BrokerPublishesKeeps ==
    ASSUME AnswersInv, NEW topic \in Names, NEW qos \in 0..2, BrokerPublishes(topic, qos)
    PROVE  AnswersInv'
<1> DEFINE q == [type |-> "publish", id |-> IF qos = 0 THEN 0 ELSE 1, topic |-> topic, qos |-> qos, n |-> messages + 1]
<1>1. /\ toClient' = Append(toClient, q) /\ messages' = messages + 1
      /\ UNCHANGED <<mc, call, toBroker, result, owed>>
  BY DEF BrokerPublishes
<1>2. /\ toClient \in Seq(PacketSet) /\ toBroker \in Seq(PacketSet) /\ messages \in Nat /\ Fields(mc)
      /\ Tracked(toClient, toBroker, owed, Expected)
  BY DEF AnswersInv
<1>3. q \in PacketSet /\ Leads(q) = NoAnswer
  <2>1. "publish" \in PacketTypes /\ topic \in Topics /\ messages + 1 \in Nat
    BY <1>2 DEF PacketTypes, Topics
  <2> QED
    BY <2>1 DEF PacketSet, Leads, Ending
<1> HIDE DEF q
<1>4. toClient' \in Seq(PacketSet) /\ Tracked(toClient', toBroker, owed, Expected)
  BY <1>1, <1>2, <1>3, Telling, Appended
<1> QED
  BY <1>1, <1>2, <1>4, Aside

LEMMA ConnectionKeeps ==
    ASSUME AnswersInv
    PROVE  /\ NetworkConnect => AnswersInv'
           /\ Lost => AnswersInv'
           /\ MQTTDisconnect => AnswersInv'
           /\ UNCHANGED mqttVars => AnswersInv'
<1>1. ASSUME NetworkConnect PROVE AnswersInv'
  <2>1. /\ call = NoCall /\ toBroker' = <<>> /\ toClient' = <<>> /\ owed' = {}
        /\ UNCHANGED <<mc, call, result, messages>>
    BY <1>1 DEF NetworkConnect
  <2>2. Tracked(<<>>, <<>>, {}, NoAnswer) /\ <<>> \in Seq(PacketSet)
    BY DEF Tracked
  <2> QED
    BY <2>1, <2>2 DEF AnswersInv, CallOK, Expected, AnswerIsOwn
<1>2. ASSUME UNCHANGED <<mc, call, toBroker, toClient, result, owed, messages>> PROVE AnswersInv'
  BY <1>2, Aside DEF AnswersInv
<1>3. ASSUME MQTTDisconnect PROVE AnswersInv'
  <2>1. /\ call = NoCall /\ call' = NoCall /\ result'.op = "disconnect" /\ mc' = [mc EXCEPT !.isconnected = FALSE]
        /\ UNCHANGED <<toBroker, toClient, owed, messages>>
    BY <1>3 DEF MQTTDisconnect, Ends
  <2>2. Fields(mc')
    BY <2>1, SetFields DEF AnswersInv
  <2> QED
    BY <2>1, <2>2 DEF AnswersInv, CallOK, Expected, AnswerIsOwn
<1> QED
  BY <1>1, <1>2, <1>3 DEF Lost, mqttVars

LEMMA AnswersBegin == ASSUME MqttInit PROVE AnswersInv
<1>1. /\ toBroker = <<>> /\ toClient = <<>> /\ owed = {} /\ call = NoCall /\ result.rc = "none" /\ messages = 0
  BY DEF MqttInit
<1>2. Fields(mc)
  BY DEF MqttInit, Fields
<1>3. Tracked(<<>>, <<>>, {}, NoAnswer) /\ <<>> \in Seq(PacketSet)
  BY DEF Tracked
<1> QED
  BY <1>1, <1>2, <1>3 DEF AnswersInv, CallOK, Expected, AnswerIsOwn

\* In every state the answers under way are of calls that gave up, but for those of
\* the call that waits, of which there is one at most.
THEOREM AnswersInvariance == MqttSpec => []AnswersInv
<1>1. MqttInit => AnswersInv
  BY AnswersBegin
<1>2. AnswersInv /\ [MqttNext]_mqttVars => AnswersInv'
  <2> SUFFICES ASSUME AnswersInv, [MqttNext]_mqttVars PROVE AnswersInv'
    OBVIOUS
  <2>1. ASSUME NEW refuse \in BOOLEAN, BrokerReads(refuse) PROVE AnswersInv'
    BY <2>1, BrokerReadsKeeps
  <2>2. ASSUME NEW topic \in Names, NEW qos \in 0..2, BrokerPublishes(topic, qos) PROVE AnswersInv'
    BY <2>2, BrokerPublishesKeeps
  <2> QED
    BY <2>1, <2>2, CallsKeep, CycleKeeps, CycleEmptyKeeps, ConnectionKeeps DEF MqttNext
<1> QED
  BY <1>1, <1>2, PTL DEF MqttSpec

\* MQTTSubscribe, MQTTUnsubscribe and MQTTPublish succeed with the broker's answer to
\* them or with one to a call of the kind that gave up, though waitfor compares no
\* identifiers.
THEOREM AnswersStayOwn == MqttSpec => []AnswerIsOwn
<1>1. AnswersInv => AnswerIsOwn
  BY DEF AnswersInv
<1> QED
  BY <1>1, AnswersInvariance, PTL
=============================================================================

-------------------------- MODULE ClientOps_proofs --------------------------
(***************************************************************************)
(* What the calls of the client API do to the client, whatever the network *)
(* answers: lemmas about the operators of ClientOps, for any number of     *)
(* descriptors.  ClientSide_proofs and Bridge_proofs rest on them.         *)
(***************************************************************************)
EXTENDS ClientOps, Numbers_proofs

-----------------------------------------------------------------------------
(* What every call leaves true.                                            *)

\* The client owns its descriptor: it is a socket the process has open, unless
\* the connection is closed.
Whole(c) ==
    ~c.lookup =>
        /\ ~c.stale /\ 0 \in c.open /\ c.fd # 0
        /\ c.conn # "CLOSED" => c.fd \in c.open

\* The client has not been connected: descriptor 0 is standard input, and the
\* renewal that is due keeps every service call away from it.
Unused(c) ==
    ~c.lookup =>
        /\ ~c.stale /\ 0 \in c.open /\ c.fd = 0
        /\ c.conn = "OPENING" /\ c.due

\* The invariant of a client between two calls.
Sound(c) == c \in Clients /\ (Whole(c) \/ Unused(c))

\* What a call on c that does not reset the client makes of it.
Kept(c, d) ==
    /\ d \in Clients
    /\ d.auth = c.auth /\ d.subs = c.subs
    /\ c.conn = "CLOSED" => d.conn = "CLOSED"
    /\ Whole(c) => Whole(d)

-----------------------------------------------------------------------------
(* The TCP connection.                                                     *)

\* Closing a socket that is the client's own.
LEMMA Closing ==
  ASSUME NEW c \in Clients
  PROVE  Kept(c, socket_close(c)) /\ socket_close(c).conn = "CLOSED"
  BY DEF Clients, ConnStates, Kept, Whole, socket_close

\* The same for ClientNetworkLayerClose, which closes once.
LEMMA ClosingOnce ==
  ASSUME NEW c \in Clients
  PROVE  Kept(c, ClientNetworkLayerClose(c))
  BY Closing DEF Kept, ClientNetworkLayerClose

\* A buffer is given only for a connection that is not closed.
LEMMA GetBuffer ==
  ASSUME NEW c, NEW x \in ClientNetworkLayerGetBuffer(c)
  PROVE  x.c = c /\ (x.r = "GOOD" => c.conn # "CLOSED")
  BY DEF ClientNetworkLayerGetBuffer, Res

\* A write on a connection that is not closed goes to the client's socket.
LEMMA Writing ==
  ASSUME NEW c \in Clients, c.conn # "CLOSED", NEW x \in socket_write(c)
  PROVE  /\ Kept(c, x.c)
         /\ x.r = "GOOD" => x.c.conn = c.conn
<1> DEFINE d == [c EXCEPT !.stale = @ \/ c.fd \notin c.open]
<1>1. d \in Clients /\ Kept(c, d) /\ d.conn = c.conn
  BY DEF Clients, Kept, Whole
<1>2. x = Res(socket_close(d), "BADCONNECTIONCLOSED") \/ x = Res(d, "GOOD")
  BY DEF socket_write
<1> HIDE DEF d
<1>3. CASE x = Res(socket_close(d), "BADCONNECTIONCLOSED")
  BY <1>1, <1>3, Closing DEF Kept, Res
<1>4. CASE x = Res(d, "GOOD")
  BY <1>1, <1>4 DEF Res
<1> QED
  BY <1>2, <1>3, <1>4

\* Something is received only from an open socket, and changes nothing.
LEMMA Receiving ==
  ASSUME NEW c \in Clients, NEW x \in UA_Connection_receiveChunksBlocking(c)
  PROVE  /\ Kept(c, x.c)
         /\ x.r = "GOOD" => x.c = c /\ IsSocket(c)
<1>1. \/ x = Res(socket_close(c), "BADCONNECTIONCLOSED")
      \/ x = Res(c, "TIMEOUT")
      \/ x = Res(c, "GOOD") /\ IsSocket(c)
  BY DEF UA_Connection_receiveChunksBlocking
<1>2. Kept(c, c)
  BY DEF Kept
<1> QED
  BY <1>1, <1>2, Closing DEF Res

\* A new connection has the lowest free descriptor, or none.
LEMMA OpeningTyped ==
  ASSUME NEW c \in Clients, NEW o \in UA_ClientConnectionTCP(c)
  PROVE  /\ o \in Clients /\ o.auth = c.auth /\ o.subs = c.subs
         /\ \/ o.lookup
            \/ /\ o.fd \notin c.open /\ o.stale = c.stale /\ o.lookup = c.lookup
               /\ \/ o.conn = "CLOSED" /\ o.open = c.open
                  \/ o.conn = "OPENING" /\ o.open = c.open \cup {o.fd}
<1> DEFINE free == Fds \ c.open
           f == CHOOSE n \in free : \A m \in free : n <= m
           none == [c EXCEPT !.conn = "OPENING", !.fd = 0, !.lookup = TRUE]
<1>1. CASE o = none
  <2>1. 0 \in Fds
    BY MaxFdAssumption DEF Fds
  <2> QED
    BY <1>1, <2>1 DEF Clients, ConnStates
<1>2. CASE free # {} /\ o \in {[c EXCEPT !.conn = "CLOSED", !.fd = f],
                               [c EXCEPT !.conn = "OPENING", !.fd = f, !.open = @ \cup {f}]}
  <2>1. f \in free
    <3>1. free \subseteq 0 .. MaxFd
      BY DEF Fds
    <3> HIDE DEF free
    <3> QED
      BY <1>2, <3>1, MaxFdAssumption, LeastNumber
  <2> HIDE DEF f
  <2>2. f \in Fds /\ f \notin c.open
    BY <2>1
  <2>3. CASE o = [c EXCEPT !.conn = "CLOSED", !.fd = f]
    BY <2>2, <2>3 DEF Clients, ConnStates
  <2>4. CASE o = [c EXCEPT !.conn = "OPENING", !.fd = f, !.open = @ \cup {f}]
    BY <2>2, <2>4 DEF Clients, ConnStates
  <2> QED
    BY <1>2, <2>3, <2>4
<1> QED
  BY <1>1, <1>2 DEF UA_ClientConnectionTCP

\* A new connection of a client that is between two calls is closed, or has an
\* open socket that is not standard input.
LEMMA Opening ==
  ASSUME NEW c, Sound(c), NEW o \in UA_ClientConnectionTCP(c)
  PROVE  Sound(o) /\ Whole(o)
  BY OpeningTyped DEF Sound, Whole, Unused

-----------------------------------------------------------------------------
(* Handshakes and services.                                                *)

\* What follows a call follows the call and what is called after it.
LEMMA KeptTwice ==
  ASSUME NEW c, NEW d, NEW e, Kept(c, d), Kept(d, e)
  PROVE  Kept(c, e)
  BY DEF Kept

\* An exchange needs a connection that is not closed, and is good only if there
\* is a socket to receive the answer from.
LEMMA Exchanging ==
  ASSUME NEW c \in Clients, NEW x \in Exchange(c)
  PROVE  /\ Kept(c, x.c)
         /\ x.r = "GOOD" => x.c.conn = c.conn /\ c.conn # "CLOSED" /\ IsSocket(x.c)
<1>1. \/ x \in ClientNetworkLayerGetBuffer(c) /\ x.r # "GOOD"
      \/ \E y \in ClientNetworkLayerGetBuffer(c) :
            /\ y.r = "GOOD"
            /\ \/ x \in socket_write(y.c) /\ x.r # "GOOD"
               \/ \E z \in socket_write(y.c) :
                     z.r = "GOOD" /\ x \in UA_Connection_receiveChunksBlocking(z.c)
  BY DEF Exchange, OnGood
<1>2. CASE x \in ClientNetworkLayerGetBuffer(c) /\ x.r # "GOOD"
  BY <1>2, GetBuffer DEF Kept
<1>3. CASE c.conn # "CLOSED" /\ x \in socket_write(c) /\ x.r # "GOOD"
  BY <1>3, Writing
<1>4. ASSUME c.conn # "CLOSED",
             NEW z \in socket_write(c), z.r = "GOOD",
             x \in UA_Connection_receiveChunksBlocking(z.c)
      PROVE  /\ Kept(c, x.c)
             /\ x.r = "GOOD" => x.c.conn = c.conn /\ c.conn # "CLOSED" /\ IsSocket(x.c)
  <2>1. Kept(c, z.c) /\ z.c.conn = c.conn /\ z.c \in Clients
    BY <1>4, Writing DEF Kept
  <2> QED
    BY <1>4, <2>1, Receiving, KeptTwice
<1> QED
  BY <1>1, <1>2, <1>3, <1>4, GetBuffer

\* A good HEL/ACK handshake leaves an established connection.
LEMMA HelAck ==
  ASSUME NEW c \in Clients, NEW x \in HelAckHandshake(c)
  PROVE  Kept(c, x.c)
<1>1. \/ x \in Exchange(c) /\ x.r # "GOOD"
      \/ \E y \in Exchange(c) :
            y.r = "GOOD" /\ x.c \in {y.c, [y.c EXCEPT !.conn = "ESTABLISHED"]}
  BY DEF HelAckHandshake, OnGood, Res
<1>2. ASSUME NEW y \in Exchange(c), y.r = "GOOD",
             x.c \in {y.c, [y.c EXCEPT !.conn = "ESTABLISHED"]}
      PROVE  Kept(c, x.c)
  <2>1. Kept(c, y.c) /\ y.c.conn = c.conn /\ c.conn # "CLOSED"
    BY <1>2, Exchanging
  <2> QED
    BY <1>2, <2>1 DEF Kept, Whole, Clients, ConnStates
<1> QED
  BY <1>1, <1>2, Exchanging

\* Opening or renewing the channel.  It is good without an exchange only if no
\* renewal is due, which is not so before the first connection.
LEMMA Handshake ==
  ASSUME NEW c \in Clients, NEW renew \in BOOLEAN, NEW x \in SecureChannelHandshake(c, renew)
  PROVE  /\ Kept(c, x.c)
         /\ Sound(c) => Sound(x.c)
         /\ x.r = "GOOD" /\ Sound(c) => Whole(x.c)
         /\ x.r = "GOOD" => x.c.conn = c.conn
         /\ x.r = "GOOD" /\ ~renew => IsSocket(x.c)
<1>1. CASE renew /\ ~c.due
  <2>1. x = Res(c, "GOOD")
    BY <1>1 DEF SecureChannelHandshake
  <2> QED
    BY <1>1, <2>1 DEF Res, Kept, Sound, Whole, Unused
<1>2. CASE ~(renew /\ ~c.due) /\ c.conn # "ESTABLISHED"
  <2>1. x = Res(c, "BADSERVERNOTCONNECTED")
    BY <1>2 DEF SecureChannelHandshake
  <2> QED
    BY <2>1 DEF Res, Kept
<1>3. CASE ~(renew /\ ~c.due) /\ c.conn = "ESTABLISHED"
  <2>1. \/ x \in Exchange(c) /\ x.r # "GOOD"
        \/ \E y \in Exchange(c) : y.r = "GOOD" /\ x.c \in {y.c, [y.c EXCEPT !.due = FALSE]}
    BY <1>3 DEF SecureChannelHandshake, OnGood, Res
  <2>2. Kept(c, x.c) /\ (x.r = "GOOD" => x.c.conn = c.conn /\ IsSocket(x.c))
    <3>1. ASSUME NEW y \in Exchange(c), y.r = "GOOD", x.c \in {y.c, [y.c EXCEPT !.due = FALSE]}
          PROVE  Kept(c, x.c) /\ x.c.conn = c.conn /\ IsSocket(x.c)
      <4>1. Kept(c, y.c) /\ y.c.conn = c.conn /\ IsSocket(y.c)
        BY <3>1, Exchanging
      <4> QED
        BY <3>1, <4>1 DEF Kept, Whole, Clients, IsSocket
    <3> QED
      BY <2>1, <3>1, Exchanging
  <2>3. Sound(c) => Whole(c)
    BY <1>3 DEF Sound, Whole, Unused
  <2> QED
    BY <2>2, <2>3 DEF Sound, Kept
<1> QED
  BY <1>1, <1>2, <1>3

\* A successful renewal, or one that is not due, makes the client CONNECTED.
LEMMA Renewing ==
  ASSUME NEW c \in Clients, NEW x \in UA_Client_manuallyRenewSecureChannel(c)
  PROVE  /\ Kept(c, x.c)
         /\ Sound(c) => Sound(x.c)
         /\ x.r = "GOOD" /\ Sound(c) => Whole(x.c)
         /\ x.r = "GOOD" => x.c.conn = c.conn
<1>1. \/ x \in SecureChannelHandshake(c, TRUE) /\ x.r # "GOOD"
      \/ \E y \in SecureChannelHandshake(c, TRUE) :
            y.r = "GOOD" /\ x = Res([y.c EXCEPT !.state = "CONNECTED"], "GOOD")
  BY DEF UA_Client_manuallyRenewSecureChannel, OnGood
<1>2. ASSUME NEW y \in SecureChannelHandshake(c, TRUE), y.r = "GOOD",
             x = Res([y.c EXCEPT !.state = "CONNECTED"], "GOOD")
      PROVE  /\ Kept(c, x.c) /\ x.c.conn = c.conn
             /\ Sound(c) => Sound(x.c) /\ Whole(x.c)
  <2>1. /\ Kept(c, y.c) /\ y.c.conn = c.conn
        /\ Sound(c) => Whole(y.c)
    BY <1>2, Handshake
  <2> QED
    BY <1>2, <2>1 DEF Res, Kept, Sound, Whole, Clients, ClientStates
<1> QED
  BY <1>1, <1>2, Handshake

\* A message is sent only on a connection that is not closed; whether it could
\* be written is not told.
LEMMA Sending ==
  ASSUME NEW c \in Clients, NEW x \in UA_SecureChannel_sendBinaryMessage(c)
  PROVE  /\ Kept(c, x.c)
         /\ x.r = "GOOD" => c.conn # "CLOSED"
<1>1. \/ x \in ClientNetworkLayerGetBuffer(c) /\ x.r # "GOOD"
      \/ \E d \in {y.c : y \in {z \in ClientNetworkLayerGetBuffer(c) : z.r = "GOOD"}} :
            x.c = d \/ \E y \in socket_write(d) : x.c = y.c
  BY DEF UA_SecureChannel_sendBinaryMessage, OnGood, Res
<1>2. Kept(c, c)
  BY DEF Kept
<1> QED
  BY <1>1, <1>2, GetBuffer, Writing

\* A service call keeps to a socket of the client's own; it is never good on a
\* closed connection, and good only if the answer came from an open socket.
LEMMA Serving ==
  ASSUME NEW c \in Clients, NEW x \in UA_Client_Service(c)
  PROVE  /\ Kept(c, x.c)
         /\ Sound(c) => Sound(x.c)
         /\ x.r = "GOOD" => IsSocket(x.c) /\ c.conn # "CLOSED"
<1>1. PICK y \in UA_Client_manuallyRenewSecureChannel(c) :
         \/ y.r # "GOOD" /\ x = Res([y.c EXCEPT !.state = "ERRORED"], y.r)
         \/ /\ y.r = "GOOD"
            /\ \E z \in UA_SecureChannel_sendBinaryMessage(y.c) :
                  \/ z.r # "GOOD" /\ x = Res([z.c EXCEPT !.state = "FAULTED"], z.r)
                  \/ /\ z.r = "GOOD"
                     /\ \E w \in UA_Connection_receiveChunksBlocking(z.c) :
                           (x = w /\ w.r # "GOOD") \/ (w.r = "GOOD" /\ x.c = w.c)
  BY DEF UA_Client_Service, OnGood, processServiceResponse, Res
<1>2. /\ Kept(c, y.c) /\ y.c \in Clients
      /\ Sound(c) => Sound(y.c)
      /\ y.r = "GOOD" /\ Sound(c) => Whole(y.c)
      /\ y.r = "GOOD" => y.c.conn = c.conn
  BY Renewing DEF Kept
<1>3. CASE y.r # "GOOD" /\ x = Res([y.c EXCEPT !.state = "ERRORED"], y.r)
  BY <1>2, <1>3 DEF Res, Kept, Sound, Whole, Unused, Clients, ClientStates
<1>4. ASSUME y.r = "GOOD", NEW z \in UA_SecureChannel_sendBinaryMessage(y.c),
             z.r # "GOOD", x = Res([z.c EXCEPT !.state = "FAULTED"], z.r)
      PROVE  Kept(y.c, x.c) /\ x.r # "GOOD"
  <2>1. Kept(y.c, z.c)
    BY <1>2, Sending
  <2> QED
    BY <1>4, <2>1 DEF Res, Kept, Whole, Clients, ClientStates
<1>5. ASSUME y.r = "GOOD", NEW z \in UA_SecureChannel_sendBinaryMessage(y.c), z.r = "GOOD",
             NEW w \in UA_Connection_receiveChunksBlocking(z.c),
             (x = w /\ w.r # "GOOD") \/ (w.r = "GOOD" /\ x.c = w.c)
      PROVE  Kept(y.c, x.c) /\ (x.r = "GOOD" => IsSocket(x.c) /\ y.c.conn # "CLOSED")
  <2>1. Kept(y.c, z.c) /\ z.c \in Clients /\ y.c.conn # "CLOSED"
    BY <1>2, <1>5, Sending DEF Kept
  <2>2. Kept(z.c, w.c) /\ (w.r = "GOOD" => w.c = z.c /\ IsSocket(z.c))
    BY <2>1, Receiving
  <2> QED
    BY <1>5, <2>1, <2>2, KeptTwice
<1>6. CASE y.r = "GOOD"
  <2>1. Kept(y.c, x.c) /\ (x.r = "GOOD" => IsSocket(x.c) /\ y.c.conn # "CLOSED")
    BY <1>1, <1>4, <1>5, <1>6
  <2>2. Kept(c, x.c)
    BY <1>2, <2>1, KeptTwice
  <2> QED
    BY <1>2, <1>6, <2>1, <2>2 DEF Sound, Kept
<1> QED
  BY <1>1, <1>3, <1>6

\* The two handshakes that are service calls.
LEMMA Endpoints ==
  ASSUME NEW c \in Clients, NEW x \in EndpointsHandshake(c)
  PROVE  /\ Kept(c, x.c)
         /\ Sound(c) => Sound(x.c)
         /\ x.r = "GOOD" => IsSocket(x.c)
<1>1. PICK y \in UA_Client_Service(c) :
         x.c = y.c /\ (x.r = "GOOD" => y.r = "GOOD")
  BY DEF EndpointsHandshake, OnGood, Res
<1> QED
  BY <1>1, Serving

\* CreateSession and ActivateSession.
LEMMA Session ==
  ASSUME NEW c \in Clients, NEW x \in SessionHandshake(c)
  PROVE  /\ x.c \in Clients /\ x.c.subs = c.subs
         /\ c.conn = "CLOSED" => x.c.conn = "CLOSED"
         /\ Whole(c) => Whole(x.c)
         /\ Sound(c) => Sound(x.c)
         /\ x.r = "GOOD" => IsSocket(x.c) /\ x.c.auth
<1>1. PICK y \in UA_Client_Service(c) : x = Res([y.c EXCEPT !.auth = y.r = "GOOD"], y.r)
  BY DEF SessionHandshake
<1>2. /\ Kept(c, y.c)
      /\ Sound(c) => Sound(y.c)
      /\ y.r = "GOOD" => IsSocket(y.c)
  BY Serving
<1> QED
  BY <1>1, <1>2 DEF Res, Kept, Sound, Whole, Unused, Clients, IsSocket

\* The end of the channel: a message without an answer, and the socket closed.
LEMMA ClosingChannel ==
  ASSUME NEW c \in Clients, NEW x \in CloseSecureChannel(c)
  PROVE  Kept(c, x.c)
<1>1. \/ x \in ClientNetworkLayerGetBuffer(c) /\ x.r # "GOOD"
      \/ \E d \in {y.c : y \in {z \in ClientNetworkLayerGetBuffer(c) : z.r = "GOOD"}} :
            \E y \in socket_write(d) : x.c = ClientNetworkLayerClose(y.c)
  BY DEF CloseSecureChannel, OnGood, Res
<1>2. ASSUME c.conn # "CLOSED", NEW y \in socket_write(c), x.c = ClientNetworkLayerClose(y.c)
      PROVE  Kept(c, x.c)
  <2>1. Kept(c, y.c) /\ y.c \in Clients
    BY <1>2, Writing DEF Kept
  <2> QED
    BY <1>2, <2>1, ClosingOnce, KeptTwice
<1>3. Kept(c, c)
  BY DEF Kept
<1> QED
  BY <1>1, <1>2, <1>3, GetBuffer

-----------------------------------------------------------------------------
(* The API.                                                                *)

\* A disconnect uses the client's own socket, if it uses one at all.
LEMMA Disconnecting ==
  ASSUME NEW c \in Clients, NEW x \in UA_Client_disconnect(c)
  PROVE  Kept(c, x.c) /\ (Sound(c) => Sound(x.c))
<1>1. Kept(c, c)
  BY DEF Kept
<1>2. CASE c.state = "READY"
  <2>1. x.c = c
    BY <1>2 DEF UA_Client_disconnect, Res
  <2> QED
    BY <1>1, <2>1
<1>3. CASE c.state # "READY"
  <2> DEFINE S == IF c.conn = "ESTABLISHED" /\ c.auth THEN UA_Client_Service(c)
                                                      ELSE {Res(c, "GOOD")}
  <2>1. PICK y \in S : \/ /\ y.c.conn = "ESTABLISHED"
                          /\ \E z \in CloseSecureChannel(y.c) : x = Res(z.c, Or(y.r, z.r))
                       \/ y.c.conn # "ESTABLISHED" /\ x = y
    BY <1>3 DEF UA_Client_disconnect
  <2>2. Kept(c, y.c) /\ y.c \in Clients /\ (Sound(c) => Sound(y.c))
    BY <1>1, Serving DEF Kept, Res
  <2> HIDE DEF S
  <2>3. ASSUME y.c.conn = "ESTABLISHED",
               NEW z \in CloseSecureChannel(y.c), x = Res(z.c, Or(y.r, z.r))
        PROVE  Kept(c, x.c) /\ (Sound(c) => Sound(x.c))
    <3>1. Kept(y.c, x.c)
      BY <2>2, <2>3, ClosingChannel DEF Res
    <3>2. Sound(y.c) => Whole(y.c)
      BY <2>3 DEF Sound, Whole, Unused
    <3>3. Sound(c) => Sound(x.c)
      BY <2>2, <3>1, <3>2 DEF Sound, Kept
    <3> QED
      BY <2>2, <3>1, <3>3, KeptTwice
  <2> QED
    BY <2>1, <2>2, <2>3
<1> QED
  BY <1>2, <1>3

\* A client made new is unused.
LEMMA Initializing ==
  ASSUME NEW c \in Clients
  PROVE  /\ UA_Client_init(c) \in Clients
         /\ ~UA_Client_init(c).auth /\ ~UA_Client_init(c).subs
         /\ Sound(c) => Sound(UA_Client_init(c))
<1>1. 0 \in Fds
  BY MaxFdAssumption DEF Fds
<1>2. /\ UA_Client_init(c) \in Clients
      /\ ~UA_Client_init(c).auth /\ ~UA_Client_init(c).subs
  BY <1>1 DEF UA_Client_init, Clients, ClientStates, ConnStates
<1>3. Sound(c) => Unused(UA_Client_init(c))
  BY DEF UA_Client_init, Clients, Sound, Whole, Unused
<1> QED
  BY <1>2, <1>3 DEF Sound

\* A reset gives an unused client back, whose descriptor is left to the process.
LEMMA Resetting ==
  ASSUME NEW c \in Clients, NEW d \in UA_Client_reset(c)
  PROVE  d \in Clients /\ ~d.auth /\ ~d.subs /\ (Sound(c) => Sound(d))
<1>1. PICK x \in UA_Client_disconnect(c) : d = UA_Client_init(x.c)
  BY DEF UA_Client_reset, UA_Client_deleteMembers
<1>2. x.c \in Clients /\ (Sound(c) => Sound(x.c))
  BY Disconnecting DEF Kept
<1> QED
  BY <1>1, <1>2, Initializing

\* The handshakes of a connect on a connection that has just been opened.  Good
\* is only what ends with an answer received from an open socket, and a connect
\* with a session ends with its token.
LEMMA ConnectingFresh ==
  ASSUME NEW c \in Clients, NEW ends \in BOOLEAN, NEW sess \in BOOLEAN,
         NEW x \in connectFresh(c, ends, sess), Sound(c), Whole(c)
  PROVE  /\ x.c \in Clients /\ Whole(x.c)
         /\ x.r = "GOOD" => IsSocket(x.c)
         /\ x.r = "GOOD" /\ ends /\ sess => x.c.auth
<1> DEFINE Good(y) == /\ y.c \in Clients /\ Whole(y.c)
                      /\ y.r = "GOOD" => IsSocket(y.c)
           Result(y) == Good(y) /\ (y.r = "GOOD" /\ ends /\ sess => y.c.auth)
           AtServer(d) == IF ~sess THEN {Res(d, "GOOD")}
                          ELSE OnGood(SessionHandshake(d), UA_Client_Service)
           OnChannel(d) == IF ~ends THEN {Res(d, "GOOD")}
                           ELSE OnGood(EndpointsHandshake(d), AtServer)
           OnConnection(d) == OnGood(SecureChannelHandshake(d, FALSE), OnChannel)
<1>1. CASE c.conn # "OPENING"
  <2>1. x = Res(c, "BADCONNECTIONCLOSED")
    BY <1>1 DEF connectFresh
  <2> QED
    BY <2>1 DEF Res
<1>2. CASE c.conn = "OPENING"
  <2>1. x \in OnGood(HelAckHandshake(c), OnConnection)
    BY <1>2 DEF connectFresh, OnGood
  <2>2. ASSUME NEW d \in Clients, Whole(d), d.auth, NEW y \in UA_Client_Service(d)
        PROVE  Result(y)
    BY <2>2, Serving DEF Kept
  <2>3. ASSUME NEW d \in Clients, Whole(d), IsSocket(d), NEW y \in AtServer(d)
        PROVE  Result(y)
    <3>1. ASSUME NEW z \in SessionHandshake(d)
          PROVE  Good(z) /\ (z.r = "GOOD" => z.c.auth)
      BY <2>3, Session
    <3> QED
      BY <2>2, <2>3, <3>1 DEF OnGood, Res
  <2> HIDE DEF AtServer
  <2>4. ASSUME NEW d \in Clients, Whole(d), IsSocket(d), NEW y \in OnChannel(d)
        PROVE  Result(y)
    <3>1. ASSUME NEW z \in EndpointsHandshake(d)
          PROVE  Good(z)
      BY <2>4, Endpoints DEF Kept
    <3> QED
      BY <2>3, <2>4, <3>1 DEF OnGood, Res
  <2> HIDE DEF OnChannel
  <2>5. ASSUME NEW d \in Clients, Whole(d), NEW y \in OnConnection(d)
        PROVE  Result(y)
    <3>1. ASSUME NEW z \in SecureChannelHandshake(d, FALSE)
          PROVE  Good(z)
      BY <2>5, Handshake DEF Kept
    <3> QED
      BY <2>4, <2>5, <3>1 DEF OnGood
  <2> HIDE DEF OnConnection
  <2>6. ASSUME NEW z \in HelAckHandshake(c)
        PROVE  z.c \in Clients /\ Whole(z.c)
    BY HelAck DEF Kept
  <2> QED
    BY <2>1, <2>5, <2>6 DEF OnGood
<1> QED
  BY <1>1, <1>2

\* A connect that is good on a client that was not CONNECTED leaves an open
\* socket, and a session if it was asked for one.
LEMMA Connecting ==
  ASSUME NEW c, Sound(c), NEW ends \in BOOLEAN, NEW sess \in BOOLEAN,
         NEW x \in UA_Client_connect0(c, ends, sess)
  PROVE  /\ Sound(x.c)
         /\ x.r = "GOOD" /\ c.state # "CONNECTED" =>
               IsSocket(x.c) /\ (ends /\ sess => x.c.auth)
<1>1. CASE c.state = "CONNECTED"
  BY <1>1 DEF UA_Client_connect0, Res
<1>2. CASE c.state # "CONNECTED"
  <2> DEFINE B == IF c.state = "ERRORED" THEN UA_Client_reset(c) ELSE {c}
             O == UNION {UA_ClientConnectionTCP(b) : b \in B}
             Y == UNION {connectFresh(o, ends, sess) : o \in O}
             End(y) == IF y.r = "GOOD"
                       THEN {Res([y.c EXCEPT !.conn = "ESTABLISHED", !.state = "CONNECTED"],
                                 "GOOD")}
                       ELSE {Res(d, y.r) : d \in UA_Client_reset(y.c)}
  <2>1. PICK y \in Y : x \in End(y)
    <3>1. x \in UNION {UNION {End(y) : y \in UNION {connectFresh(o, ends, sess) :
                                                    o \in UA_ClientConnectionTCP(b)}} : b \in B}
      BY <1>2 DEF UA_Client_connect0
    <3> HIDE DEF B, End
    <3> QED
      BY <3>1
  <2>2. \A b \in B : Sound(b)
    BY Resetting DEF Sound
  <2> HIDE DEF B
  <2>3. \A o \in O : Sound(o) /\ Whole(o) /\ o \in Clients
    BY <2>2, Opening DEF Sound
  <2> HIDE DEF O
  <2>4. /\ y.c \in Clients /\ Whole(y.c)
        /\ y.r = "GOOD" => IsSocket(y.c)
        /\ y.r = "GOOD" /\ ends /\ sess => y.c.auth
    BY <2>3, ConnectingFresh
  <2>5. CASE y.r = "GOOD"
    <3>1. x = Res([y.c EXCEPT !.conn = "ESTABLISHED", !.state = "CONNECTED"], "GOOD")
      BY <2>1, <2>5
    <3>2. /\ x.c \in Clients
          /\ x.c.fd = y.c.fd /\ x.c.open = y.c.open /\ x.c.tty = y.c.tty
          /\ x.c.auth = y.c.auth /\ x.c.lookup = y.c.lookup /\ x.c.stale = y.c.stale
      BY <2>4, <3>1 DEF Res, Clients, ClientStates, ConnStates
    <3> QED
      BY <2>4, <2>5, <3>2 DEF Sound, Whole, IsSocket
  <2>6. CASE y.r # "GOOD"
    <3>1. PICK d \in UA_Client_reset(y.c) : x = Res(d, y.r)
      BY <2>1, <2>6
    <3> QED
      BY <2>4, <2>6, <3>1, Resetting DEF Res, Sound
  <2> QED
    BY <2>5, <2>6
<1> QED
  BY <1>1, <1>2

\* GetEndpoints connects, asks, and leaves an unused client.
LEMMA Asking ==
  ASSUME NEW c, Sound(c), NEW sameUrl \in BOOLEAN,
         NEW x \in UA_Client_getEndpoints(c, sameUrl)
  PROVE  Sound(x.c)
<1> DEFINE S == OnGood(UA_Client_connect0(c, FALSE, FALSE), UA_Client_Service)
           Shut(y) == UNION {UA_Client_reset(d.c) : d \in UA_Client_disconnect(y.c)}
<1>1. CASE c.state = "CONNECTED" /\ ~sameUrl
  BY <1>1 DEF UA_Client_getEndpoints, Res
<1>2. CASE ~(c.state = "CONNECTED" /\ ~sameUrl)
  <2>1. PICK y \in S : \E e \in Shut(y) : x = Res(e, y.r)
    <3>1. x \in UNION {{Res(e, y.r) : e \in Shut(y)} : y \in S}
      BY <1>2 DEF UA_Client_getEndpoints, OnGood
    <3> HIDE DEF S, Shut
    <3> QED
      BY <3>1
  <2>2. Sound(y.c) /\ y.c \in Clients
    <3>1. \A z \in UA_Client_connect0(c, FALSE, FALSE) : Sound(z.c) /\ z.c \in Clients
      BY Connecting DEF Sound
    <3>2. \/ y \in UA_Client_connect0(c, FALSE, FALSE)
          \/ \E z \in UA_Client_connect0(c, FALSE, FALSE) : y \in UA_Client_Service(z.c)
      BY DEF OnGood
    <3> QED
      BY <3>1, <3>2, Serving DEF Sound
  <2> HIDE DEF S
  <2>3. \A e \in Shut(y) : Sound(e)
    BY <2>2, Disconnecting, Resetting DEF Kept
  <2> HIDE DEF Shut
  <2> QED
    BY <2>1, <2>3 DEF Res
<1> QED
  BY <1>1, <1>2

\* A subscription is one more service call and an entry in the list.
LEMMA Subscribing ==
  ASSUME NEW c \in Clients, NEW x \in UA_Client_Subscriptions_new(c)
  PROVE  x.c \in Clients /\ (Sound(c) => Sound(x.c))
<1>1. PICK y \in UA_Client_Service(c) : x.c \in {y.c, [y.c EXCEPT !.subs = TRUE]}
  BY DEF UA_Client_Subscriptions_new, OnGood, Res
<1>2. y.c \in Clients /\ (Sound(c) => Sound(y.c))
  BY Serving DEF Kept
<1>3. /\ [y.c EXCEPT !.subs = TRUE] \in Clients
      /\ Sound(c) => Sound([y.c EXCEPT !.subs = TRUE])
  BY <1>2 DEF Sound, Whole, Unused, Clients
<1> QED
  BY <1>1, <1>2, <1>3

\* So is a publish, unless the client is in error.
LEMMA Publishing ==
  ASSUME NEW c \in Clients, NEW x \in UA_Client_Subscriptions_manuallySendPublishRequest(c)
  PROVE  Kept(c, x.c) /\ (Sound(c) => Sound(x.c))
<1> DEFINE aged(d) == [d EXCEPT !.due = TRUE]
           More(d) == UA_Client_Service(d) \cup UA_Client_Service(aged(d))
<1>1. \/ x.c = c
      \/ \E y \in UA_Client_Service(c) : x.c = y.c
      \/ \E y \in UA_Client_Service(c) : \E z \in More(y.c) : x.c = z.c
  BY DEF UA_Client_Subscriptions_manuallySendPublishRequest, OnGood, Res
<1>2. Kept(c, c)
  BY DEF Kept
<1>3. ASSUME NEW d \in Clients PROVE Kept(d, aged(d)) /\ (Sound(d) => Sound(aged(d)))
  BY DEF Kept, Sound, Clients, Whole, Unused
<1>4. ASSUME NEW d \in Clients, NEW z \in More(d) PROVE Kept(d, z.c) /\ (Sound(d) => Sound(z.c))
  <2>1. CASE z \in UA_Client_Service(d)
    BY <2>1, Serving
  <2>2. CASE z \in UA_Client_Service(aged(d))
    <3>1. Kept(d, aged(d)) /\ (Sound(d) => Sound(aged(d))) /\ aged(d) \in Clients
      BY <1>3 DEF Kept
    <3> HIDE DEF aged
    <3>2. Kept(aged(d), z.c) /\ (Sound(aged(d)) => Sound(z.c))
      BY <2>2, <3>1, Serving
    <3> QED
      BY <3>1, <3>2, KeptTwice
  <2> QED
    BY <1>4, <2>1, <2>2
<1> HIDE DEF More
<1>5. ASSUME NEW y \in UA_Client_Service(c), NEW z \in More(y.c) PROVE Kept(c, z.c) /\ (Sound(c) => Sound(z.c))
  <2>1. Kept(c, y.c) /\ (Sound(c) => Sound(y.c)) /\ y.c \in Clients
    BY Serving DEF Kept
  <2>2. Kept(y.c, z.c) /\ (Sound(y.c) => Sound(z.c))
    BY <1>4, <2>1
  <2> QED
    BY <2>1, <2>2, KeptTwice
<1> QED
  BY <1>1, <1>2, <1>5, Serving
=============================================================================

----------------------------- MODULE ClientOps -----------------------------
(***************************************************************************)
(* The OPC UA client API of src/open62541_mqtt/src/client/ua_client.c over *)
(* the TCP connection of plugins/ua_network_tcp.c, as operators.  A client *)
(* is a record, and a call is an operator that maps the client it is given *)
(* to the set of its possible outcomes, [c |-> client, r |-> status]:      *)
(* every answer, refusal, loss and delay the network can produce is one    *)
(* outcome.  The operators nest the way the C functions call each other.   *)
(*                                                                         *)
(* Fields of a client:                                                     *)
(*   state   client->state                                                 *)
(*   conn    client->connection.state                                      *)
(*   fd      client->connection.sockfd                                     *)
(*   auth    client->authenticationToken is not null                       *)
(*   due     client->nextChannelRenewal lies in the past                   *)
(*   subs    client->subscriptions is not empty                            *)
(* and of the process around it:                                           *)
(*   open    the open descriptors; tty: descriptor 0 is standard input     *)
(*   lookup  some address lookup or socket() call has failed               *)
(*   stale   something was written to a descriptor that was not open       *)
(***************************************************************************)
EXTENDS Naturals, FiniteSets

CONSTANT MaxFd      \* descriptors are 0 .. MaxFd, 0 being standard input

ASSUME MaxFdAssumption == MaxFd \in Nat

Fds == 0 .. MaxFd

ClientStates == {"READY", "CONNECTED", "FAULTED", "ERRORED"}
ConnStates == {"OPENING", "ESTABLISHED", "CLOSED"}

Clients == [state : ClientStates, conn : ConnStates, fd : Fds, auth : BOOLEAN,
            due : BOOLEAN, subs : BOOLEAN, open : SUBSET Fds, tty : BOOLEAN,
            lookup : BOOLEAN, stale : BOOLEAN]

Res(c, r) == [c |-> c, r |-> r]

\* The first status, or the second when the first is GOOD (retval |= ...).
Or(r1, r2) == IF r1 = "GOOD" THEN r2 ELSE r1

\* Go on with Op where the call was GOOD, return early where it was not.
OnGood(S, Op(_)) ==
    {x \in S : x.r # "GOOD"} \cup UNION {Op(x.c) : x \in {y \in S : y.r = "GOOD"}}

-----------------------------------------------------------------------------
(* The TCP connection.                                                     *)

UA_Client_init(c) ==
    [c EXCEPT !.state = "READY", !.conn = "OPENING", !.fd = 0, !.auth = FALSE,
              !.due = TRUE, !.subs = FALSE]

socket_close(c) ==
    [c EXCEPT !.conn = "CLOSED", !.open = @ \ {c.fd}, !.tty = @ /\ c.fd # 0]

ClientNetworkLayerClose(c) == IF c.conn = "CLOSED" THEN c ELSE socket_close(c)

\* Mutant: a buffer for a connection that is closed.
ClientNetworkLayerGetBuffer_unchecked(c) == {Res(c, "GOOD")}

ClientNetworkLayerGetBuffer(c) ==
    {Res(c, IF c.conn = "CLOSED" THEN "BADCONNECTIONCLOSED" ELSE "GOOD")}

\* Only a descriptor that is an open socket can take the bytes.
IsSocket(c) == c.fd \in c.open /\ ~(c.fd = 0 /\ c.tty)

socket_write(c) ==
    LET d == [c EXCEPT !.stale = @ \/ c.fd \notin c.open]
    IN  {Res(socket_close(d), "BADCONNECTIONCLOSED")}
        \cup (IF IsSocket(c) THEN {Res(d, "GOOD")} ELSE {})

\* Mutant: the end of the stream is taken for an empty chunk.
receiveChunksBlocking_endIsEmpty(c) ==
    {Res(socket_close(c), "BADCONNECTIONCLOSED"), Res(c, "TIMEOUT"), Res(c, "GOOD")}

\* A receive that times out inside recv() closes the socket; one that reaches
\* the deadline between two partial chunks leaves the connection open.
UA_Connection_receiveChunksBlocking(c) ==
    {Res(socket_close(c), "BADCONNECTIONCLOSED")}
    \cup (IF IsSocket(c) THEN {Res(c, "TIMEOUT"), Res(c, "GOOD")} ELSE {})

\* A failed lookup or socket() returns a connection that still says OPENING,
\* with descriptor 0.
UA_ClientConnectionTCP(c) ==
    LET free == Fds \ c.open
        f == CHOOSE n \in free : \A m \in free : n <= m
        none == [c EXCEPT !.conn = "OPENING", !.fd = 0, !.lookup = TRUE]
    IN  IF free = {} THEN {none}
        ELSE {none,
              [c EXCEPT !.conn = "CLOSED", !.fd = f],
              [c EXCEPT !.conn = "OPENING", !.fd = f, !.open = @ \cup {f}]}

-----------------------------------------------------------------------------
(* Handshakes and services.                                                *)

\* Send a handshake message and wait for its answer.
Exchange(c) ==
    OnGood(ClientNetworkLayerGetBuffer(c), LAMBDA d :
        OnGood(socket_write(d), LAMBDA e : UA_Connection_receiveChunksBlocking(e)))

HelAckHandshake(c) ==
    OnGood(Exchange(c), LAMBDA d :
        {Res(d, "BADINTERNALERROR"), Res([d EXCEPT !.conn = "ESTABLISHED"], "GOOD")})

SecureChannelHandshake(c, renew) ==
    IF renew /\ ~c.due THEN {Res(c, "GOOD")}
    ELSE IF c.conn # "ESTABLISHED" THEN {Res(c, "BADSERVERNOTCONNECTED")}
    ELSE OnGood(Exchange(c), LAMBDA d :
            {Res(d, "BADINTERNALERROR"), Res(d, "BADSERVICE"),
             Res([d EXCEPT !.due = FALSE], "GOOD")})

UA_Client_manuallyRenewSecureChannel(c) ==
    OnGood(SecureChannelHandshake(c, TRUE), LAMBDA d :
        {Res([d EXCEPT !.state = "CONNECTED"], "GOOD")})

\* The status of connection->send is dropped by UA_SecureChannel_sendChunk.
UA_SecureChannel_sendBinaryMessage(c) ==
    OnGood(ClientNetworkLayerGetBuffer(c), LAMBDA d :
        {Res(d, "BADREQUESTTOOLARGE")}
        \cup {Res(x.c, "GOOD") : x \in socket_write(d)})

\* What processServiceResponse makes of an answer: the expected response, a
\* response to another request or of another type, a fault or ERR message.
processServiceResponse(c) ==
    {Res(c, "GOOD"), Res(c, "BADINTERNALERROR"), Res(c, "BADSERVICE")}

UA_Client_Service(c) ==
    UNION {IF x.r # "GOOD" THEN {Res([x.c EXCEPT !.state = "ERRORED"], x.r)}
           ELSE UNION {IF y.r # "GOOD"
                       THEN {Res([y.c EXCEPT !.state = "FAULTED"], y.r)}
                       ELSE OnGood(UA_Connection_receiveChunksBlocking(y.c),
                                   LAMBDA d : processServiceResponse(d)) :
                       y \in UA_SecureChannel_sendBinaryMessage(x.c)} :
           x \in UA_Client_manuallyRenewSecureChannel(c)}

EndpointsHandshake(c) ==
    OnGood(UA_Client_Service(c), LAMBDA d :
        {Res(d, "GOOD"), Res(d, "BADINTERNALERROR")})

SessionHandshake(c) ==
    {Res([x.c EXCEPT !.auth = x.r = "GOOD"], x.r) : x \in UA_Client_Service(c)}

CloseSecureChannel(c) ==
    OnGood(ClientNetworkLayerGetBuffer(c), LAMBDA d :
        {Res(ClientNetworkLayerClose(x.c), x.r) : x \in socket_write(d)})

-----------------------------------------------------------------------------
(* The API.                                                                *)

\* The client's state is left as it was.
UA_Client_disconnect(c) ==
    IF c.state = "READY" THEN {Res(c, "BADNOTCONNECTED")}
    ELSE UNION {IF x.c.conn = "ESTABLISHED"
                THEN {Res(y.c, Or(x.r, y.r)) : y \in CloseSecureChannel(x.c)}
                ELSE {x} :
                x \in IF c.conn = "ESTABLISHED" /\ c.auth
                      THEN UA_Client_Service(c) ELSE {Res(c, "GOOD")}}

UA_Client_deleteMembers(c) == {x.c : x \in UA_Client_disconnect(c)}

UA_Client_reset(c) == {UA_Client_init(d) : d \in UA_Client_deleteMembers(c)}

connectFresh(c, endpointsHandshake, createSession) ==
    IF c.conn # "OPENING" THEN {Res(c, "BADCONNECTIONCLOSED")}
    ELSE OnGood(HelAckHandshake(c), LAMBDA d :
           OnGood(SecureChannelHandshake(d, FALSE), LAMBDA e :
             IF ~endpointsHandshake THEN {Res(e, "GOOD")}
             ELSE OnGood(EndpointsHandshake(e), LAMBDA f :
                    IF ~createSession THEN {Res(f, "GOOD")}
                    ELSE OnGood(SessionHandshake(f), LAMBDA g :
                           UA_Client_Service(g)))))

UA_Client_connect0(c, endpointsHandshake, createSession) ==
    IF c.state = "CONNECTED" THEN {Res(c, "GOOD")}
    ELSE UNION {UNION {IF x.r = "GOOD"
                       THEN {Res([x.c EXCEPT !.conn = "ESTABLISHED",
                                             !.state = "CONNECTED"], "GOOD")}
                       ELSE {Res(d, x.r) : d \in UA_Client_reset(x.c)} :
                       x \in UNION {connectFresh(o, endpointsHandshake, createSession) :
                                    o \in UA_ClientConnectionTCP(b)}} :
                b \in IF c.state = "ERRORED" THEN UA_Client_reset(c) ELSE {c}}

UA_Client_connect(c) == UA_Client_connect0(c, TRUE, TRUE)

UA_Client_getEndpoints(c, sameUrl) ==
    IF c.state = "CONNECTED" /\ ~sameUrl THEN {Res(c, "BADINVALIDARGUMENT")}
    ELSE UNION {{Res(e, x.r) : e \in UNION {UA_Client_reset(d.c) :
                                            d \in UA_Client_disconnect(x.c)}} :
                x \in OnGood(UA_Client_connect0(c, FALSE, FALSE), LAMBDA d :
                             UA_Client_Service(d))}

UA_Client_Subscriptions_new(c) ==
    OnGood(UA_Client_Service(c), LAMBDA d : {Res([d EXCEPT !.subs = TRUE], "GOOD")})

\* The publish loop goes on after an answer that says that more notifications wait; the
\* token may age between two rounds.  A round after the second leaves what the second does.
UA_Client_Subscriptions_manuallySendPublishRequest(c) ==
    IF c.state = "ERRORED" THEN {Res(c, "BADSERVERNOTCONNECTED")}
    ELSE {Res(x.c, "GOOD") : x \in UA_Client_Service(c) \cup OnGood(UA_Client_Service(c), LAMBDA d :
                                  UA_Client_Service(d) \cup UA_Client_Service([d EXCEPT !.due = TRUE]))}
=============================================================================

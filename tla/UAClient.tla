------------------------------ MODULE UAClient ------------------------------
(***************************************************************************)
(* One UA_Client and the program that calls it, one API call after the     *)
(* other, in any order (src/open62541_mqtt/src/client).  Each action is a  *)
(* whole call with one of the outcomes ClientOps gives it.                 *)
(***************************************************************************)
EXTENDS ClientOps

VARIABLES client,   \* the client (and the descriptors of its process)
          alive,    \* UA_Client_delete has not been called on it
          last      \* the last call: its name, its status, the state before

clientVars == <<client, alive, last>>

Fresh == [state |-> "READY", conn |-> "OPENING", fd |-> 0, auth |-> FALSE,
          due |-> TRUE, subs |-> FALSE, open |-> {0}, tty |-> TRUE,
          lookup |-> FALSE, stale |-> FALSE]

ClientInit ==
    /\ client = Fresh
    /\ alive = TRUE
    /\ last = [op |-> "new", r |-> "GOOD", from |-> "READY"]

\* The program makes the call op, with one of the outcomes S.
Call(op, S) ==
    /\ alive
    /\ \E x \in S :
         /\ client' = x.c
         /\ last' = [op |-> op, r |-> x.r, from |-> client.state]
    /\ UNCHANGED alive

Connect == Call("connect", UA_Client_connect(client))

GetEndpoints ==
    \E sameUrl \in BOOLEAN : Call("getEndpoints", UA_Client_getEndpoints(client, sameUrl))

Disconnect == Call("disconnect", UA_Client_disconnect(client))

Renew == Call("renew", UA_Client_manuallyRenewSecureChannel(client))

\* Read, browse, create a monitored item: any raw service.
Service == Call("service", UA_Client_Service(client))

Subscribe == Call("subscribe", UA_Client_Subscriptions_new(client))

Publish == Call("publish", UA_Client_Subscriptions_manuallySendPublishRequest(client))

Reset == Call("reset", {Res(d, "GOOD") : d \in UA_Client_reset(client)})

\* UA_Client_delete frees the record; its descriptors stay with the process.
Delete ==
    /\ alive
    /\ alive' = FALSE
    /\ \E d \in UA_Client_deleteMembers(client) :
         client' = [d EXCEPT !.auth = FALSE, !.subs = FALSE]
    /\ last' = [op |-> "delete", r |-> "GOOD", from |-> client.state]

UA_Client_new ==
    /\ ~alive
    /\ alive' = TRUE
    /\ client' = UA_Client_init(client)
    /\ last' = [op |-> "new", r |-> "GOOD", from |-> client.state]

\* 75% of the security token's lifetime passes.
TokenAges ==
    /\ alive /\ ~client.due
    /\ client' = [client EXCEPT !.due = TRUE]
    /\ last' = [op |-> "time", r |-> "GOOD", from |-> client.state]
    /\ UNCHANGED alive

ClientNext == \/ Connect \/ GetEndpoints \/ Disconnect \/ Renew \/ Service
        \/ Subscribe \/ Publish \/ Reset \/ Delete \/ UA_Client_new \/ TokenAges

ClientSpec == ClientInit /\ [][ClientNext]_clientVars

-----------------------------------------------------------------------------
(* Properties.                                                             *)

\* Descriptors the process holds that no connection record names any more.
Leaked(c) == c.open \ {0, c.fd}

\* As long as every address lookup works, the client never writes to a
\* descriptor number it has closed (the number may already belong to another
\* socket of the process), and it never closes standard input.  Rests on the
\* CLOSED checks of ClientNetworkLayerGetBuffer and SecureChannelHandshake on
\* every path through a service call, a handshake and a disconnect.
NoWriteAfterClose == ~client.lookup => ~client.stale /\ 0 \in client.open

\* A connect that returns GOOD leaves a session and a socket that is open, although
\* the status of every send on the way is dropped and the state of the connection
\* is set at the end without a look; unless it was called on a CONNECTED client,
\* where it returns at once, whatever has become of the connection.
ConnectGoodIsConnected ==
    last.op = "connect" /\ last.r = "GOOD" /\ last.from # "CONNECTED" =>
        client.auth /\ IsSocket(client)
=============================================================================

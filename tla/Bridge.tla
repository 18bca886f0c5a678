------------------------------- MODULE Bridge -------------------------------
(***************************************************************************)
(* The bridge process of src/open62541_mqtt/mqtt: the main thread          *)
(* (client-main.cpp) and one thread per poll group (client-monitoring.cpp) *)
(* share one UA_Client, without a lock, and connect it with                *)
(* opcua_server_connect (client-connection.c), which frees the client when *)
(* it fails.                                                               *)
(*                                                                         *)
(* A step of a thread is the work between two points at which it waits for *)
(* the network: one handshake message or one service call and its answer.  *)
(* The threads interleave at these points.  What one thread's traffic can  *)
(* do to the other's (an answer taken by the wrong thread, a socket closed *)
(* under it) is among the outcomes ClientOps gives to every exchange.      *)
(* Which descriptors a failed connect loses is the subject of UAClient:    *)
(* here a lost one is forgotten and its number is free again.              *)
(* A step that touches the client after it was freed ends the model's      *)
(* knowledge of the process ("crashed").                                   *)
(***************************************************************************)
EXTENDS ClientOps

CONSTANTS Groups,     \* the enabled groups of the configuration with method poll
          Main,       \* the main thread
          Modes       \* the methods of the server entry to consider

ASSUME BridgeAssumption ==
    /\ Main \notin Groups /\ IsFiniteSet(Groups)
    /\ Modes \subseteq {"poll", "event", "both"}

VARIABLES mode,       \* method of the server entry, or both if asynchronous
          client,     \* *client, and the descriptors of the process
          alive,      \* the memory of *client is allocated
          pc,         \* where each thread is
          beStop,     \* the flag the signal handler sets
          crashed,    \* the process used freed memory or an invalid thread id
          connected,  \* history: main's opcua_server_connect has succeeded
          failed,     \* history: a poll thread's read has failed
          lost,       \* history: the threads whose reconnect found the client
                      \* CONNECTED with its connection closed
          recovered,  \* history: a poll thread's reconnect has worked
          revived     \* history: one of those in lost has

histories == <<connected, failed, lost, recovered, revived>>
vars == <<mode, client, alive, pc, beStop, crashed, histories>>

Threads == Groups \cup {Main}

Events == mode # "poll"
Polls == mode # "event"

\* Where a thread uses the client: in opcua_server_connect, in main, in a poll.
ConnectStages == {"getEndpoints", "ep_hello", "ep_channel", "ep_failed", "ep_service",
                  "ep_good", "ep_bad", "connect", "hello", "channel", "endpoints",
                  "session", "activate", "failed", "delete", "browse"}
Stages == ConnectStages \cup {"monitor", "items", "publish", "more", "disconnect", "exit", "read"}
Places == Stages \cup {"new", "retry", "spawn", "loop", "cancel", "done",
                       "idle", "rest", "ended"}

TypeOK ==
    /\ mode \in Modes
    /\ client \in Clients
    /\ pc \in [Threads -> Places]
    /\ alive \in BOOLEAN /\ beStop \in BOOLEAN /\ crashed \in BOOLEAN
    /\ connected \in BOOLEAN /\ failed \in BOOLEAN
    /\ lost \subseteq Groups /\ recovered \in BOOLEAN /\ revived \in BOOLEAN

Init ==
    /\ mode \in Modes
    /\ client = [state |-> "READY", conn |-> "OPENING", fd |-> 0, auth |-> FALSE,
                 due |-> TRUE, subs |-> FALSE, open |-> {0}, tty |-> TRUE,
                 lookup |-> FALSE, stale |-> FALSE]
    /\ pc = [t \in Threads |-> IF t = Main THEN "new" ELSE "idle"]
    /\ alive = FALSE /\ beStop = FALSE /\ crashed = FALSE
    /\ connected = FALSE /\ failed = FALSE
    /\ lost = {} /\ recovered = FALSE /\ revived = FALSE

-----------------------------------------------------------------------------
(* Steps of a thread.                                                      *)

Running == ~crashed /\ pc[Main] # "done"

Goto(t, to) == pc' = [pc EXCEPT ![t] = to]

\* The client after a step, without the descriptors that were lost.
Settled(c) ==
    [c EXCEPT !.open = (IF c.tty THEN {0} ELSE {}) \cup ({c.fd} \cap @),
              !.lookup = FALSE, !.stale = FALSE]

\* Thread t, at a stage where it uses the client, takes one of the outcomes S.
At(t, stage, S) ==
    /\ Running /\ pc[t] = stage /\ alive
    /\ \E x \in S : client' = Settled(x.c) /\ Goto(t, x.to)
    /\ UNCHANGED <<alive, mode, beStop, crashed>>

\* Go on to good or to bad after a call with the outcomes S.
On(S, good, bad) ==
    {[c |-> x.c, to |-> IF x.r = "GOOD" THEN good ELSE bad] : x \in S}

To(C, to) == {[c |-> c, to |-> to] : c \in C}

\* Mutant: the client is connected again, whatever its state says.
Open_always(c, isConnected, opened, notOpened) ==
    {[c |-> o, to |-> IF o.conn = "OPENING" THEN opened ELSE notOpened] :
     o \in UA_ClientConnectionTCP(c)}

\* The beginning of __UA_Client_connect.
Open(c, isConnected, opened, notOpened) ==
    IF c.state = "CONNECTED" THEN To({c}, isConnected)
    ELSE {[c |-> o, to |-> IF o.conn = "OPENING" THEN opened ELSE notOpened] :
          o \in UNION {UA_ClientConnectionTCP(b) :
                       b \in IF c.state = "ERRORED" THEN UA_Client_reset(c) ELSE {c}}}

\* The end of __UA_Client_connect, after a last handshake with the outcomes S.
Connected(S) ==
    {IF x.r = "GOOD" THEN Res([x.c EXCEPT !.conn = "ESTABLISHED", !.state = "CONNECTED"], "GOOD")
     ELSE x : x \in S}

\* UA_Client_disconnect and UA_Client_reset at the end of getEndpoints.
Shut(c) == UNION {UA_Client_reset(x.c) : x \in UA_Client_disconnect(c)}

\* opcua_server_connect deletes the client it could not connect.
Free(t) ==
    /\ Running /\ pc[t] = "delete" /\ alive
    /\ client' \in {Settled(c) : c \in UA_Client_deleteMembers(client)}
    /\ alive' = FALSE
    /\ Goto(t, "retry")
    /\ UNCHANGED <<mode, beStop, crashed>>

\* opcua_server_connect: getEndpoints (with a connection of its own), connect.
opcua_server_connect(t) ==
    \/ At(t, "getEndpoints", Open(client, "ep_service", "ep_hello", "ep_failed"))
    \/ At(t, "ep_hello", On(HelAckHandshake(client), "ep_channel", "ep_failed"))
    \/ At(t, "ep_channel",
          On(Connected(SecureChannelHandshake(client, FALSE)), "ep_service", "ep_failed"))
    \/ At(t, "ep_failed", To(UA_Client_reset(client), "ep_bad"))
    \/ At(t, "ep_service", On(UA_Client_Service(client), "ep_good", "ep_bad"))
    \/ At(t, "ep_good", To(Shut(client), "connect"))
    \/ At(t, "ep_bad", To(Shut(client), "delete"))
    \/ At(t, "connect", Open(client, "browse", "hello", "failed"))
    \/ At(t, "hello", On(HelAckHandshake(client), "channel", "failed"))
    \/ At(t, "channel", On(SecureChannelHandshake(client, FALSE), "endpoints", "failed"))
    \/ At(t, "endpoints", On(EndpointsHandshake(client), "session", "failed"))
    \/ At(t, "session", On(SessionHandshake(client), "activate", "failed"))
    \/ At(t, "activate", On(Connected(UA_Client_Service(client)), "browse", "failed"))
    \/ At(t, "failed", To(UA_Client_reset(client), "delete"))
    \/ Free(t)

\* Two browse calls, whose results are only printed.
opcua_server_browse(c) == {y.c : y \in UNION {UA_Client_Service(x.c) : x \in UA_Client_Service(c)}}

\* Any use of the client after it was freed.
UseFreed(t) ==
    /\ Running /\ ~alive /\ pc[t] \in Stages
    /\ crashed' = TRUE
    /\ UNCHANGED <<client, alive, pc, mode, beStop>>

-----------------------------------------------------------------------------
(* The main thread.                                                        *)

NewClient ==
    /\ Running /\ pc[Main] = "new"
    /\ alive' = TRUE /\ client' = UA_Client_init(client)
    /\ Goto(Main, "getEndpoints")
    /\ UNCHANGED <<mode, beStop, crashed, histories>>

\* Mutant: the loop goes on until the server is there.
RetryMain_forever ==
    /\ Running /\ pc[Main] = "retry"
    /\ Goto(Main, "new")
    /\ UNCHANGED <<client, alive, mode, beStop, crashed, histories>>

\* Mutant: the next attempt is made with the same client.
RetryMain_sameClient ==
    /\ Running /\ pc[Main] = "retry"
    /\ Goto(Main, IF beStop THEN "monitor" ELSE "getEndpoints")
    /\ UNCHANGED <<client, alive, mode, beStop, crashed, histories>>

RetryMain ==
    /\ Running /\ pc[Main] = "retry"
    /\ Goto(Main, IF beStop THEN "monitor" ELSE "new")
    /\ UNCHANGED <<client, alive, mode, beStop, crashed, histories>>

ConnectMain == opcua_server_connect(Main) /\ UNCHANGED histories

BrowseMain ==
    /\ At(Main, "browse", To(opcua_server_browse(client), IF Events THEN "monitor" ELSE "spawn"))
    /\ connected' = TRUE
    /\ UNCHANGED <<failed, lost, recovered, revived>>

\* Without events monitor_start does not touch the client.
SkipMonitor ==
    /\ Running /\ pc[Main] = "monitor" /\ ~Events
    /\ Goto(Main, "spawn")
    /\ UNCHANGED <<client, alive, mode, beStop, crashed, histories>>

\* A subscription that was not created refuses every monitored item at once.
monitor_start ==
    /\ \/ Events /\ At(Main, "monitor",
                       To({x.c : x \in UA_Client_Subscriptions_new(client)}, "items"))
       \/ At(Main, "items", To({client} \cup (IF client.subs
                                              THEN {x.c : x \in UA_Client_Service(client)}
                                              ELSE {}), "spawn"))
    /\ UNCHANGED histories

Spawn ==
    /\ Running /\ pc[Main] = "spawn"
    /\ pc' = [t \in Threads |-> IF t = Main THEN "loop" ELSE IF Polls THEN "read" ELSE "idle"]
    /\ UNCHANGED <<client, alive, mode, beStop, crashed, histories>>

\* The main loop wakes up.
Wake ==
    /\ Running /\ pc[Main] = "loop" /\ (beStop \/ Events)
    /\ Goto(Main, IF beStop THEN "cancel" ELSE "publish")
    /\ UNCHANGED <<client, alive, mode, beStop, crashed, histories>>

\* One round of UA_Client_Subscriptions_manuallySendPublishRequest: an answer may
\* say that more notifications wait.
PublishExchange(c) ==
    To({x.c : x \in UA_Client_Service(c)}, "loop") \cup On(UA_Client_Service(c), "more", "loop")

\* The rounds go on as long as the answers say so, whatever beStop is.
Publish ==
    /\ \/ At(Main, "publish", IF client.state = "ERRORED" THEN To({client}, "loop") ELSE PublishExchange(client))
       \/ At(Main, "more", PublishExchange(client))
    /\ UNCHANGED histories

\* The third thread id that is cancelled and joined was never assigned: 0.
\* The library may dereference it or refuse it.
Cancel ==
    /\ Running /\ pc[Main] = "cancel"
    /\ \/ Goto(Main, "disconnect") /\ UNCHANGED crashed
       \/ crashed' = TRUE /\ UNCHANGED pc
    /\ UNCHANGED <<client, alive, mode, beStop, histories>>

Disconnect ==
    /\ At(Main, "disconnect", To({x.c : x \in UA_Client_disconnect(client)}, "exit"))
    /\ UNCHANGED histories

\* UA_Client_delete, while the poll threads are still running, and the return.
Delete ==
    /\ Running /\ pc[Main] = "exit" /\ alive
    /\ client' \in {Settled(c) : c \in UA_Client_deleteMembers(client)}
    /\ alive' = FALSE
    /\ Goto(Main, "ended")
    /\ UNCHANGED <<mode, beStop, crashed, histories>>

Return ==
    /\ Running /\ pc[Main] = "ended"
    /\ Goto(Main, "done")
    /\ UNCHANGED <<client, alive, mode, beStop, crashed, histories>>

-----------------------------------------------------------------------------
(* A poll thread.                                                          *)

\* One node is read.  A bad status of the value itself counts as a failure.
Read(g) ==
    /\ At(g, "read", On(UA_Client_Service(client), "read", "getEndpoints")
                     \cup On(UA_Client_Service(client), "rest", "getEndpoints")
                     \cup On(UA_Client_Service(client), "getEndpoints", "getEndpoints"))
    /\ failed' = (failed \/ pc'[g] = "getEndpoints")
    /\ UNCHANGED <<connected, lost, recovered, revived>>

ConnectPoll(g) ==
    /\ opcua_server_connect(g)
    /\ lost' = IF pc[g] # "getEndpoints" THEN lost
               ELSE IF client.state = "CONNECTED" /\ client.conn = "CLOSED"
                    THEN lost \cup {g} ELSE lost \ {g}
    /\ UNCHANGED <<connected, failed, recovered, revived>>

\* The loop around opcua_server_connect does not look at beStop.
RetryPoll(g) ==
    /\ Running /\ pc[g] = "retry"
    /\ Goto(g, "getEndpoints")
    /\ UNCHANGED <<client, alive, mode, beStop, crashed, histories>>

\* The next node, or the end of the round.
BrowsePoll(g) ==
    /\ At(g, "browse", UNION {To(opcua_server_browse(client), to) : to \in {"read", "rest"}})
    /\ recovered' = TRUE
    /\ revived' = (revived \/ g \in lost)
    /\ UNCHANGED <<connected, failed, lost>>

\* The record is published and the interval passes.
Rest(g) ==
    /\ Running /\ pc[g] = "rest"
    /\ Goto(g, IF beStop THEN "ended" ELSE "read")
    /\ UNCHANGED <<client, alive, mode, beStop, crashed, histories>>

-----------------------------------------------------------------------------

\* SIGINT or SIGTERM.
signal_finish ==
    /\ Running /\ ~beStop /\ beStop' = TRUE
    /\ UNCHANGED <<client, alive, pc, mode, crashed, histories>>

\* 75% of the lifetime of the security token is over.
TokenAges ==
    /\ Running /\ alive /\ ~client.due
    /\ client' = [client EXCEPT !.due = TRUE]
    /\ UNCHANGED <<alive, pc, mode, beStop, crashed, histories>>

MainStep ==
    \/ NewClient \/ RetryMain \/ ConnectMain \/ BrowseMain \/ SkipMonitor \/ monitor_start
    \/ Spawn \/ Wake \/ Publish \/ Cancel \/ Disconnect \/ Delete \/ Return
    \/ UseFreed(Main) /\ UNCHANGED histories

PollStep(g) ==
    \/ Read(g) \/ ConnectPoll(g) \/ RetryPoll(g) \/ BrowsePoll(g) \/ Rest(g)
    \/ UseFreed(g) /\ UNCHANGED histories

Terminated == ~Running /\ UNCHANGED vars

Next ==
    \/ MainStep \/ signal_finish \/ TokenAges \/ Terminated
    \/ \E g \in Groups : PollStep(g)

Spec == Init /\ [][Next]_vars

\* Every call ends by its timeout, every sleep is finite, and every thread is
\* scheduled.
FairSpec == Spec /\ WF_vars(MainStep) /\ \A g \in Groups : WF_vars(PollStep(g))

-----------------------------------------------------------------------------
(* Properties.                                                             *)

\* As long as every read works and nobody asks the process to stop, no thread
\* uses the client after it was freed: main takes a new client after each
\* failed connect, and starts the threads only with a connected one.
NoFaultBeforeLoss == crashed => failed \/ beStop

\* A poll thread that finds the client in state CONNECTED with its connection
\* closed, which is what a server that went away leaves behind, cannot get it
\* back: __UA_Client_connect returns at once, the GetEndpoints call fails, and
\* opcua_server_connect frees the client.  Another poll thread could connect
\* the client in between, hence the condition.
LostIsNotRecovered ==
    Cardinality(Groups) = 1 => ~revived

\* monitor_start runs once: after a poll thread has reconnected, the client has
\* no subscription, and no event is ever delivered again.
EventsEndWithReconnect == recovered => ~client.subs

\* What a poll thread's reconnect gets back, and what is gone for good.
ReconnectLoses == LostIsNotRecovered /\ EventsEndWithReconnect

\* The process ends normally only if it has been connected: a stop before that
\* ends in a use of the client that opcua_server_connect has freed.
CleanExitWasConnected == pc[Main] = "done" => connected

-----------------------------------------------------------------------------
(* What makes the two invariants about a freed client inductive.           *)

\* Where main is before it starts the poll threads.
Starting == ConnectStages \cup {"new", "retry", "monitor", "items", "spawn"}

\* While all is well the client is allocated, except between two attempts of
\* main, when no other thread exists yet.
Healthy ==
    ~failed /\ ~beStop =>
        /\ ~crashed
        /\ alive \/ pc[Main] \in {"new", "retry"}
        /\ pc[Main] \in Starting \cup {"loop", "publish", "more"}
        /\ \A g \in Groups : \/ pc[g] = "idle"
                             \/ pc[Main] \notin Starting /\ pc[g] \in {"read", "rest"}

\* Main leaves the connect loop either with a connection or with a client that
\* is freed and stays so.
Unconnected ==
    ~connected =>
        /\ pc[Main] \notin {"exit", "ended", "done"}
        /\ pc[Main] \in {"retry", "monitor", "items", "spawn", "loop", "publish", "more", "cancel",
                        "disconnect"} => ~alive

\* The inductive invariant.
ClientInv == pc \in [Threads -> Places] /\ Healthy /\ Unconnected

-----------------------------------------------------------------------------
(* Liveness.                                                               *)

\* A signal ends the process, whatever the threads and the peers do, unless the
\* server answers every publish request for ever with the word that more
\* notifications wait: that loop does not look at beStop.
StopEnds == []<>(pc[Main] # "more") => (beStop ~> ~Running)
=============================================================================

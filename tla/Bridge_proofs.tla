---------------------------- MODULE Bridge_proofs ----------------------------
(***************************************************************************)
(* Proofs about the bridge process, for every set of poll groups and every *)
(* mode: when a freed client can be used, and when the process can end     *)
(* normally.  What the calls of the client do to its record plays no role  *)
(* in them; only where a thread goes after a call does.                    *)
(*                                                                         *)
(* And about what it publishes, for every configuration file: a record is  *)
(* the one of its round, and what a file writes in full is what is read    *)
(* and published.                                                          *)
(***************************************************************************)
EXTENDS Bridge, Records, ClientOps_proofs

-----------------------------------------------------------------------------
(* Where a thread goes.                                                    *)

\* A call that can be good or bad leads to one of the two places given for it.
LEMMA OnTargets ==
  ASSUME NEW S, NEW good, NEW bad, NEW x \in On(S, good, bad)
  PROVE  x.to \in {good, bad}
  BY DEF On

\* A call whose status is ignored leads to the one place given for it.
LEMMA ToTargets ==
  ASSUME NEW C, NEW to, NEW x \in To(C, to)
  PROVE  x.to = to
  BY DEF To

\* The beginning of a connect leads to one of its three places.
LEMMA OpenTargets ==
  ASSUME NEW c, NEW a, NEW b, NEW d, NEW x \in Open(c, a, b, d)
  PROVE  x.to \in {a, b, d}
<1>1. CASE c.state = "CONNECTED"
  BY <1>1, ToTargets DEF Open
<1>2. CASE c.state # "CONNECTED"
  BY <1>2 DEF Open
<1> QED
  BY <1>1, <1>2

\* A step of a thread with the client in hand: the thread goes to the place of
\* one of the outcomes, the client stays allocated.
LEMMA AtMoves ==
  ASSUME NEW t, NEW stage, NEW S, At(t, stage, S)
  PROVE  /\ Running /\ alive /\ pc[t] = stage
         /\ UNCHANGED <<alive, beStop, crashed>>
         /\ \E x \in S : pc' = [pc EXCEPT ![t] = x.to]
  BY DEF At, Goto

\* A step of opcua_server_connect stays inside it, or frees the client and
\* returns to its caller's loop.
LEMMA ConnectMoves ==
  ASSUME NEW t, opcua_server_connect(t)
  PROVE  /\ Running /\ alive /\ pc[t] \in ConnectStages \ {"browse"}
         /\ UNCHANGED <<beStop, crashed>>
         /\ \/ alive' = alive /\ \E to \in ConnectStages : pc' = [pc EXCEPT ![t] = to]
            \/ alive' = FALSE /\ pc' = [pc EXCEPT ![t] = "retry"]
<1> DEFINE Stays(stage) == /\ Running /\ alive /\ pc[t] = stage
                           /\ UNCHANGED <<alive, beStop, crashed>>
                           /\ \E to \in ConnectStages : pc' = [pc EXCEPT ![t] = to]
<1>1. ASSUME NEW stage, NEW S, NEW good, NEW bad, At(t, stage, On(S, good, bad)),
             good \in ConnectStages, bad \in ConnectStages
      PROVE  Stays(stage)
  <2>1. \A x \in On(S, good, bad) : x.to \in ConnectStages
    BY <1>1, OnTargets
  <2> QED
    BY <1>1, <2>1, AtMoves
<1>2. ASSUME NEW stage, NEW C, NEW place, At(t, stage, To(C, place)), place \in ConnectStages
      PROVE  Stays(stage)
  <2>1. \A x \in To(C, place) : x.to \in ConnectStages
    BY <1>2, ToTargets
  <2> QED
    BY <1>2, <2>1, AtMoves
<1>3. ASSUME NEW stage, NEW a, NEW b, NEW d, At(t, stage, Open(client, a, b, d)),
             a \in ConnectStages, b \in ConnectStages, d \in ConnectStages
      PROVE  Stays(stage)
  <2>1. \A x \in Open(client, a, b, d) : x.to \in ConnectStages
    BY <1>3, OpenTargets
  <2> QED
    BY <1>3, <2>1, AtMoves
<1>4. CASE Free(t)
  BY <1>4 DEF Free, Goto, ConnectStages
<1>5. CASE At(t, "getEndpoints", Open(client, "ep_service", "ep_hello", "ep_failed"))
  BY <1>3, <1>5 DEF ConnectStages
<1>6. CASE At(t, "ep_hello", On(HelAckHandshake(client), "ep_channel", "ep_failed"))
  BY <1>1, <1>6 DEF ConnectStages
<1>7. CASE At(t, "ep_channel",
              On(Connected(SecureChannelHandshake(client, FALSE)), "ep_service", "ep_failed"))
  BY <1>1, <1>7 DEF ConnectStages
<1>8. CASE At(t, "ep_failed", To(UA_Client_reset(client), "ep_bad"))
  BY <1>2, <1>8 DEF ConnectStages
<1>9. CASE At(t, "ep_service", On(UA_Client_Service(client), "ep_good", "ep_bad"))
  BY <1>1, <1>9 DEF ConnectStages
<1>10. CASE At(t, "ep_good", To(Shut(client), "connect"))
  BY <1>2, <1>10 DEF ConnectStages
<1>11. CASE At(t, "ep_bad", To(Shut(client), "delete"))
  BY <1>2, <1>11 DEF ConnectStages
<1>12. CASE At(t, "connect", Open(client, "browse", "hello", "failed"))
  BY <1>3, <1>12 DEF ConnectStages
<1>13. CASE At(t, "hello", On(HelAckHandshake(client), "channel", "failed"))
  BY <1>1, <1>13 DEF ConnectStages
<1>14. CASE At(t, "channel",
               On(SecureChannelHandshake(client, FALSE), "endpoints", "failed"))
  BY <1>1, <1>14 DEF ConnectStages
<1>15. CASE At(t, "endpoints", On(EndpointsHandshake(client), "session", "failed"))
  BY <1>1, <1>15 DEF ConnectStages
<1>16. CASE At(t, "session", On(SessionHandshake(client), "activate", "failed"))
  BY <1>1, <1>16 DEF ConnectStages
<1>17. CASE At(t, "activate", On(Connected(UA_Client_Service(client)), "browse", "failed"))
  BY <1>1, <1>17 DEF ConnectStages
<1>18. CASE At(t, "failed", To(UA_Client_reset(client), "delete"))
  BY <1>2, <1>18 DEF ConnectStages
<1> QED
  BY <1>4, <1>5, <1>6, <1>7, <1>8, <1>9, <1>10, <1>11, <1>12, <1>13, <1>14, <1>15, <1>16,
     <1>17, <1>18 DEF opcua_server_connect

-----------------------------------------------------------------------------
(* The inductive invariant.                                                *)

\* In the initial state main is about to create a client and no thread runs.
LEMMA InitClientInv == Init => ClientInv
  BY BridgeAssumption DEF Init, ClientInv, Healthy, Unconnected, Threads, Places, Stages,
     ConnectStages, Starting

\* Every step of main keeps the invariant: it uses the client only where the
\* invariant says it is allocated.
LEMMA MainKeeps == ClientInv /\ MainStep => ClientInv'
<1> SUFFICES ASSUME ClientInv, MainStep
             PROVE  ClientInv'
  OBVIOUS
<1> USE DEF ClientInv, Threads, Places, Stages
<1>1. Main \in Threads /\ Main \notin Groups
  BY BridgeAssumption
<1>2. CASE NewClient
  BY <1>1, <1>2 DEF NewClient, Goto, Healthy, Unconnected, ConnectStages, Starting, histories
<1>3. CASE RetryMain
  BY <1>1, <1>3 DEF RetryMain, Goto, Healthy, Unconnected, ConnectStages, Starting, histories
<1>4. CASE ConnectMain
  <2>1. opcua_server_connect(Main) /\ UNCHANGED histories
    BY <1>4 DEF ConnectMain
  <2>2. \/ alive' = alive /\ \E to \in ConnectStages : pc' = [pc EXCEPT ![Main] = to]
        \/ alive' = FALSE /\ pc' = [pc EXCEPT ![Main] = "retry"]
    BY <2>1, ConnectMoves
  <2>3. alive /\ pc[Main] \in ConnectStages /\ UNCHANGED <<beStop, crashed>>
    BY <2>1, ConnectMoves
  <2>4. (pc \in [Threads -> Places])'
    BY <1>1, <2>2
  <2>5. Healthy'
    BY <1>1, <2>1, <2>2, <2>3 DEF Healthy, Starting, histories
  <2>6. Unconnected'
    BY <1>1, <2>1, <2>2, <2>3 DEF Unconnected, ConnectStages, histories
  <2> QED
    BY <2>4, <2>5, <2>6
<1>5. CASE BrowseMain
  <2> DEFINE P == {"monitor", "spawn"}
  <2>1. /\ \E C, to : to \in P /\ At(Main, "browse", To(C, to))
        /\ connected' /\ failed' = failed
    BY <1>5 DEF BrowseMain
  <2>2. PICK C, to : to \in P /\ At(Main, "browse", To(C, to))
    BY <2>1
  <2>3. \A x \in To(C, to) : x.to \in P
    BY <2>2, ToTargets
  <2>4. /\ alive /\ pc[Main] = "browse" /\ UNCHANGED <<alive, beStop, crashed>>
        /\ \E q \in P : pc' = [pc EXCEPT ![Main] = q]
    BY <2>2, <2>3, AtMoves
  <2> QED
    BY <1>1, <2>1, <2>4 DEF Healthy, Unconnected, ConnectStages, Starting
<1>6. CASE SkipMonitor
  BY <1>1, <1>6 DEF SkipMonitor, Goto, Healthy, Unconnected, ConnectStages, Starting, histories
<1>7. CASE monitor_start
  <2> DEFINE P == {"items", "spawn"}
  <2>1. /\ \E stage, C, to : stage \in {"monitor", "items"} /\ to \in P
                              /\ At(Main, stage, To(C, to))
        /\ UNCHANGED histories
    BY <1>7 DEF monitor_start
  <2>2. PICK stage, C, to : stage \in {"monitor", "items"} /\ to \in P
                             /\ At(Main, stage, To(C, to))
    BY <2>1
  <2>3. \A x \in To(C, to) : x.to \in P
    BY <2>2, ToTargets
  <2>4. /\ alive /\ pc[Main] \in {"monitor", "items"} /\ UNCHANGED <<alive, beStop, crashed>>
        /\ \E q \in P : pc' = [pc EXCEPT ![Main] = q]
    BY <2>2, <2>3, AtMoves
  <2> QED
    BY <1>1, <2>1, <2>4 DEF Healthy, Unconnected, ConnectStages, Starting, histories
<1>8. CASE Spawn
  BY <1>1, <1>8 DEF Spawn, Healthy, Unconnected, ConnectStages, Starting, histories
<1>9. CASE Wake
  BY <1>1, <1>9 DEF Wake, Goto, Healthy, Unconnected, ConnectStages, Starting, histories
<1>10. CASE Publish
  <2> DEFINE S == IF client.state = "ERRORED" THEN To({client}, "loop") ELSE PublishExchange(client)
  <2>1. UNCHANGED histories
    BY <1>10 DEF Publish
  <2>2. PICK stage \in {"publish", "more"} : At(Main, stage, S) \/ At(Main, stage, PublishExchange(client))
    BY <1>10 DEF Publish
  <2>3. \A x \in PublishExchange(client) : x.to \in {"loop", "more"}
    BY ToTargets, OnTargets DEF PublishExchange
  <2>4. \A x \in S : x.to \in {"loop", "more"}
    BY <2>3, ToTargets
  <2> HIDE DEF S
  <2>5. /\ alive /\ pc[Main] \in {"publish", "more"} /\ UNCHANGED <<alive, beStop, crashed>>
        /\ \E q \in {"loop", "more"} : pc' = [pc EXCEPT ![Main] = q]
    BY <2>2, <2>3, <2>4, AtMoves
  <2> QED
    BY <1>1, <2>1, <2>5 DEF Healthy, Unconnected, ConnectStages, Starting, histories
<1>11. CASE Cancel
  BY <1>1, <1>11 DEF Cancel, Goto, Healthy, Unconnected, ConnectStages, Starting, histories
<1>12. CASE Disconnect
  <2>1. /\ \E C : At(Main, "disconnect", To(C, "exit"))
        /\ UNCHANGED histories
    BY <1>12 DEF Disconnect
  <2>2. PICK C : At(Main, "disconnect", To(C, "exit"))
    BY <2>1
  <2>3. \A x \in To(C, "exit") : x.to \in {"exit"}
    BY <2>2, ToTargets
  <2>4. /\ alive /\ pc[Main] = "disconnect" /\ UNCHANGED <<alive, beStop, crashed>>
        /\ \E q \in {"exit"} : pc' = [pc EXCEPT ![Main] = q]
    BY <2>2, <2>3, AtMoves
  <2> QED
    BY <1>1, <2>1, <2>4 DEF Healthy, Unconnected, ConnectStages, Starting, histories
<1>13. CASE Delete
  BY <1>1, <1>13 DEF Delete, Goto, Healthy, Unconnected, ConnectStages, Starting, histories
<1>14. CASE Return
  BY <1>1, <1>14 DEF Return, Goto, Healthy, Unconnected, ConnectStages, Starting, histories
<1>15. CASE UseFreed(Main) /\ UNCHANGED histories
  BY <1>1, <1>15 DEF UseFreed, Healthy, Unconnected, ConnectStages, Starting, histories
<1> QED
  BY <1>2, <1>3, <1>4, <1>5, <1>6, <1>7, <1>8, <1>9, <1>10, <1>11, <1>12, <1>13, <1>14, <1>15
     DEF MainStep

\* Every step of a poll thread keeps it: until a read fails the thread is
\* reading or resting, and no poll thread ever allocates a client.
LEMMA PollKeeps ==
  ASSUME NEW g \in Groups, ClientInv, PollStep(g)
  PROVE  ClientInv'
<1> USE DEF ClientInv, Threads, Places, Stages
<1>1. g \in Threads /\ Main \in Threads /\ g # Main
  BY BridgeAssumption
<1>2. CASE Read(g)
  <2> DEFINE P == {"read", "rest", "getEndpoints"}
  <2> DEFINE S == On(UA_Client_Service(client), "read", "getEndpoints")
                  \cup On(UA_Client_Service(client), "rest", "getEndpoints")
                  \cup On(UA_Client_Service(client), "getEndpoints", "getEndpoints")
  <2>1. /\ At(g, "read", S)
        /\ failed' = (failed \/ pc'[g] = "getEndpoints")
        /\ connected' = connected
    BY <1>2 DEF Read
  <2>2. \A x \in S : x.to \in P
    BY OnTargets
  <2> HIDE DEF S
  <2>3. /\ alive /\ pc[g] = "read" /\ UNCHANGED <<alive, beStop, crashed>>
        /\ \E q \in P : pc' = [pc EXCEPT ![g] = q]
    BY <2>1, <2>2, AtMoves
  <2> QED
    BY <1>1, <2>1, <2>3 DEF Healthy, Unconnected, ConnectStages, Starting
<1>3. CASE ConnectPoll(g)
  <2>1. opcua_server_connect(g) /\ UNCHANGED <<connected, failed>>
    BY <1>3 DEF ConnectPoll
  <2>2. \/ alive' = alive /\ \E to \in ConnectStages : pc' = [pc EXCEPT ![g] = to]
        \/ alive' = FALSE /\ pc' = [pc EXCEPT ![g] = "retry"]
    BY <2>1, ConnectMoves
  <2>3. alive /\ pc[g] \in ConnectStages /\ UNCHANGED <<beStop, crashed>>
    BY <2>1, ConnectMoves
  <2>4. (pc \in [Threads -> Places])'
    BY <1>1, <2>2
  <2>5. Healthy'
    BY <1>1, <2>1, <2>2, <2>3 DEF Healthy, ConnectStages
  <2>6. Unconnected'
    BY <1>1, <2>1, <2>2, <2>3 DEF Unconnected
  <2> QED
    BY <2>4, <2>5, <2>6
<1>4. CASE RetryPoll(g)
  BY <1>1, <1>4 DEF RetryPoll, Goto, Healthy, Unconnected, ConnectStages, Starting, histories
<1>5. CASE BrowsePoll(g)
  <2> DEFINE P == {"read", "rest"}
  <2> DEFINE S == UNION {To(opcua_server_browse(client), to) : to \in {"read", "rest"}}
  <2>1. At(g, "browse", S) /\ UNCHANGED <<connected, failed>>
    BY <1>5 DEF BrowsePoll
  <2>2. \A x \in S : x.to \in P
    BY ToTargets
  <2> HIDE DEF S
  <2>3. /\ alive /\ pc[g] = "browse" /\ UNCHANGED <<alive, beStop, crashed>>
        /\ \E q \in P : pc' = [pc EXCEPT ![g] = q]
    BY <2>1, <2>2, AtMoves
  <2> QED
    BY <1>1, <2>1, <2>3 DEF Healthy, Unconnected, ConnectStages, Starting
<1>6. CASE Rest(g)
  BY <1>1, <1>6 DEF Rest, Goto, Healthy, Unconnected, ConnectStages, Starting, histories
<1>7. CASE UseFreed(g) /\ UNCHANGED histories
  BY <1>1, <1>7 DEF UseFreed, Healthy, Unconnected, ConnectStages, Starting, histories
<1> QED
  BY <1>2, <1>3, <1>4, <1>5, <1>6, <1>7 DEF PollStep

\* The invariant is inductive.
LEMMA NextClientInv == ClientInv /\ [Next]_vars => ClientInv'
<1> SUFFICES ASSUME ClientInv, [Next]_vars
             PROVE  ClientInv'
  OBVIOUS
<1>1. CASE MainStep
  BY <1>1, MainKeeps
<1>2. CASE \E g \in Groups : PollStep(g)
  BY <1>2, PollKeeps
<1>3. CASE signal_finish
  BY <1>3 DEF signal_finish, ClientInv, Healthy, Unconnected, histories
<1>4. CASE TokenAges
  BY <1>4 DEF TokenAges, ClientInv, Healthy, Unconnected, histories
<1>5. CASE UNCHANGED vars
  BY <1>5 DEF vars, ClientInv, Healthy, Unconnected, histories
<1> QED
  BY <1>1, <1>2, <1>3, <1>4, <1>5 DEF Next, Terminated

\* The inductive invariant holds in every reachable state.
THEOREM ClientInvariance == Spec => []ClientInv
  BY InitClientInv, NextClientInv, PTL DEF Spec

-----------------------------------------------------------------------------
(* The results.                                                            *)

\* Whatever the groups and the mode, a freed client is used only after a read
\* has failed or a stop was asked for.
THEOREM FaultNeedsLoss == Spec => []NoFaultBeforeLoss
<1>1. ClientInv => NoFaultBeforeLoss
  BY DEF ClientInv, Healthy, NoFaultBeforeLoss
<1> QED
  BY <1>1, ClientInvariance, PTL

\* Whatever the groups and the mode, the process returns from main only if its
\* first connect has succeeded.
THEOREM ExitNeedsConnection == Spec => []CleanExitWasConnected
<1>1. ClientInv => CleanExitWasConnected
  BY DEF ClientInv, Unconnected, CleanExitWasConnected
<1> QED
  BY <1>1, ClientInvariance, PTL
-----------------------------------------------------------------------------
(* What a reconnect loses.                                                 *)

\* In opcua_server_connect, after GetEndpoints has reset the client.
Anew == {"connect", "hello", "channel", "endpoints", "session", "activate", "browse"}

\* The poll threads start after main has connected the client and has asked for
\* its subscription.
Begun ==
    pc[Main] \in Starting =>
        ~recovered /\ ~revived /\ lost = {} /\ \A g \in Groups : pc[g] = "idle"

\* A reset takes the subscription away, and nothing creates it again.
NoMoreEvents == recovered \/ (\E g \in Groups : pc[g] \in Anew) => ~client.subs

\* A lone poll thread that found the client CONNECTED and closed goes through a
\* service call that must fail to the deletion of the client.
Stuck ==
    \A g \in Groups : Groups = {g} =>
        /\ ~revived
        /\ g \in lost => \/ pc[g] = "ep_service" /\ client.conn = "CLOSED"
                         \/ pc[g] \in {"ep_bad", "delete"}
                         \/ pc[g] \in {"retry", "getEndpoints"} /\ ~alive

\* The inductive invariant.
ReconnectInv ==
    client \in Clients /\ pc \in [Threads -> Places] /\ Begun /\ NoMoreEvents /\ Stuck

\* The descriptors that are forgotten between two steps are not the client's state.
LEMMA Settling ==
  ASSUME NEW c \in Clients
  PROVE  /\ Settled(c) \in Clients
         /\ Settled(c).subs = c.subs /\ Settled(c).conn = c.conn
<1>1. 0 \in Fds
  BY MaxFdAssumption DEF Fds
<1> QED
  BY <1>1 DEF Settled, Clients

\* A step of a thread with the client in hand takes client and place from the
\* same outcome.
LEMMA AtOutcome ==
  ASSUME NEW t \in Threads, pc \in [Threads -> Places],
         NEW stage, NEW S, At(t, stage, S), \A x \in S : x.c \in Clients
  PROVE  \E x \in S : /\ x.c \in Clients
                      /\ client' \in Clients
                      /\ client'.subs = x.c.subs /\ client'.conn = x.c.conn
                      /\ pc'[t] = x.to /\ pc[t] = stage
<1>1. PICK x \in S : client' = Settled(x.c) /\ pc' = [pc EXCEPT ![t] = x.to] /\ pc[t] = stage
  BY DEF At, Goto
<1> QED
  BY <1>1, Settling

\* The outcome of a call gives the client as the call left it.
LEMMA OnOutcome ==
  ASSUME NEW S, NEW good, NEW bad, NEW x \in On(S, good, bad)
  PROVE  \E y \in S : x.c = y.c /\ x.to = IF y.r = "GOOD" THEN good ELSE bad
  BY DEF On

\* What is known of every outcome.
LEMMA ToOutcome ==
  ASSUME NEW C, NEW to, NEW x \in To(C, to)
  PROVE  x.c \in C /\ x.to = to
  BY DEF To

\* The end of a connect leaves the subscriptions as they are.
LEMMA ConnectedOutcome ==
  ASSUME NEW S, \A y \in S : y.c \in Clients, NEW x \in Connected(S)
  PROVE  x.c \in Clients /\ \E y \in S : x.c.subs = y.c.subs
<1>1. PICK y \in S : \/ x = Res([y.c EXCEPT !.conn = "ESTABLISHED", !.state = "CONNECTED"], "GOOD")
                     \/ x = y
  BY DEF Connected
<1>2. y.c \in Clients
  BY <1>1
<1>3. CASE x = Res([y.c EXCEPT !.conn = "ESTABLISHED", !.state = "CONNECTED"], "GOOD")
  BY <1>1, <1>2, <1>3 DEF Res, Clients, ConnStates, ClientStates
<1> QED
  BY <1>1, <1>2, <1>3

\* The beginning of a connect: the subscriptions are kept or taken away, and a
\* CONNECTED client is left as it is.
LEMMA OpenOutcome ==
  ASSUME NEW c \in Clients, NEW a, NEW b, NEW d, NEW x \in Open(c, a, b, d)
  PROVE  /\ x.c \in Clients /\ (~c.subs => ~x.c.subs)
         /\ c.state = "CONNECTED" => x.c = c /\ x.to = a
<1>1. CASE c.state = "CONNECTED"
  BY <1>1, ToOutcome DEF Open
<1>2. CASE c.state # "CONNECTED"
  <2>1. PICK e \in IF c.state = "ERRORED" THEN UA_Client_reset(c) ELSE {c} :
           \E o \in UA_ClientConnectionTCP(e) : x.c = o
    BY <1>2 DEF Open
  <2>2. e \in Clients /\ (~c.subs => ~e.subs)
    BY <2>1, Resetting
  <2> QED
    BY <1>2, <2>1, <2>2, OpeningTyped
<1> QED
  BY <1>1, <1>2

\* GetEndpoints ends with a reset.
LEMMA ShutOutcome ==
  ASSUME NEW c \in Clients, NEW d \in Shut(c)
  PROVE  d \in Clients /\ ~d.subs
  BY Disconnecting, Resetting DEF Shut, Kept

\* What a step of opcua_server_connect makes of the client.  A subscription does
\* not come back, and a thread that got beyond GetEndpoints has taken it away.
\* On a client that is CONNECTED and closed all goes wrong: it is found connected,
\* the service fails, and the client is deleted.
LEMMA ConnectClient ==
  ASSUME NEW t \in Threads, opcua_server_connect(t),
         client \in Clients, pc \in [Threads -> Places]
  PROVE  /\ client' \in Clients
         /\ ~client.subs => ~client'.subs
         /\ pc'[t] \in Anew => pc[t] \in Anew \/ ~client'.subs
         /\ pc[t] = "getEndpoints" /\ client.state = "CONNECTED" /\ client.conn = "CLOSED"
               => pc'[t] = "ep_service" /\ client'.conn = "CLOSED"
         /\ pc[t] = "ep_service" /\ client.conn = "CLOSED" => pc'[t] = "ep_bad"
         /\ pc[t] = "ep_bad" => pc'[t] = "delete"
         /\ pc[t] = "delete" => pc'[t] = "retry" /\ ~alive'
<1> DEFINE Goal == /\ client' \in Clients
                   /\ ~client.subs => ~client'.subs
                   /\ pc'[t] \in Anew => pc[t] \in Anew \/ ~client'.subs
                   /\ pc[t] = "getEndpoints" /\ client.state = "CONNECTED" /\ client.conn = "CLOSED"
                         => pc'[t] = "ep_service" /\ client'.conn = "CLOSED"
                   /\ pc[t] = "ep_service" /\ client.conn = "CLOSED" => pc'[t] = "ep_bad"
                   /\ pc[t] = "ep_bad" => pc'[t] = "delete"
                   /\ pc[t] = "delete" => pc'[t] = "retry" /\ ~alive'
<1> SUFFICES Goal
  OBVIOUS
<1>1. ASSUME NEW stage, NEW S, NEW good, NEW bad, At(t, stage, On(S, good, bad)),
             \A y \in S : y.c \in Clients /\ (~client.subs => ~y.c.subs),
             stage \notin {"getEndpoints", "ep_service", "ep_bad", "delete"},
             stage \notin Anew => good \notin Anew /\ bad \notin Anew
      PROVE  Goal
  <2>1. \A x \in On(S, good, bad) : /\ x.c \in Clients /\ x.to \in {good, bad}
                                    /\ ~client.subs => ~x.c.subs
    BY <1>1, OnOutcome
  <2> QED
    BY <1>1, <2>1, AtOutcome
<1>2. ASSUME NEW stage, NEW C, NEW place, At(t, stage, To(C, place)),
             \A c \in C : c \in Clients /\ ~c.subs,
             stage \notin {"getEndpoints", "ep_service", "delete"},
             stage = "ep_bad" => place = "delete"
      PROVE  Goal
  <2>1. \A x \in To(C, place) : x.c \in Clients /\ x.to = place /\ ~x.c.subs
    BY <1>2, ToOutcome
  <2> QED
    BY <1>2, <2>1, AtOutcome
<1>3. ASSUME At(t, "getEndpoints", Open(client, "ep_service", "ep_hello", "ep_failed"))
      PROVE  Goal
  <2>1. \A x \in Open(client, "ep_service", "ep_hello", "ep_failed") :
           /\ x.c \in Clients /\ (~client.subs => ~x.c.subs)
           /\ client.state = "CONNECTED" => x.c = client /\ x.to = "ep_service"
           /\ x.to \in {"ep_service", "ep_hello", "ep_failed"}
    BY OpenOutcome, OpenTargets
  <2> QED
    BY <1>3, <2>1, AtOutcome DEF Anew
<1>4. ASSUME At(t, "connect", Open(client, "browse", "hello", "failed"))
      PROVE  Goal
  <2>1. \A x \in Open(client, "browse", "hello", "failed") :
           x.c \in Clients /\ (~client.subs => ~x.c.subs)
    BY OpenOutcome
  <2> QED
    BY <1>4, <2>1, AtOutcome DEF Anew
<1>5. ASSUME At(t, "ep_service", On(UA_Client_Service(client), "ep_good", "ep_bad"))
      PROVE  Goal
  <2>1. \A x \in On(UA_Client_Service(client), "ep_good", "ep_bad") :
           /\ x.c \in Clients /\ x.c.subs = client.subs /\ x.to \in {"ep_good", "ep_bad"}
           /\ client.conn = "CLOSED" => x.to = "ep_bad"
    BY OnOutcome, Serving DEF Kept
  <2> QED
    BY <1>5, <2>1, AtOutcome DEF Anew
<1>6. CASE Free(t)
  <2>1. PICK x \in UA_Client_disconnect(client) : client' = Settled(x.c)
    BY <1>6 DEF Free, UA_Client_deleteMembers
  <2>2. x.c \in Clients /\ x.c.subs = client.subs
    BY Disconnecting DEF Kept
  <2>3. client' \in Clients /\ client'.subs = client.subs
    BY <2>1, <2>2, Settling
  <2> QED
    BY <1>6, <2>3 DEF Free, Goto, Anew
<1> HIDE DEF Goal
<1>7. CASE At(t, "ep_hello", On(HelAckHandshake(client), "ep_channel", "ep_failed"))
  BY <1>1, <1>7, HelAck DEF Kept, Anew
<1>8. CASE At(t, "ep_channel",
              On(Connected(SecureChannelHandshake(client, FALSE)), "ep_service", "ep_failed"))
  <2>1. \A y \in SecureChannelHandshake(client, FALSE) : y.c \in Clients /\ y.c.subs = client.subs
    BY Handshake DEF Kept
  <2> DEFINE S == Connected(SecureChannelHandshake(client, FALSE))
  <2>2. \A y \in S : y.c \in Clients /\ y.c.subs = client.subs
    BY <2>1, ConnectedOutcome
  <2>3. At(t, "ep_channel", On(S, "ep_service", "ep_failed"))
    BY <1>8
  <2> HIDE DEF S
  <2> QED
    BY <1>1, <2>2, <2>3 DEF Anew
<1>9. CASE At(t, "ep_failed", To(UA_Client_reset(client), "ep_bad"))
  BY <1>2, <1>9, Resetting
<1>10. CASE At(t, "ep_good", To(Shut(client), "connect"))
  BY <1>2, <1>10, ShutOutcome
<1>11. CASE At(t, "ep_bad", To(Shut(client), "delete"))
  BY <1>2, <1>11, ShutOutcome
<1>12. CASE At(t, "hello", On(HelAckHandshake(client), "channel", "failed"))
  BY <1>1, <1>12, HelAck DEF Kept, Anew
<1>13. CASE At(t, "channel",
               On(SecureChannelHandshake(client, FALSE), "endpoints", "failed"))
  <2> DEFINE S == SecureChannelHandshake(client, FALSE)
  <2>1. \A y \in S : y.c \in Clients /\ y.c.subs = client.subs
    BY Handshake DEF Kept
  <2>2. At(t, "channel", On(S, "endpoints", "failed"))
    BY <1>13
  <2> HIDE DEF S
  <2> QED
    BY <1>1, <2>1, <2>2 DEF Anew
<1>14. CASE At(t, "endpoints", On(EndpointsHandshake(client), "session", "failed"))
  BY <1>1, <1>14, Endpoints DEF Kept, Anew
<1>15. CASE At(t, "session", On(SessionHandshake(client), "activate", "failed"))
  BY <1>1, <1>15, Session DEF Anew
<1>16. CASE At(t, "activate", On(Connected(UA_Client_Service(client)), "browse", "failed"))
  <2>1. \A y \in UA_Client_Service(client) : y.c \in Clients /\ y.c.subs = client.subs
    BY Serving DEF Kept
  <2>2. \A y \in Connected(UA_Client_Service(client)) : y.c \in Clients /\ y.c.subs = client.subs
    BY <2>1, ConnectedOutcome
  <2> QED
    BY <1>1, <1>16, <2>2 DEF Anew
<1>17. CASE At(t, "failed", To(UA_Client_reset(client), "delete"))
  BY <1>2, <1>17, Resetting
<1> QED
  BY <1>3, <1>4, <1>5, <1>6, <1>7, <1>8, <1>9, <1>10, <1>11, <1>12, <1>13, <1>14, <1>15,
     <1>16, <1>17 DEF opcua_server_connect

\* In the initial state nothing is connected and no poll thread runs.
LEMMA InitReconnectInv == Init => ReconnectInv
<1> SUFFICES ASSUME Init
             PROVE  ReconnectInv
  OBVIOUS
<1>1. 0 \in Fds
  BY MaxFdAssumption DEF Fds
<1>2. client \in Clients
  BY <1>1 DEF Init, Clients, ClientStates, ConnStates
<1>3. pc \in [Threads -> Places]
  BY DEF Init, Places
<1>4. Begun /\ NoMoreEvents /\ Stuck
  BY BridgeAssumption DEF Init, Begun, NoMoreEvents, Stuck, Threads, Anew
<1> QED
  BY <1>2, <1>3, <1>4 DEF ReconnectInv

\* A step of main after the start of the poll threads that does not bring the
\* subscription back, open the connection, or allocate the client.
LEMMA MainPasses ==
  ASSUME ReconnectInv, NEW to \in Places \ Starting, pc' = [pc EXCEPT ![Main] = to],
         pc[Main] \notin Starting, UNCHANGED histories,
         client' \in Clients, ~client.subs => ~client'.subs,
         client.conn = "CLOSED" => client'.conn = "CLOSED", ~alive => ~alive'
  PROVE  ReconnectInv'
<1>1. Main \in Threads /\ Main \notin Groups /\ Groups \subseteq Threads
  BY BridgeAssumption DEF Threads
<1>2. pc' \in [Threads -> Places] /\ pc'[Main] \notin Starting /\ \A g \in Groups : pc'[g] = pc[g]
  BY <1>1 DEF ReconnectInv
<1>3. Begun'
  BY <1>2 DEF Begun
<1>4. NoMoreEvents' /\ Stuck'
  BY <1>2 DEF ReconnectInv, NoMoreEvents, Stuck, histories
<1> QED
  BY <1>2, <1>3, <1>4 DEF ReconnectInv

\* A step of main before it.
LEMMA MainStarts ==
  ASSUME ReconnectInv, NEW to \in Places, pc' = [pc EXCEPT ![Main] = to],
         pc[Main] \in Starting, UNCHANGED <<lost, recovered, revived>>, client' \in Clients
  PROVE  ReconnectInv'
<1>1. Main \in Threads /\ Main \notin Groups /\ Groups \subseteq Threads
  BY BridgeAssumption DEF Threads
<1>2. pc' \in [Threads -> Places] /\ \A g \in Groups : pc'[g] = pc[g]
  BY <1>1 DEF ReconnectInv
<1> QED
  BY <1>2 DEF ReconnectInv, Begun, NoMoreEvents, Stuck, Anew

\* Every step of main keeps the invariant.
LEMMA MainReconnects == ReconnectInv /\ MainStep => ReconnectInv'
<1> SUFFICES ASSUME ReconnectInv, MainStep
             PROVE  ReconnectInv'
  OBVIOUS
<1>1. /\ client \in Clients /\ pc \in [Threads -> Places]
      /\ Main \in Threads
  BY DEF ReconnectInv, Threads
<1>2. CASE NewClient
  BY <1>1, <1>2, Initializing, MainStarts
     DEF NewClient, Goto, histories, Starting, Places, Stages, ConnectStages
<1>3. CASE RetryMain
  BY <1>1, <1>3, MainStarts DEF RetryMain, Goto, histories, Starting, Places, Stages, ConnectStages
<1>4. CASE ConnectMain
  <2>1. /\ opcua_server_connect(Main) /\ UNCHANGED histories
        /\ pc[Main] \in Starting
        /\ \E to \in Places : pc' = [pc EXCEPT ![Main] = to]
    BY <1>4, ConnectMoves DEF ConnectMain, Places, Stages, ConnectStages, Starting
  <2>2. client' \in Clients
    BY <1>1, <2>1, ConnectClient
  <2> QED
    BY <2>1, <2>2, MainStarts DEF histories
<1>5. CASE BrowseMain
  <2> DEFINE to == IF Events THEN "monitor" ELSE "spawn"
             S == To(opcua_server_browse(client), to)
  <2>1. At(Main, "browse", S) /\ UNCHANGED <<lost, recovered, revived>> /\ to \in Places
    BY <1>5 DEF BrowseMain, Places, Stages
  <2>2. \A x \in S : x.c \in Clients /\ x.to = to
    BY <1>1, ToOutcome, Serving DEF opcua_server_browse, Kept
  <2> HIDE DEF S, to
  <2>3. client' \in Clients /\ pc[Main] = "browse" /\ pc' = [pc EXCEPT ![Main] = to]
    BY <1>1, <2>1, <2>2, AtMoves, AtOutcome
  <2> QED
    BY <2>1, <2>3, MainStarts DEF Starting, ConnectStages
<1>6. CASE SkipMonitor
  BY <1>1, <1>6, MainStarts DEF SkipMonitor, Goto, histories, Starting, Places, Stages
<1>7. CASE monitor_start
  <2> DEFINE C == {x.c : x \in UA_Client_Subscriptions_new(client)}
             D == {client} \cup (IF client.subs THEN {x.c : x \in UA_Client_Service(client)}
                                                ELSE {})
  <2>1. /\ \/ At(Main, "monitor", To(C, "items"))
           \/ At(Main, "items", To(D, "spawn"))
        /\ UNCHANGED histories
    BY <1>7 DEF monitor_start
  <2>2. \A c \in C \cup D : c \in Clients
    <3>1. \A x \in UA_Client_Subscriptions_new(client) : x.c \in Clients
      BY <1>1, Subscribing
    <3>2. \A x \in UA_Client_Service(client) : x.c \in Clients
      BY <1>1, Serving DEF Kept
    <3> QED
      BY <1>1, <3>1, <3>2
  <2> HIDE DEF C, D
  <2>3. /\ \A x \in To(C, "items") : x.c \in Clients /\ x.to = "items"
        /\ \A x \in To(D, "spawn") : x.c \in Clients /\ x.to = "spawn"
    BY <2>2, ToOutcome
  <2>4. /\ client' \in Clients /\ pc[Main] \in {"monitor", "items"}
        /\ \E to \in {"items", "spawn"} : pc' = [pc EXCEPT ![Main] = to]
    BY <1>1, <2>1, <2>3, AtMoves, AtOutcome
  <2> QED
    BY <2>1, <2>4, MainStarts DEF Starting, Places, Stages, histories
<1>8. CASE Spawn
  <2>1. /\ pc' = [t \in Threads |-> IF t = Main THEN "loop" ELSE IF Polls THEN "read" ELSE "idle"]
        /\ pc[Main] \in Starting /\ UNCHANGED <<client, histories>>
    BY <1>8 DEF Spawn, Starting
  <2>2. /\ pc' \in [Threads -> Places] /\ pc'[Main] \notin Starting
        /\ \A g \in Groups : pc'[g] \in {"read", "idle"}
    BY <1>1, <2>1, BridgeAssumption DEF Threads, Places, Stages, Starting, ConnectStages
  <2> QED
    BY <2>1, <2>2 DEF ReconnectInv, Begun, NoMoreEvents, Stuck, Anew, histories
<1>9. CASE Wake
  BY <1>1, <1>9, MainPasses DEF Wake, Goto, Starting, Places, Stages, ConnectStages
<1>10. CASE Publish
  <2> DEFINE S == IF client.state = "ERRORED" THEN To({client}, "loop") ELSE PublishExchange(client)
             C == {x.c : x \in UA_Client_Service(client)}
             OK(x) == Kept(client, x.c) /\ x.c \in Clients /\ x.to \in {"loop", "more"}
  <2>1. UNCHANGED histories
    BY <1>10 DEF Publish
  <2>2. PICK stage \in {"publish", "more"} : At(Main, stage, S) \/ At(Main, stage, PublishExchange(client))
    BY <1>10 DEF Publish
  <2>3. \A c \in C : Kept(client, c)
    BY <1>1, Serving
  <2>4. \A x \in PublishExchange(client) : OK(x)
    <3>1. ASSUME NEW x \in To(C, "loop") PROVE OK(x)
      <4> HIDE DEF C
      <4> QED
        BY <2>3, <3>1, ToOutcome DEF Kept
    <3>2. ASSUME NEW x \in On(UA_Client_Service(client), "more", "loop") PROVE OK(x)
      BY <1>1, OnOutcome, Serving DEF Kept
    <3> QED
      BY <3>1, <3>2 DEF PublishExchange
  <2>5. \A x \in S : OK(x)
    <3>1. Kept(client, client)
      BY <1>1 DEF Kept
    <3>2. ASSUME NEW x \in To({client}, "loop") PROVE OK(x)
      BY <1>1, <3>1, ToOutcome
    <3> QED
      BY <2>4, <3>2
  <2> HIDE DEF S, C
  <2>6. /\ client' \in Clients /\ client'.subs = client.subs
        /\ client.conn = "CLOSED" => client'.conn = "CLOSED"
        /\ pc[Main] \in {"publish", "more"} /\ alive' = alive
        /\ \E q \in {"loop", "more"} : pc' = [pc EXCEPT ![Main] = q]
    <3>1. ASSUME NEW T, \A x \in T : OK(x), At(Main, stage, T)
          PROVE  /\ client' \in Clients /\ client'.subs = client.subs
                 /\ client.conn = "CLOSED" => client'.conn = "CLOSED"
                 /\ pc[Main] \in {"publish", "more"} /\ alive' = alive
                 /\ \E q \in {"loop", "more"} : pc' = [pc EXCEPT ![Main] = q]
      BY <1>1, <3>1, AtMoves, AtOutcome DEF Kept
    <3> QED
      BY <2>2, <2>4, <2>5, <3>1
  <2> QED
    BY <2>1, <2>6, MainPasses DEF Starting, Places, Stages, ConnectStages
<1>11. CASE Cancel
  <2>1. CASE pc' = [pc EXCEPT ![Main] = "disconnect"]
    BY <1>1, <1>11, <2>1, MainPasses DEF Cancel, Starting, Places, Stages, ConnectStages
  <2>2. CASE UNCHANGED pc
    BY <1>11, <2>2 DEF Cancel, ReconnectInv, Begun, NoMoreEvents, Stuck, histories
  <2> QED
    BY <1>11, <2>1, <2>2 DEF Cancel, Goto
<1>12. CASE Disconnect
  <2> DEFINE C == {x.c : x \in UA_Client_disconnect(client)}
  <2>1. At(Main, "disconnect", To(C, "exit")) /\ UNCHANGED histories
    BY <1>12 DEF Disconnect
  <2>2. \A c \in C : Kept(client, c)
    BY <1>1, Disconnecting
  <2> HIDE DEF C
  <2>3. \A x \in To(C, "exit") : Kept(client, x.c) /\ x.c \in Clients /\ x.to = "exit"
    BY <2>2, ToOutcome DEF Kept
  <2>4. /\ client' \in Clients /\ client'.subs = client.subs
        /\ client.conn = "CLOSED" => client'.conn = "CLOSED"
        /\ pc[Main] = "disconnect" /\ alive' = alive /\ pc' = [pc EXCEPT ![Main] = "exit"]
    BY <1>1, <2>1, <2>3, AtMoves, AtOutcome DEF Kept
  <2> QED
    BY <2>1, <2>4, MainPasses DEF Starting, Places, Stages, ConnectStages
<1>13. CASE Delete
  <2>1. PICK x \in UA_Client_disconnect(client) : client' = Settled(x.c)
    BY <1>13 DEF Delete, UA_Client_deleteMembers
  <2>2. Kept(client, x.c)
    BY <1>1, Disconnecting
  <2>3. /\ client' \in Clients /\ client'.subs = client.subs
        /\ client.conn = "CLOSED" => client'.conn = "CLOSED"
    BY <2>1, <2>2, Settling DEF Kept
  <2> QED
    BY <1>13, <2>3, MainPasses DEF Delete, Goto, Starting, Places, Stages, ConnectStages
<1>14. CASE Return
  BY <1>1, <1>14, MainPasses DEF Return, Goto, Starting, Places, Stages, ConnectStages
<1>15. CASE UseFreed(Main) /\ UNCHANGED histories
  BY <1>15 DEF UseFreed, ReconnectInv, Begun, NoMoreEvents, Stuck, histories
<1> QED
  BY <1>2, <1>3, <1>4, <1>5, <1>6, <1>7, <1>8, <1>9, <1>10, <1>11, <1>12, <1>13, <1>14, <1>15
     DEF MainStep

\* A step of a poll thread that does not bring the subscription back; only after
\* GetEndpoints has taken it away can the thread have reconnected.
LEMMA PollPasses ==
  ASSUME NEW g \in Groups, ReconnectInv, pc[g] # "idle",
         \E to \in Places : pc' = [pc EXCEPT ![g] = to],
         client' \in Clients, ~client.subs => ~client'.subs,
         recovered' = recovered \/ pc[g] \in Anew,
         pc'[g] \in Anew => pc[g] \in Anew \/ ~client'.subs,
         Stuck'
  PROVE  ReconnectInv'
<1>1. g \in Threads /\ Main \in Threads /\ g # Main /\ pc \in [Threads -> Places]
  BY BridgeAssumption DEF ReconnectInv, Threads
<1>2. /\ pc' \in [Threads -> Places] /\ pc'[Main] = pc[Main]
      /\ \A h \in Groups : h # g => pc'[h] = pc[h]
  BY <1>1
<1>3. pc[Main] \notin Starting
  BY DEF ReconnectInv, Begun
<1>4. Begun'
  BY <1>2, <1>3 DEF Begun
<1>5. NoMoreEvents'
  <2>1. CASE recovered' = recovered
    BY <1>2, <2>1 DEF ReconnectInv, NoMoreEvents
  <2>2. CASE pc[g] \in Anew
    BY <2>2 DEF ReconnectInv, NoMoreEvents
  <2> QED
    BY <2>1, <2>2
<1> QED
  BY <1>2, <1>4, <1>5 DEF ReconnectInv

\* Every step of a poll thread keeps the invariant.
LEMMA PollReconnects ==
  ASSUME NEW g \in Groups, ReconnectInv, PollStep(g)
  PROVE  ReconnectInv'
<1>1. /\ client \in Clients /\ pc \in [Threads -> Places]
      /\ g \in Threads /\ Main \in Threads /\ g # Main
  BY BridgeAssumption DEF ReconnectInv, Threads
<1>2. CASE Read(g)
  <2> DEFINE P == {"read", "rest", "getEndpoints"}
             S == On(UA_Client_Service(client), "read", "getEndpoints")
                  \cup On(UA_Client_Service(client), "rest", "getEndpoints")
                  \cup On(UA_Client_Service(client), "getEndpoints", "getEndpoints")
  <2>1. At(g, "read", S) /\ UNCHANGED <<lost, recovered, revived>>
    BY <1>2 DEF Read
  <2>2. \A x \in S : x.c \in Clients /\ x.c.subs = client.subs /\ x.to \in P
    BY <1>1, OnOutcome, Serving DEF Kept
  <2> HIDE DEF S
  <2>3. /\ client' \in Clients /\ client'.subs = client.subs /\ pc[g] = "read" /\ alive
        /\ \E to \in P : pc' = [pc EXCEPT ![g] = to]
    BY <1>1, <2>1, <2>2, AtMoves, AtOutcome
  <2>4. Stuck'
    BY <2>1, <2>3 DEF ReconnectInv, Stuck
  <2>5. \E to \in Places : pc' = [pc EXCEPT ![g] = to]
    BY <2>3 DEF Places, Stages, ConnectStages
  <2> QED
    BY <1>1, PollPasses, <2>1, <2>3, <2>4, <2>5 DEF Anew
<1>3. CASE ConnectPoll(g)
  <2>1. /\ opcua_server_connect(g) /\ UNCHANGED <<recovered, revived>>
        /\ lost' = IF pc[g] # "getEndpoints" THEN lost
                   ELSE IF client.state = "CONNECTED" /\ client.conn = "CLOSED"
                        THEN lost \cup {g} ELSE lost \ {g}
    BY <1>3 DEF ConnectPoll
  <2>2. /\ alive /\ pc[g] \in ConnectStages \ {"browse"}
        /\ \E to \in Places : pc' = [pc EXCEPT ![g] = to]
    BY <2>1, ConnectMoves DEF Places, Stages, ConnectStages
  <2>3. /\ client' \in Clients
        /\ ~client.subs => ~client'.subs
        /\ pc'[g] \in Anew => pc[g] \in Anew \/ ~client'.subs
        /\ pc[g] = "getEndpoints" /\ client.state = "CONNECTED" /\ client.conn = "CLOSED"
               => pc'[g] = "ep_service" /\ client'.conn = "CLOSED"
        /\ pc[g] = "ep_service" /\ client.conn = "CLOSED" => pc'[g] = "ep_bad"
        /\ pc[g] = "ep_bad" => pc'[g] = "delete"
        /\ pc[g] = "delete" => pc'[g] = "retry" /\ ~alive'
    BY <1>1, <2>1, ConnectClient
  <2>4. Stuck'
    BY <2>1, <2>2, <2>3 DEF ReconnectInv, Stuck
  <2>5. pc[g] # "idle"
    BY <2>2 DEF ConnectStages
  <2> QED
    BY PollPasses, <2>1, <2>2, <2>3, <2>4, <2>5
<1>4. CASE RetryPoll(g)
  <2>1. /\ pc' = [pc EXCEPT ![g] = "getEndpoints"] /\ pc[g] = "retry"
        /\ UNCHANGED <<client, alive, lost, recovered, revived>>
    BY <1>4 DEF RetryPoll, Goto, histories
  <2>2. Stuck'
    BY <1>1, <2>1 DEF ReconnectInv, Stuck
  <2>3. \E to \in Places : pc' = [pc EXCEPT ![g] = to]
    BY <2>1 DEF Places, Stages, ConnectStages
  <2> QED
    BY <1>1, PollPasses, <2>1, <2>2, <2>3 DEF Anew
<1>5. CASE BrowsePoll(g)
  <2> DEFINE P == {"read", "rest"}
             S == UNION {To(opcua_server_browse(client), to) : to \in {"read", "rest"}}
  <2>1. /\ At(g, "browse", S) /\ recovered' = TRUE /\ revived' = (revived \/ g \in lost)
        /\ lost' = lost
    BY <1>5 DEF BrowsePoll
  <2>2. \A x \in S : x.c \in Clients /\ x.c.subs = client.subs /\ x.to \in P
    <3>1. \A c \in opcua_server_browse(client) : c \in Clients /\ c.subs = client.subs
      BY <1>1, Serving DEF opcua_server_browse, Kept
    <3> QED
      BY <3>1, ToOutcome
  <2> HIDE DEF S
  <2>3. /\ client' \in Clients /\ client'.subs = client.subs /\ pc[g] = "browse" /\ alive
        /\ \E to \in P : pc' = [pc EXCEPT ![g] = to]
    BY <1>1, <2>1, <2>2, AtMoves, AtOutcome
  <2>4. Stuck'
    BY <2>1, <2>3 DEF ReconnectInv, Stuck
  <2>5. \E to \in Places : pc' = [pc EXCEPT ![g] = to]
    BY <2>3 DEF Places, Stages
  <2> QED
    BY <1>1, PollPasses, <2>1, <2>3, <2>4, <2>5 DEF Anew
<1>6. CASE Rest(g)
  <2>1. /\ pc[g] = "rest" /\ \E to \in {"ended", "read"} : pc' = [pc EXCEPT ![g] = to]
        /\ UNCHANGED <<client, alive, lost, recovered, revived>>
    BY <1>6 DEF Rest, Goto, histories
  <2>2. Stuck'
    BY <1>1, <2>1 DEF ReconnectInv, Stuck
  <2>3. \E to \in Places : pc' = [pc EXCEPT ![g] = to]
    BY <2>1 DEF Places, Stages
  <2> QED
    BY <1>1, PollPasses, <2>1, <2>2, <2>3 DEF Anew
<1>7. CASE UseFreed(g) /\ UNCHANGED histories
  BY <1>7 DEF UseFreed, ReconnectInv, Begun, NoMoreEvents, Stuck, histories
<1> QED
  BY <1>2, <1>3, <1>4, <1>5, <1>6, <1>7 DEF PollStep

\* The invariant is inductive.
LEMMA NextReconnectInv == ReconnectInv /\ [Next]_vars => ReconnectInv'
<1> SUFFICES ASSUME ReconnectInv, [Next]_vars
             PROVE  ReconnectInv'
  OBVIOUS
<1>1. CASE MainStep
  BY <1>1, MainReconnects
<1>2. CASE \E g \in Groups : PollStep(g)
  BY <1>2, PollReconnects
<1>3. CASE signal_finish
  BY <1>3 DEF signal_finish, ReconnectInv, Begun, NoMoreEvents, Stuck, histories
<1>4. CASE TokenAges
  <2>1. /\ client' \in Clients /\ client'.subs = client.subs /\ client'.conn = client.conn
        /\ UNCHANGED <<alive, pc, lost, recovered, revived>>
    BY <1>4 DEF TokenAges, ReconnectInv, Clients, histories
  <2> QED
    BY <2>1 DEF ReconnectInv, Begun, NoMoreEvents, Stuck
<1>5. CASE UNCHANGED vars
  BY <1>5 DEF vars, ReconnectInv, Begun, NoMoreEvents, Stuck, histories
<1> QED
  BY <1>1, <1>2, <1>3, <1>4, <1>5 DEF Next, Terminated

\* The inductive invariant holds in every reachable state.
THEOREM ReconnectInvariance == Spec => []ReconnectInv
  BY InitReconnectInv, NextReconnectInv, PTL DEF Spec

\* Whatever the groups and the mode: once a poll thread has reconnected there is
\* no subscription, and a lone poll thread never gets a client back that it found
\* CONNECTED with its connection closed.
THEOREM ReconnectIsLossy == Spec => []ReconnectLoses
<1>1. ReconnectInv => EventsEndWithReconnect
  BY DEF ReconnectInv, NoMoreEvents, EventsEndWithReconnect
<1>2. ReconnectInv => LostIsNotRecovered
  <2> SUFFICES ASSUME ReconnectInv, Cardinality(Groups) = 1
               PROVE  ~revived
    BY DEF LostIsNotRecovered
  <2>1. PICK g : Groups = {g}
    BY BridgeAssumption, FS_Singleton
  <2> QED
    BY <2>1 DEF ReconnectInv, Stuck
<1> QED
  BY <1>1, <1>2, ReconnectInvariance, PTL DEF ReconnectLoses

-----------------------------------------------------------------------------
(* Records: what a round of reads makes of a record.                       *)

\* An element more.
LEMMA OneMore ==
  ASSUME NEW s, s \in Seq(ToSet(s)), NEW e
  PROVE  /\ Len(s) \in Nat /\ Append(s, e) \in Seq(ToSet(Append(s, e)))
         /\ Len(Append(s, e)) = Len(s) + 1 /\ Append(s, e)[Len(s) + 1] = e
         /\ \A k \in 1 .. Len(s) : Append(s, e)[k] = s[k]
         /\ ToSet(Append(s, e)) = ToSet(s) \cup {e}
<1> DEFINE S == ToSet(s) \cup {e}
           t == Append(s, e)
           n == Len(s)
<1>1. s \in Seq(S) /\ e \in S /\ n \in Nat
  <2>1. \A k \in 1 .. Len(s) : s[k] \in S
    BY DEF ToSet
  <2> QED
    BY <2>1
<1>2. DOMAIN s = 1 .. n
  OBVIOUS
<1> HIDE DEF S
<1>3. t \in Seq(S) /\ Len(t) = n + 1 /\ t[n+1] = e /\ \A k \in 1 .. n : t[k] = s[k]
  BY <1>1
<1>4. DOMAIN t = 1 .. (n + 1)
  BY <1>3
<1> HIDE DEF t, n
<1>5. \A k \in 1 .. (n+1) : k \in 1 .. n \/ k = n + 1
  BY <1>1
<1>6. ToSet(t) = ToSet(s) \cup {e}
  <2>1. \A k \in 1 .. n : k \in 1 .. (n+1)
    BY <1>1
  <2>2. n + 1 \in 1 .. (n+1)
    BY <1>1
  <2> QED
    BY <1>2, <1>3, <1>4, <1>5, <2>1, <2>2 DEF ToSet
<1>7. t \in Seq(ToSet(t))
  <2>1. \A k \in 1 .. Len(t) : t[k] \in ToSet(t)
    BY <1>3, <1>4 DEF ToSet
  <2> QED
    BY <1>3, <2>1
<1> QED
  BY <1>1, <1>3, <1>6, <1>7 DEF t, n

\* The values a round may add, and the objects made of them.
Pairs(ns, seen) == [alias : {ns[e.k].alias : e \in ToSet(seen)}, v : {Published(e.s) : e \in ToSet(seen)}]

\* Adding a value to an object of such values.
LEMMA AddsTyped ==
  ASSUME NEW ns, NEW seen, NEW e \in ToSet(seen), NEW o \in Seq(Pairs(ns, seen))
  PROVE  Adds(o, ns, e) \in Seq(Pairs(ns, seen))
<1> DEFINE P == Pairs(ns, seen)
           a == ns[e.k].alias
           v == Published(e.s)
           new == [alias |-> a, v |-> v]
<1>1. new \in P
  BY DEF Pairs
<1> HIDE DEF a, v, P
<1>2. CASE ~HasAlias(o, a)
  BY <1>1, <1>2 DEF Adds, WithMember, a, v, P
<1>3. CASE HasAlias(o, a)
  <2> DEFINE w == [k \in DOMAIN o |-> IF o[k].alias = a THEN new ELSE o[k]]
  <2>1. w \in Seq(P)
    BY <1>1 DEF P
  <2> HIDE DEF w
  <2>2. WithMember(o, a, v) = w
    BY <1>3 DEF WithMember, w
  <2> HIDE DEF new
  <2>3. Adds(o, ns, e) = w \/ Adds(o, ns, e) = o
    BY <2>2 DEF Adds, a, v
  <2> QED
    BY <2>1, <2>3 DEF P
<1> QED
  BY <1>2, <1>3

\* The loop over the values read.
LEMMA MembersRun ==
  ASSUME NEW ns, NEW seen, seen \in Seq(ToSet(seen))
  PROVE  \E g : /\ g[0] = <<>> /\ \A k \in 1 .. Len(seen) : g[k] = Adds(g[k-1], ns, seen[k])
                /\ MembersOf(ns, seen) = g[Len(seen)]
<1> DEFINE n == Len(seen)
           S == Seq(Pairs(ns, seen))
           body(k, t) == Adds(t, ns, seen[k])
           Runs(g) == g = [k \in 0..n |-> IF k = 0 THEN <<>> ELSE body(k, g[k-1])]
           after == CHOOSE g : Runs(g)
           F == [k \in 1..n |-> [t \in S |-> body(k, t)]]
<1>1. n \in Nat /\ \A k \in 1..n : seen[k] \in ToSet(seen)
  OBVIOUS
<1>2. MembersOf(ns, seen) = after[n]
  BY DEF MembersOf
<1>3. \A k \in 1..n : \A t \in S : body(k, t) \in S
  BY <1>1, AddsTyped
<1>4. <<>> \in S
  OBVIOUS
<1> HIDE DEF S, n, body
<1>5. \E g : Computes(g, n, S, <<>>, F)
  <2>1. F \in Bodies(n, S)
    BY <1>3 DEF Bodies
  <2> HIDE DEF F
  <2> QED
    BY <1>1, <1>4, <2>1, Looped
<1>6. \E g \in [0..n -> S] : Runs(g)
  <2>1. PICK g : Computes(g, n, S, <<>>, F)
    BY <1>5
  <2>2. g \in [0..n -> S] /\ g[0] = <<>>
    BY <2>1 DEF Computes
  <2>3. ASSUME NEW k \in 1..n PROVE g[k] = body(k, g[k-1])
    <3>1. k - 1 \in 0..n
      BY <1>1
    <3>2. g[k-1] \in S
      BY <2>2, <3>1
    <3>3. g[k] = F[k][g[k-1]]
      BY <2>1 DEF Computes
    <3> QED
      BY <3>2, <3>3
  <2>4. \A k \in 0..n : k = 0 \/ k \in 1..n
    BY <1>1
  <2> QED
    BY <2>2, <2>3, <2>4
<1>7. Runs(after)
  BY <1>6
<1> HIDE DEF after
<1>8. after[0] = <<>> /\ \A k \in 1..n : after[k] = body(k, after[k-1])
  <2>1. 0 \in 0..n /\ \A k \in 1..n : k \in 0..n /\ k # 0
    BY <1>1
  <2> QED
    BY <1>7, <2>1
<1> QED
  BY <1>2, <1>8 DEF body, n

\* Before the first read.
LEMMA MembersNone == \A ns : MembersOf(ns, <<>>) = <<>>
<1> SUFFICES ASSUME NEW ns PROVE MembersOf(ns, <<>>) = <<>>
  OBVIOUS
<1> DEFINE none == <<>>
<1>1. none \in Seq(ToSet(none)) /\ Len(none) = 0
  OBVIOUS
<1>2. none = <<>>
  OBVIOUS
<1> HIDE DEF none
<1>3. PICK g : g[0] = <<>> /\ MembersOf(ns, none) = g[Len(none)]
  BY <1>1, MembersRun
<1> QED
  BY <1>1, <1>2, <1>3

\* A value more adds to what the values before it have made.
LEMMA MembersGrow ==
  ASSUME NEW ns, NEW seen, seen \in Seq(ToSet(seen)), NEW e
  PROVE  MembersOf(ns, Append(seen, e)) = Adds(MembersOf(ns, seen), ns, e)
<1> DEFINE n == Len(seen)
           s2 == Append(seen, e)
<1>1. n \in Nat /\ s2 \in Seq(ToSet(s2)) /\ Len(s2) = n + 1 /\ s2[n+1] = e /\ \A k \in 1 .. n : s2[k] = seen[k]
  BY OneMore
<1>2. PICK f : f[0] = <<>> /\ (\A k \in 1 .. n : f[k] = Adds(f[k-1], ns, seen[k])) /\ MembersOf(ns, seen) = f[n]
  BY MembersRun
<1>3. PICK g : g[0] = <<>> /\ (\A k \in 1 .. Len(s2) : g[k] = Adds(g[k-1], ns, s2[k])) /\ MembersOf(ns, s2) = g[Len(s2)]
  BY <1>1, MembersRun
<1> HIDE DEF n, s2
<1> DEFINE P == {k \in 0 .. n : f[k] = g[k]}
<1>4. 0 \in P /\ \A k \in 1 .. n : k - 1 \in P => k \in P
  <2>1. \A k \in 1 .. n : k \in 1 .. (n+1) /\ k \in 0 .. n
    BY <1>1
  <2>2. 0 \in 0 .. n
    BY <1>1
  <2> QED
    BY <1>1, <1>2, <1>3, <2>1, <2>2
<1>5. n \in P
  <2>1. P \in SUBSET (0 .. n)
    OBVIOUS
  <2> HIDE DEF P
  <2>2. P = 0 .. n
    BY <1>1, <1>4, <2>1, UpTo
  <2> QED
    BY <1>1, <2>2
<1>6. f[n] = g[n]
  BY <1>5
<1>7. g[n+1] = Adds(g[n], ns, e)
  <2>1. n + 1 \in 1 .. (n+1) /\ (n + 1) - 1 = n
    BY <1>1
  <2> QED
    BY <1>1, <1>3, <2>1
<1> QED
  BY <1>1, <1>2, <1>3, <1>6, <1>7 DEF s2

\* A poll thread that is in the middle of a round has put together what it has read.
Gathered(g) ==
  LET t == thread[g] IN
  /\ t = [pc |-> t.pc, k |-> t.k, jobj |-> t.jobj, kvs |-> t.kvs, round |-> t.round, seen |-> t.seen]
  /\ t.seen \in Seq(ToSet(t.seen)) /\ t.kvs \in Seq(ToSet(t.kvs))
  /\ t.jobj = MembersOf(groups[g].nodes, t.seen)

\* Nobody else polls.
Alone(g) == \A h \in PollGroups : h = g

\* What is in the shared buffers is its own then.
Undisturbed(g) ==
  LET t == thread[g] IN
  /\ t.pc = "publish" => topic = g
  /\ IF t.pc = "copy"
     THEN skv.by = g /\ ToSet(t.kvs) \cup {skv.text} = TextsOf(groups[g].nodes, t.seen)
     ELSE ToSet(t.kvs) = TextsOf(groups[g].nodes, t.seen)

Polling ==
  /\ DOMAIN thread = PollGroups /\ IsFiniteSet(PollGroups)
  /\ \A g \in PollGroups : Gathered(g) /\ (Alone(g) => Undisturbed(g))

RecordsInv ==
  /\ document \in Documents
  /\ phase # "running" => delivered = Nothing
  /\ phase = "running" => Polling
  /\ RecordsOwn

\* One thread is a thread alone.
LEMMA OneIsAlone ==
  ASSUME IsFiniteSet(PollGroups), Cardinality(PollGroups) = 1, NEW g \in PollGroups
  PROVE  Alone(g)
  BY FS_Singleton DEF Alone

\* Every behaviour begins without a record.
LEMMA RecordsStart == RecordsInit => RecordsInv
<1> SUFFICES ASSUME RecordsInit PROVE RecordsInv
  OBVIOUS
<1>1. delivered = Nothing /\ delivered.from = "none" /\ phase = "start" /\ document \in Documents
  BY DEF RecordsInit, Nothing
<1> QED
  BY <1>1 DEF RecordsInv, RecordsOwn

\* Loading makes the threads, each at its beginning.
LEMMA ConfigKeeps ==
  ASSUME DocumentConstants, RecordsInv, config
  PROVE  RecordsInv'
<1>1. phase = "start" /\ document' = document /\ delivered' = delivered /\ (Refuse \/ load)
  BY DEF config
<1>2. delivered' = Nothing /\ document' \in Documents
  BY <1>1 DEF RecordsInv
<1>3. RecordsOwn'
  BY <1>2 DEF RecordsOwn, Nothing
<1>4. CASE Refuse
  <2>1. phase' = "refused"
    BY <1>4 DEF Refuse
  <2> QED
    BY <1>2, <1>3, <2>1 DEF RecordsInv
<1>5. CASE load
  <2> DEFINE objects == IF document.syntax THEN document.map ELSE <<>>
  <2>1. /\ \E b \in [{"mqtt", "tcp", "enable"} -> {"yes", "no"}] :
                groups' = [i \in DOMAIN objects |-> Flags(make_group(objects[i]), b)]
        /\ thread' = [i \in Watched("poll", groups', document) |-> NewThread]
    <3>1. PICK b \in [{"mqtt", "tcp", "enable"} -> {"yes", "no"}] :
            LET gs == [i \in DOMAIN objects |-> Flags(make_group(objects[i]), b)]
            IN /\ groups' = gs
               /\ phase' = IF (\E i \in DOMAIN gs : GroupUndefined(gs[i])) \/ IdsUndefined(gs, document)
                           THEN "undefined" ELSE "running"
               /\ thread' = [i \in Watched("poll", gs, document) |-> NewThread]
      BY <1>5 DEF load
    <3> QED
      BY <3>1
  <2>2. DOMAIN groups' = DOMAIN objects
    BY <2>1
  <2>3. IsFiniteSet(DOMAIN objects)
    <3>1. objects \in Seq(ToSet(objects))
      <4>1. document.map \in Seq(ToSet(document.map))
        BY DEF DocumentConstants, RecordsInv
      <4>2. <<>> \in Seq(ToSet(<<>>))
        OBVIOUS
      <4> QED
        BY <4>1, <4>2
    <3> HIDE DEF objects
    <3>2. DOMAIN objects = 1 .. Len(objects) /\ Len(objects) \in Nat
      BY <3>1
    <3>3. IsFiniteSet(1 .. Len(objects))
      BY <3>2, FS_Interval
    <3> QED
      BY <3>2, <3>3
  <2> HIDE DEF objects
  <2>4. PollGroups' = Watched("poll", groups', document)
    BY <1>1 DEF PollGroups
  <2>5. IsFiniteSet(PollGroups')
    <3>1. PollGroups' \subseteq DOMAIN groups'
      BY <2>4 DEF Watched
    <3> QED
      BY <2>2, <2>3, <3>1, FS_Subset
  <2>6. DOMAIN thread' = PollGroups' /\ \A g \in PollGroups' : thread'[g] = NewThread
    BY <2>1, <2>4
  <2>7. ASSUME NEW g \in PollGroups' PROVE Gathered(g)' /\ Undisturbed(g)'
    <3> DEFINE ns == groups'[g].nodes
    <3>1. MembersOf(ns, <<>>) = <<>>
      BY MembersNone
    <3>2. ToSet(<<>>) = {}
      BY DEF ToSet
    <3>3. TextsOf(ns, <<>>) = {}
      BY <3>2 DEF TextsOf
    <3> HIDE DEF ns
    <3>4. /\ thread'[g] = [pc |-> "begin", k |-> 1, jobj |-> <<>>, kvs |-> <<>>, round |-> 0, seen |-> <<>>]
          /\ <<>> \in Seq(ToSet(<<>>))
      BY <2>6 DEF NewThread
    <3>5. Gathered(g)'
      BY <3>1, <3>4 DEF Gathered, ns
    <3>6. Undisturbed(g)'
      <4>1. thread'[g].pc = "begin" /\ thread'[g].kvs = <<>> /\ thread'[g].seen = <<>>
        BY <3>4
      <4>2. ToSet(thread'[g].kvs) = TextsOf(ns, thread'[g].seen)
        BY <3>2, <3>3, <4>1
      <4> QED
        BY <4>1, <4>2 DEF Undisturbed, ns
    <3> QED
      BY <3>5, <3>6
  <2>8. Polling'
    BY <2>5, <2>6, <2>7 DEF Polling
  <2> QED
    BY <1>2, <1>3, <2>8 DEF RecordsInv
<1> QED
  BY <1>1, <1>4, <1>5

\* A step of a thread that gives nothing to the sinks: it is enough to see to the
\* thread itself.
LEMMA ThreadStep ==
  ASSUME RecordsInv, phase = "running", NEW g \in PollGroups,
         document' = document, phase' = phase, groups' = groups,
         DOMAIN thread' = DOMAIN thread, \A h \in PollGroups \ {g} : thread'[h] = thread[h],
         Gathered(g)', Alone(g) => Undisturbed(g)',
         RecordsOwn'
  PROVE  RecordsInv'
<1>1. PollGroups' = PollGroups
  BY DEF PollGroups
<1>2. Polling
  BY DEF RecordsInv
<1>3. ASSUME NEW h \in PollGroups PROVE Gathered(h)'
  <2>1. CASE h = g
    BY <2>1
  <2>2. CASE h # g
    BY <1>2, <2>2 DEF Polling, Gathered
  <2> QED
    BY <2>1, <2>2
<1>4. ASSUME NEW h \in PollGroups, Alone(h)' PROVE Undisturbed(h)'
  <2>1. h = g /\ Alone(h)
    BY <1>1, <1>4 DEF Alone
  <2>2. Alone(g)
    BY <2>1
  <2>3. Undisturbed(g)'
    BY <2>2
  <2> QED
    BY <2>1, <2>3 DEF Undisturbed
<1>5. Polling'
  BY <1>1, <1>2, <1>3, <1>4 DEF Polling
<1> QED
  BY <1>5 DEF RecordsInv

\* A step that gives nothing to the sinks leaves nothing to be wrong.
LEMMA SilentOwn == ASSUME Silent PROVE RecordsOwn'
  BY DEF Silent, RecordsOwn, Nothing

\* Steps that only move the thread on.
LEMMA MovesKeep ==
  ASSUME RecordsInv, phase = "running", NEW g \in PollGroups, UNCHANGED <<document, phase, groups, events>>,
         BeginRound(g) \/ ReadSkips(g) \/ WriteTopic(g)
  PROVE  RecordsInv'
<1> DEFINE t == thread[g]
<1>1. Polling
  BY DEF RecordsInv
<1>2. /\ g \in DOMAIN thread /\ Gathered(g) /\ (Alone(g) => Undisturbed(g))
      /\ t = [pc |-> t.pc, k |-> t.k, jobj |-> t.jobj, kvs |-> t.kvs, round |-> t.round, seen |-> t.seen]
  BY <1>1 DEF Polling, Gathered
<1>3. /\ Silent /\ skv' = skv /\ t.pc # "copy"
      /\ thread'[g] = [pc |-> thread'[g].pc, k |-> thread'[g].k, jobj |-> t.jobj, kvs |-> t.kvs,
                       round |-> thread'[g].round, seen |-> t.seen]
      /\ DOMAIN thread' = DOMAIN thread /\ \A h \in PollGroups \ {g} : thread'[h] = thread[h]
      /\ thread'[g].pc \in {"read", "publish"} /\ (thread'[g].pc = "publish" => topic' = g)
  <2>1. CASE BeginRound(g)
    <3>1. thread'[g] = [pc |-> "read", k |-> 1, jobj |-> t.jobj, kvs |-> t.kvs, round |-> t.round + 1, seen |-> t.seen]
      BY <1>2, <2>1 DEF BeginRound
    <3> QED
      BY <1>1, <2>1, <3>1 DEF BeginRound, Polling
  <2>2. CASE ReadSkips(g)
    <3>1. thread'[g] = [pc |-> "read", k |-> t.k + 1, jobj |-> t.jobj, kvs |-> t.kvs, round |-> t.round, seen |-> t.seen]
      BY <1>2, <2>2 DEF ReadSkips
    <3> QED
      BY <1>1, <2>2, <3>1 DEF ReadSkips, Polling
  <2>3. CASE WriteTopic(g)
    <3>1. thread'[g] = [pc |-> "publish", k |-> t.k, jobj |-> t.jobj, kvs |-> t.kvs, round |-> t.round, seen |-> t.seen]
      BY <1>2, <2>3 DEF WriteTopic
    <3> QED
      BY <1>1, <2>3, <3>1 DEF WriteTopic, Polling
  <2> QED
    BY <2>1, <2>2, <2>3
<1>4. Gathered(g)'
  BY <1>2, <1>3 DEF Gathered
<1>5. ASSUME Alone(g) PROVE Undisturbed(g)'
  <2>1. ToSet(t.kvs) = TextsOf(groups[g].nodes, t.seen)
    BY <1>2, <1>3, <1>5 DEF Undisturbed
  <2>2. thread'[g].kvs = t.kvs /\ thread'[g].seen = t.seen /\ thread'[g].pc # "copy"
    BY <1>3
  <2> QED
    BY <1>3, <2>1, <2>2 DEF Undisturbed
<1>6. RecordsOwn'
  BY <1>3, SilentOwn
<1> QED
  BY <1>3, <1>4, <1>5, <1>6, ThreadStep

\* A value read is one of the round's, in the object and in the buffer.
LEMMA ReadKeeps ==
  ASSUME RecordsInv, phase = "running", NEW g \in PollGroups, UNCHANGED <<document, phase, groups, events>>, ReadValue(g)
  PROVE  RecordsInv'
<1> DEFINE t == thread[g]
           ns == groups[g].nodes
           alias == ns[t.k].alias
<1>1. Polling
  BY DEF RecordsInv
<1>2. /\ g \in DOMAIN thread /\ Gathered(g) /\ (Alone(g) => Undisturbed(g))
      /\ t = [pc |-> t.pc, k |-> t.k, jobj |-> t.jobj, kvs |-> t.kvs, round |-> t.round, seen |-> t.seen]
      /\ t.seen \in Seq(ToSet(t.seen)) /\ t.kvs \in Seq(ToSet(t.kvs)) /\ t.jobj = MembersOf(ns, t.seen)
  BY <1>1 DEF Polling, Gathered
<1>3. PICK s \in Readings :
        /\ thread' = [thread EXCEPT ![g].pc = "copy",
                                    ![g].jobj = IF HasMember(s) THEN WithMember(@, alias, Published(s)) ELSE @,
                                    ![g].seen = Append(@, [k |-> t.k, s |-> s])]
        /\ skv' = [by |-> g, text |-> [alias |-> alias, v |-> Published(s)]]
  BY DEF ReadValue, Node
<1> DEFINE e == [k |-> t.k, s |-> s]
           seen == Append(t.seen, e)
<1>4. thread'[g] = [pc |-> "copy", k |-> t.k, jobj |-> Adds(t.jobj, ns, e), kvs |-> t.kvs, round |-> t.round, seen |-> seen]
  BY <1>2, <1>3 DEF Adds
<1>5. DOMAIN thread' = DOMAIN thread /\ \A h \in PollGroups \ {g} : thread'[h] = thread[h]
  BY <1>1, <1>3 DEF Polling
<1>6. seen \in Seq(ToSet(seen)) /\ ToSet(seen) = ToSet(t.seen) \cup {e} /\ MembersOf(ns, seen) = Adds(t.jobj, ns, e)
  BY <1>2, OneMore, MembersGrow
<1>7. t.pc = "read" /\ Silent /\ e.k = t.k /\ e.s = s
  BY DEF ReadValue
<1> HIDE DEF e, seen
<1>8. Gathered(g)'
  BY <1>2, <1>4, <1>6 DEF Gathered, ns
<1>9. ASSUME Alone(g) PROVE Undisturbed(g)'
  <2>1. ToSet(t.kvs) = TextsOf(ns, t.seen)
    BY <1>2, <1>7, <1>9 DEF Undisturbed
  <2>2. TextsOf(ns, seen) = TextsOf(ns, t.seen) \cup {[alias |-> ns[e.k].alias, v |-> Published(e.s)]}
    BY <1>6 DEF TextsOf
  <2>3. skv'.by = g /\ skv'.text = [alias |-> ns[e.k].alias, v |-> Published(e.s)]
    BY <1>3, <1>7
  <2>4. thread'[g].pc = "copy" /\ thread'[g].kvs = t.kvs /\ thread'[g].seen = seen
    BY <1>4
  <2>5. ToSet(thread'[g].kvs) \cup {skv'.text} = TextsOf(groups'[g].nodes, thread'[g].seen)
    BY <2>1, <2>2, <2>3, <2>4
  <2> QED
    BY <2>3, <2>4, <2>5 DEF Undisturbed
<1>10. RecordsOwn'
  BY <1>7, SilentOwn
<1> QED
  BY <1>5, <1>8, <1>9, <1>10, ThreadStep

\* The text copied is the one just written, if nobody else polls.
LEMMA CopyKeeps ==
  ASSUME RecordsInv, phase = "running", NEW g \in PollGroups, UNCHANGED <<document, phase, groups, events>>, CopyText(g)
  PROVE  RecordsInv'
<1> DEFINE t == thread[g]
<1>1. Polling
  BY DEF RecordsInv
<1>2. /\ g \in DOMAIN thread /\ Gathered(g) /\ (Alone(g) => Undisturbed(g))
      /\ t = [pc |-> t.pc, k |-> t.k, jobj |-> t.jobj, kvs |-> t.kvs, round |-> t.round, seen |-> t.seen]
      /\ t.kvs \in Seq(ToSet(t.kvs))
  BY <1>1 DEF Polling, Gathered
<1>3. PICK text \in {skv.text} \cup (IF skv.by = g THEN {} ELSE {[alias |-> "mixed", v |-> 0]}) :
        thread' = [thread EXCEPT ![g].pc = "read", ![g].k = @ + 1, ![g].kvs = Append(@, text)]
  BY DEF CopyText
<1> DEFINE kvs == Append(t.kvs, text)
<1>4. thread'[g] = [pc |-> "read", k |-> t.k + 1, jobj |-> t.jobj, kvs |-> kvs, round |-> t.round, seen |-> t.seen]
  BY <1>2, <1>3
<1>5. DOMAIN thread' = DOMAIN thread /\ \A h \in PollGroups \ {g} : thread'[h] = thread[h]
  BY <1>1, <1>3 DEF Polling
<1>6. kvs \in Seq(ToSet(kvs)) /\ ToSet(kvs) = ToSet(t.kvs) \cup {text}
  BY <1>2, OneMore
<1>7. t.pc = "copy" /\ Silent
  BY DEF CopyText
<1> HIDE DEF kvs
<1>8. Gathered(g)'
  BY <1>2, <1>4, <1>6 DEF Gathered
<1>9. ASSUME Alone(g) PROVE Undisturbed(g)'
  <2>1. skv.by = g /\ ToSet(t.kvs) \cup {skv.text} = TextsOf(groups[g].nodes, t.seen)
    BY <1>2, <1>7, <1>9 DEF Undisturbed
  <2>2. text = skv.text
    BY <1>3, <2>1
  <2>3. thread'[g].pc = "read" /\ thread'[g].kvs = kvs /\ thread'[g].seen = t.seen
    BY <1>4
  <2>4. ToSet(thread'[g].kvs) = TextsOf(groups'[g].nodes, thread'[g].seen)
    BY <1>6, <2>1, <2>2, <2>3
  <2> QED
    BY <2>3, <2>4 DEF Undisturbed
<1>10. RecordsOwn'
  BY <1>7, SilentOwn
<1> QED
  BY <1>5, <1>8, <1>9, <1>10, ThreadStep

\* What is published is what the round has put together, and the next begins with
\* nothing.
LEMMA PublishKeeps ==
  ASSUME RecordsInv, phase = "running", NEW g \in PollGroups, UNCHANGED <<document, phase, groups, events>>, PublishRound(g)
  PROVE  RecordsInv'
<1> DEFINE t == thread[g]
           ns == groups[g].nodes
           time == [alias |-> "time", v |-> 0]
<1>1. Polling
  BY DEF RecordsInv
<1>2. /\ g \in DOMAIN thread /\ Gathered(g) /\ (Alone(g) => Undisturbed(g))
      /\ t = [pc |-> t.pc, k |-> t.k, jobj |-> t.jobj, kvs |-> t.kvs, round |-> t.round, seen |-> t.seen]
      /\ t.kvs \in Seq(ToSet(t.kvs)) /\ t.jobj = MembersOf(ns, t.seen)
  BY <1>1 DEF Polling, Gathered
<1>3. /\ t.pc = "publish" /\ thread' = [thread EXCEPT ![g] = Released(t)]
      /\ delivered' = IF t.jobj = <<>> THEN Nothing ELSE Record("poll", g, topic, t.jobj, Append(t.kvs, time), t.seen)
      /\ skv' = skv /\ topic' = topic
  BY <1>2 DEF PublishRound
<1>4. thread'[g] = [pc |-> "begin", k |-> t.k, jobj |-> <<>>, kvs |-> <<>>, round |-> t.round, seen |-> <<>>]
  BY <1>2, <1>3 DEF Released
<1>5. DOMAIN thread' = DOMAIN thread /\ \A h \in PollGroups \ {g} : thread'[h] = thread[h]
  BY <1>1, <1>3 DEF Polling
<1>6. ToSet(<<>>) = {} /\ <<>> \in Seq(ToSet(<<>>)) /\ TextsOf(ns, <<>>) = {} /\ MembersOf(ns, <<>>) = <<>>
  <2>1. ToSet(<<>>) = {} /\ <<>> \in Seq(ToSet(<<>>))
    BY DEF ToSet
  <2> QED
    BY <2>1, MembersNone DEF TextsOf
<1>7. Gathered(g)'
  BY <1>4, <1>6 DEF Gathered
<1>8. Undisturbed(g)'
  <2>1. thread'[g].pc = "begin" /\ thread'[g].kvs = <<>> /\ thread'[g].seen = <<>>
    BY <1>4
  <2>2. ToSet(thread'[g].kvs) = TextsOf(groups'[g].nodes, thread'[g].seen)
    BY <1>6, <2>1
  <2> QED
    BY <2>1, <2>2 DEF Undisturbed
<1>9. RecordsOwn'
  <2>1. CASE t.jobj = <<>>
    BY <1>3, <2>1 DEF RecordsOwn, Nothing
  <2>2. CASE t.jobj # <<>>
    <3> DEFINE kvs == Append(t.kvs, time)
    <3>1. /\ delivered'.from = "poll" /\ delivered'.group = g /\ delivered'.topic = topic
          /\ delivered'.json = WithMember(t.jobj, "time", 0) /\ delivered'.kvs = kvs /\ delivered'.seen = t.seen
      BY <1>3, <2>2 DEF Record
    <3>2. MembersRead(delivered)' = t.jobj /\ TextsRead(delivered)' = TextsOf(ns, t.seen)
      BY <1>2, <3>1 DEF MembersRead, TextsRead
    <3>3. PollGroups' = PollGroups
      BY DEF PollGroups
    <3>4. ASSUME Cardinality(PollGroups) = 1
          PROVE  topic = g /\ ToSet(kvs) = TextsOf(ns, t.seen) \cup {time}
      <4>1. Undisturbed(g)
        BY <1>1, <1>2, <3>4, OneIsAlone DEF Polling
      <4>2. ToSet(kvs) = ToSet(t.kvs) \cup {time}
        BY <1>2, OneMore
      <4> HIDE DEF kvs, time
      <4> QED
        BY <1>3, <4>1, <4>2 DEF Undisturbed
    <3> HIDE DEF kvs
    <3> QED
      BY <3>1, <3>2, <3>3, <3>4 DEF RecordsOwn
  <2> QED
    BY <2>1, <2>2
<1> QED
  BY <1>5, <1>7, <1>8, <1>9, ThreadStep

\* A notification is published alone, from buffers of its own.
LEMMA CallbackKeeps ==
  ASSUME RecordsInv, phase = "running", NEW g \in EventGroups, NEW k \in DOMAIN groups[g].nodes, callback(g, k)
  PROVE  RecordsInv'
<1> DEFINE ns == groups[g].nodes
           time == [alias |-> "time", v |-> 0]
<1>1. document' = document /\ phase' = phase /\ groups' = groups /\ thread' = thread /\ skv' = skv /\ topic' = topic
  BY DEF callback
<1>2. PollGroups' = PollGroups
  BY <1>1 DEF PollGroups
<1>3. Polling'
  <2>1. Polling
    BY DEF RecordsInv
  <2> QED
    BY <1>1, <1>2, <2>1 DEF Polling, Gathered, Undisturbed, Alone
<1>4. PICK s \in Readings :
        LET alias == ns[k].alias
            member == [alias |-> alias, v |-> Published(s)]
        IN delivered' = IF ~HasMember(s) THEN Nothing
                        ELSE Record("event", g, g, <<member>>, <<time, member>>, <<[k |-> k, s |-> s]>>)
  BY DEF callback, Node
<1>5. RecordsOwn'
  <2> DEFINE e == [k |-> k, s |-> s]
             member == [alias |-> ns[k].alias, v |-> Published(s)]
             seen == <<e>>
             kvs == <<time, member>>
  <2>1. CASE ~HasMember(s)
    BY <1>4, <2>1 DEF RecordsOwn, Nothing
  <2>2. CASE HasMember(s)
    <3>1. /\ delivered'.from = "event" /\ delivered'.group = g /\ delivered'.topic = g
          /\ delivered'.json = WithMember(<<member>>, "time", 0) /\ delivered'.kvs = kvs /\ delivered'.seen = seen
      BY <1>4, <2>2 DEF Record
    <3>2. MembersOf(ns, seen) = <<member>>
      <4>1. <<>> \in Seq(ToSet(<<>>)) /\ Append(<<>>, e) = seen
        OBVIOUS
      <4>2. MembersOf(ns, Append(<<>>, e)) = Adds(MembersOf(ns, <<>>), ns, e)
        BY <4>1, MembersGrow
      <4>3. Adds(<<>>, ns, e) = <<member>>
        <5>1. ~HasAlias(<<>>, ns[k].alias)
          BY DEF HasAlias
        <5> QED
          BY <2>2, <5>1 DEF Adds, WithMember
      <4> QED
        BY <4>1, <4>2, <4>3, MembersNone
    <3>3. TextsOf(ns, seen) = {member}
      <4>1. ToSet(seen) = {e}
        BY DEF ToSet
      <4> QED
        BY <4>1 DEF TextsOf
    <3>4. ToSet(kvs) = {time, member}
      <4>1. DOMAIN kvs = {1, 2} /\ kvs[1] = time /\ kvs[2] = member
        OBVIOUS
      <4> HIDE DEF kvs
      <4> QED
        BY <4>1 DEF ToSet
    <3>5. MembersRead(delivered)' = MembersOf(ns, seen) /\ TextsRead(delivered)' = TextsOf(ns, seen)
      BY <1>1, <3>1 DEF MembersRead, TextsRead
    <3> HIDE DEF seen, kvs, member
    <3>6. ToSet(kvs) = TextsOf(ns, seen) \cup {time}
      BY <3>3, <3>4
    <3> QED
      BY <3>1, <3>2, <3>5, <3>6 DEF RecordsOwn
  <2> QED
    BY <2>1, <2>2
<1> QED
  BY <1>1, <1>3, <1>5 DEF RecordsInv

\* Nothing changes.
LEMMA RecordsStutter ==
  ASSUME RecordsInv, UNCHANGED recordVars
  PROVE  RecordsInv'
<1>1. /\ document' = document /\ phase' = phase /\ groups' = groups /\ thread' = thread /\ skv' = skv
      /\ topic' = topic /\ delivered' = delivered
  BY DEF recordVars
<1>2. PollGroups' = PollGroups
  BY <1>1 DEF PollGroups
<1>3. Polling => Polling'
  BY <1>1, <1>2 DEF Polling, Gathered, Undisturbed, Alone
<1>4. RecordsOwn'
  <2>1. MembersRead(delivered)' = MembersRead(delivered) /\ TextsRead(delivered)' = TextsRead(delivered)
    BY <1>1 DEF MembersRead, TextsRead
  <2> QED
    BY <1>1, <1>2, <2>1 DEF RecordsInv, RecordsOwn
<1> QED
  BY <1>1, <1>3, <1>4 DEF RecordsInv

\* Poll threads, at every step of a round, have put together the values they read
\* themselves (opcua_poll_group), and every record is the one of its round.
THEOREM RecordsInvariance == RecordsSpec => []RecordsInv
<1> USE DocumentConstants
<1>1. RecordsInv /\ [RecordsNext]_recordVars => RecordsInv'
  <2> SUFFICES ASSUME RecordsInv, [RecordsNext]_recordVars PROVE RecordsInv'
    OBVIOUS
  <2>1. CASE UNCHANGED recordVars
    BY <2>1, RecordsStutter
  <2>2. CASE config
    BY <2>2, ConfigKeeps
  <2>3. CASE phase = "running" /\ \E g \in PollGroups : opcua_poll_group(g)
    <3>1. PICK g \in PollGroups : opcua_poll_group(g)
      BY <2>3
    <3>2. /\ UNCHANGED <<document, phase, groups, events>>
          /\ \/ BeginRound(g) \/ ReadSkips(g) \/ WriteTopic(g)
             \/ ReadValue(g) \/ CopyText(g) \/ PublishRound(g)
      BY <3>1 DEF opcua_poll_group
    <3> QED
      BY <2>3, <3>2, MovesKeep, ReadKeeps, CopyKeeps, PublishKeeps
  <2>4. CASE phase = "running" /\ \E g \in EventGroups : \E k \in DOMAIN groups[g].nodes : callback(g, k)
    BY <2>4, CallbackKeeps
  <2> QED
    BY <2>1, <2>2, <2>3, <2>4 DEF RecordsNext
<1> QED
  BY <1>1, RecordsStart, PTL DEF RecordsSpec

\* A record holds what was read in its own round of its own group, whichever threads
\* poll at the same time; the texts and the topic of a lone thread are its own too
\* (opcua_poll_group, callback).
THEOREM RecordsStayOwn == RecordsSpec => []RecordsOwn
<1>1. RecordsInv => RecordsOwn
  BY DEF RecordsInv
<1> QED
  BY <1>1, RecordsInvariance, PTL

-----------------------------------------------------------------------------
(* Records: what a file says.                                              *)

\* The full name of a field denotes that field.
LEMMA FieldOwn ==
  ASSUME NEW n \in Nat, NEW chain, DOMAIN chain = 1 .. n, NEW i \in 1 .. n, chain[i] \notin DOMAIN Abbreviations
  PROVE  FieldOf(chain[i], chain) = chain[i]
<1> DEFINE key == chain[i]
           fits == {j \in DOMAIN chain : chain[j] \in Denotes(key)}
           least == CHOOSE j \in fits : \A m \in fits : j <= m
<1>1. Denotes(key) = {key}
  BY DEF Denotes
<1>2. i \in fits /\ fits \in SUBSET (0 .. n) /\ \A j \in fits : chain[j] = key
  BY <1>1
<1>3. FieldOf(key, chain) = chain[least]
  BY <1>2 DEF FieldOf
<1> HIDE DEF fits, key
<1>4. \E j \in fits : \A m \in fits : j <= m
  BY <1>2, LeastNumber
<1>5. least \in fits
  BY <1>4
<1> QED
  BY <1>2, <1>3, <1>5 DEF key

\* The names of the fields of nodes and groups.
LEMMA NodeFieldOwn ==
  ASSUME FieldConstants, NEW f \in {"id", "topic", "alias"}
  PROVE  FieldOf(f, NodeFields) = f
<1>1. DOMAIN NodeFields = 1 .. 3 /\ 3 \in Nat
  BY DEF NodeFields
<1>2. PICK i \in 1 .. 3 : NodeFields[i] = f
  BY DEF NodeFields
<1>3. f \in ToSet(NodeFields)
  BY <1>1, <1>2 DEF ToSet
<1>4. f \notin DOMAIN Abbreviations
  BY <1>3 DEF FieldConstants
<1> QED
  BY <1>1, <1>2, <1>4, FieldOwn

LEMMA GroupFieldOwn ==
  ASSUME FieldConstants, NEW f \in ToSet(GroupFields)
  PROVE  FieldOf(f, GroupFields) = f
<1>1. DOMAIN GroupFields = 1 .. 10 /\ 10 \in Nat
  BY DEF GroupFields
<1>2. PICK i \in 1 .. 10 : GroupFields[i] = f
  BY <1>1 DEF ToSet
<1>4. f \notin DOMAIN Abbreviations
  BY DEF FieldConstants
<1> QED
  BY <1>1, <1>2, <1>4, FieldOwn

\* A node that gives all three of its fields, in their order.
Given(o) ==
  [id |-> o[1].val, topic |-> o[2].val, alias |-> IF o[3].val = "" THEN o[2].val ELSE o[3].val]
IsNode(n) == n = [id |-> n.id, topic |-> n.topic, alias |-> n.alias]

LEMMA NodeIsGiven ==
  ASSUME FieldConstants, NEW n, IsNode(n), NEW o, PlainNode(o), IsObject(o)
  PROVE  NodeGiven(n, o) = Given(o)
<1> DEFINE Step(k, m) == FieldGiven(m, o[k].key, o[k].val)
           Runs(g) == g = [k \in 0 .. 3 |-> IF k = 0 THEN n ELSE Step(k, g[k-1])]
           upto == CHOOSE g : Runs(g)
           n1 == [n EXCEPT !.id = o[1].val]
           n2 == [n1 EXCEPT !.topic = o[2].val]
           n3 == Given(o)
           w == [k \in 0 .. 3 |-> IF k = 0 THEN n ELSE IF k = 1 THEN n1 ELSE IF k = 2 THEN n2 ELSE n3]
<1>1. Len(o) = 3 /\ o[1].key = "id" /\ o[2].key = "topic" /\ o[3].key = "alias"
  <2> DEFINE keys == [k \in DOMAIN o |-> o[k].key]
  <2>1. keys = <<"id", "topic", "alias">>
    BY DEF PlainNode, GivesFields
  <2>2. DOMAIN o = 1 .. Len(o) /\ Len(o) \in Nat
    BY DEF IsObject
  <2>3. DOMAIN keys = 1 .. 3 /\ keys[1] = "id" /\ keys[2] = "topic" /\ keys[3] = "alias"
    BY <2>1
  <2>4. DOMAIN keys = 1 .. Len(o)
    BY <2>2
  <2>5. Len(o) = 3
    <3> HIDE DEF keys
    <3>1. 1 .. Len(o) = 1 .. 3
      BY <2>3, <2>4
    <3>2. 3 \in 1 .. Len(o)
      BY <3>1
    <3>3. Len(o) >= 3 /\ Len(o) \in 1 .. Len(o)
      BY <2>2, <3>2
    <3>4. Len(o) \in 1 .. 3
      BY <3>1, <3>3
    <3> QED
      BY <2>2, <3>3, <3>4
  <2>6. 1 \in DOMAIN o /\ 2 \in DOMAIN o /\ 3 \in DOMAIN o
    BY <2>2, <2>5
  <2> QED
    BY <2>3, <2>5, <2>6
<1>2. NodeGiven(n, o) = upto[3]
  BY <1>1 DEF NodeGiven
<1>3. Step(1, n) = n1
  BY <1>1, NodeFieldOwn DEF FieldGiven
<1>4. Step(2, n1) = n2
  BY <1>1, NodeFieldOwn DEF FieldGiven
<1>5. Step(3, n2) = n3
  <2>1. FieldOf("alias", NodeFields) = "alias"
    BY NodeFieldOwn
  <2>2. n2 = [id |-> o[1].val, topic |-> o[2].val, alias |-> n.alias]
    <3>1. n = [id |-> n.id, topic |-> n.topic, alias |-> n.alias]
      BY DEF IsNode
    <3>2. n1 = [id |-> o[1].val, topic |-> n.topic, alias |-> n.alias]
      BY <3>1
    <3> HIDE DEF n1
    <3> QED
      BY <3>2
  <2>3. n2.topic = o[2].val
    BY <2>2
  <2> HIDE DEF n2
  <2>4. CASE o[3].val = ""
    <3>1. Step(3, n2) = [n2 EXCEPT !.alias = n2.topic]
      BY <1>1, <2>1, <2>4 DEF FieldGiven
    <3> QED
      BY <2>2, <2>4, <3>1 DEF Given
  <2>5. CASE o[3].val # ""
    <3>1. Step(3, n2) = [n2 EXCEPT !["alias"] = o[3].val]
      BY <1>1, <2>1, <2>5 DEF FieldGiven
    <3> QED
      BY <2>2, <2>5, <3>1 DEF Given
  <2> QED
    BY <2>4, <2>5
<1> HIDE DEF Step, n1, n2, n3
<1>6. Runs(w)
  <2>1. ASSUME NEW k \in 0 .. 3 PROVE w[k] = IF k = 0 THEN n ELSE Step(k, w[k-1])
    <3>1. k = 0 \/ k = 1 \/ k = 2 \/ k = 3
      OBVIOUS
    <3>2. w[0] = n /\ w[1] = n1 /\ w[2] = n2 /\ w[3] = n3
      OBVIOUS
    <3> HIDE DEF w
    <3>3. CASE k = 1
      BY <1>3, <3>2, <3>3
    <3>4. CASE k = 2
      BY <1>4, <3>2, <3>4
    <3>5. CASE k = 3
      BY <1>5, <3>2, <3>5
    <3> QED
      BY <3>1, <3>2, <3>3, <3>4, <3>5
  <2> QED
    BY <2>1
<1>7. Runs(upto)
  BY <1>6
<1> HIDE DEF upto
<1>8. upto[0] = n /\ upto[1] = Step(1, upto[0]) /\ upto[2] = Step(2, upto[1]) /\ upto[3] = Step(3, upto[2])
  <2>1. 0 \in 0 .. 3 /\ 1 \in 0 .. 3 /\ 2 \in 0 .. 3 /\ 3 \in 0 .. 3 /\ 1 - 1 = 0 /\ 2 - 1 = 1 /\ 3 - 1 = 2
    OBVIOUS
  <2> QED
    BY <1>7, <2>1
<1> QED
  BY <1>2, <1>3, <1>4, <1>5, <1>8 DEF n3

\* The nodes of a list, if each gives its fields.
LEMMA NodesAreGiven ==
  ASSUME FieldConstants, NEW list, list \in Seq(ToSet(list)),
         \A k \in 1 .. Len(list) : PlainNode(list[k]) /\ IsObject(list[k])
  PROVE  NodesOf(list) = [k \in 1 .. Len(list) |-> Given(list[k])]
<1> DEFINE m == Len(list)
           Runs(g) == g = [k \in 0 .. m |-> IF k = 0 THEN NoNode ELSE NodeGiven(g[k-1], list[k])]
           n == CHOOSE g : Runs(g)
           w == [k \in 0 .. m |-> IF k = 0 THEN NoNode ELSE Given(list[k])]
<1>1. m \in Nat /\ DOMAIN list = 1 .. m
  OBVIOUS
<1>2. NodesOf(list) = [k \in 1 .. m |-> n[k]]
  BY <1>1 DEF NodesOf
<1>3. \A k \in 1 .. m : PlainNode(list[k]) /\ IsObject(list[k])
  OBVIOUS
<1> HIDE DEF m
<1>4. ASSUME NEW x, IsNode(x), NEW k \in 1 .. m PROVE NodeGiven(x, list[k]) = Given(list[k])
  BY <1>3, <1>4, NodeIsGiven
<1>5. IsNode(NoNode) /\ \A k \in 1 .. m : IsNode(Given(list[k]))
  BY DEF IsNode, NoNode, Given
<1>6. \A k \in 0 .. m : IsNode(w[k])
  BY <1>5
<1>7. Runs(w)
  <2>1. ASSUME NEW k \in 1 .. m PROVE w[k] = NodeGiven(w[k-1], list[k])
    <3>1. k - 1 \in 0 .. m /\ k \in 0 .. m /\ k # 0
      BY <1>1
    <3>2. w[k] = Given(list[k])
      BY <3>1
    <3>3. IsNode(w[k-1])
      BY <1>6, <3>1
    <3> HIDE DEF w
    <3> QED
      BY <1>4, <3>2, <3>3
  <2>2. 0 \in 0 .. m /\ \A k \in 0 .. m : k = 0 \/ k \in 1 .. m
    BY <1>1
  <2>3. w[0] = NoNode
    BY <2>2
  <2>4. w = [k \in 0 .. m |-> w[k]]
    OBVIOUS
  <2> HIDE DEF w
  <2>5. \A k \in 0 .. m : w[k] = IF k = 0 THEN NoNode ELSE NodeGiven(w[k-1], list[k])
    BY <2>1, <2>2, <2>3
  <2>6. [k \in 0 .. m |-> w[k]] = [k \in 0 .. m |-> IF k = 0 THEN NoNode ELSE NodeGiven(w[k-1], list[k])]
    BY <2>5
  <2> QED
    BY <2>4, <2>6
<1>8. Runs(n)
  BY <1>7
<1> HIDE DEF n, w
<1>9. n[0] = NoNode /\ \A k \in 1 .. m : n[k] = NodeGiven(n[k-1], list[k])
  <2>1. 0 \in 0 .. m /\ \A k \in 1 .. m : k \in 0 .. m /\ k # 0
    BY <1>1
  <2> QED
    BY <1>8, <2>1
<1> DEFINE P == {k \in 0 .. m : IsNode(n[k])}
<1>10. P = 0 .. m
  <2>1. 0 \in P /\ \A k \in 1 .. m : k - 1 \in P => k \in P
    <3>1. 0 \in 0 .. m /\ \A k \in 1 .. m : k \in 0 .. m
      BY <1>1
    <3> QED
      BY <1>4, <1>5, <1>9, <3>1
  <2>2. P \in SUBSET (0 .. m)
    OBVIOUS
  <2> HIDE DEF P
  <2> QED
    BY <1>1, <2>1, <2>2, UpTo
<1>11. ASSUME NEW k \in 1 .. m PROVE n[k] = Given(list[k])
  <2>1. IsNode(n[k-1])
    <3>1. k - 1 \in 0 .. m
      BY <1>1
    <3> QED
      BY <1>10, <3>1
  <2> QED
    BY <1>4, <1>9, <2>1
<1> QED
  BY <1>2, <1>11 DEF m

\* What is inserted where nothing is yet.
LEMMA FirstInserted ==
  ASSUME NEW list, list \in Seq(ToSet(list))
  PROVE  Inserted(<<>>, NodesOf(list)) = NodesOf(list)
<1> DEFINE m == Len(list)
           n == CHOOSE g : g = [k \in 0 .. m |-> IF k = 0 THEN NoNode ELSE NodeGiven(g[k-1], list[k])]
           T == {n[k] : k \in 1 .. m}
           x == NodesOf(list)
<1>1. m \in Nat /\ DOMAIN list = 1 .. m
  OBVIOUS
<1>2. x = [k \in 1 .. m |-> n[k]]
  BY <1>1 DEF NodesOf
<1> HIDE DEF n, m, x
<1>3. x \in Seq(T)
  BY <1>1, <1>2
<1> HIDE DEF T
<1>4. SubSeq(x, 1, Len(x)) = x /\ Len(<<>>) = 0
  BY <1>3
<1>5. <<>> \o x = x
  BY <1>3
<1> QED
  BY <1>4, <1>5 DEF Inserted, x

\* The fields of a group of which each is given once, by its full name.
LEMMA GroupLoads ==
  ASSUME FieldConstants, NEW o, IsObject(o),
         \A k \in 1 .. Len(o) : o[k].key \in ToSet(GroupFields),
         \A k \in 1 .. Len(o) : o[k].key = "nodes" => o[k].val \in Seq(ToSet(o[k].val))
  PROVE  /\ "nodes" \in DOMAIN make_group(o)
         /\ make_group(o).nodes = IF \E k \in 1 .. Len(o) : o[k].key = "nodes"
                                  THEN NodesOf(o[MemberOf(o, "nodes")].val) ELSE <<>>
<1> DEFINE n == Len(o)
           FF == DOMAIN NoGroup
           Step(k, g) == IF g.open THEN FieldTaken(g, FieldOf(o[k].key, GroupFields), o[k].val) ELSE g
           Runs(g) == g = [k \in 0 .. n |-> IF k = 0 THEN NewGroup ELSE Step(k, g[k-1])]
           upto == CHOOSE g : Runs(g)
           Has(f, k) == \E j \in 1 .. k : o[j].key = f
           W(k) == [f \in FF |-> IF Has(f, k) THEN o[MemberOf(o, f)].val ELSE "undef"]
           N(k) == IF Has("nodes", k) THEN NodesOf(o[MemberOf(o, "nodes")].val) ELSE <<>>
           w == [k \in 0 .. n |-> [flds |-> W(k), nodes |-> N(k), open |-> TRUE]]
<1>1. n \in Nat /\ DOMAIN o = 1 .. n /\ \A j, k \in 1 .. n : o[j].key = o[k].key => j = k
  BY DEF IsObject
<1>2. make_group(o) = upto[n]
  BY DEF make_group
<1>3. \A k \in 1 .. n : FieldOf(o[k].key, GroupFields) = o[k].key /\ o[k].key # "none"
  <2>1. \A f \in ToSet(GroupFields) : f # "none"
    BY DEF ToSet, GroupFields
  <2> QED
    BY <2>1, GroupFieldOwn
<1>4. ASSUME NEW k \in 1 .. n PROVE MemberOf(o, o[k].key) = k
  BY <1>1 DEF MemberOf
<1>5. \A k \in 1 .. n : o[k].key = "nodes" => o[k].val \in Seq(ToSet(o[k].val))
  OBVIOUS
<1> HIDE DEF n
<1>6. ASSUME NEW f PROVE ~Has(f, 0) /\ \A k \in 1 .. n : Has(f, k) <=> Has(f, k-1) \/ o[k].key = f
  <2>1. 1 .. 0 = {} /\ \A k \in 1 .. n : 1 .. k = 1 .. (k-1) \cup {k}
    BY <1>1
  <2> QED
    BY <2>1
<1>7. ASSUME NEW k \in 1 .. n PROVE ~Has(o[k].key, k-1)
  <2>1. \A j \in 1 .. (k-1) : j \in 1 .. n /\ j # k
    BY <1>1
  <2> QED
    BY <1>1, <2>1
<1> HIDE DEF Has
<1>8. W(0) = NoGroup /\ N(0) = <<>>
  BY <1>6 DEF NoGroup
<1>9. ASSUME NEW k \in 1 .. n
      PROVE  Step(k, [flds |-> W(k-1), nodes |-> N(k-1), open |-> TRUE]) = [flds |-> W(k), nodes |-> N(k), open |-> TRUE]
  <2> DEFINE key == o[k].key
             val == o[k].val
             flds == W(k-1)
             nodes == N(k-1)
             g == [flds |-> flds, nodes |-> nodes, open |-> TRUE]
  <2>1. Step(k, g) = FieldTaken(g, key, val) /\ key # "none"
    BY <1>3
  <2>2. o[MemberOf(o, key)].val = val /\ ~Has(key, k-1) /\ \A f : Has(f, k) <=> Has(f, k-1) \/ key = f
    BY <1>4, <1>6, <1>7
  <2>3. DOMAIN flds = FF
    OBVIOUS
  <2> HIDE DEF key, val
  <2>4. CASE key = "nodes"
    <3>1. nodes = <<>> /\ N(k) = NodesOf(val)
      BY <2>2, <2>4
    <3>2. W(k) = flds
      <4>1. \A f \in FF : f # key
        BY <2>4 DEF NoGroup
      <4>2. \A f \in FF : Has(f, k) <=> Has(f, k-1)
        BY <2>2, <4>1
      <4> QED
        BY <4>2
    <3>3. Inserted(<<>>, NodesOf(val)) = NodesOf(val)
      BY <1>5, <2>4, FirstInserted DEF key, val
    <3> HIDE DEF flds, nodes, W, N
    <3>4. FieldTaken(g, key, val) = [flds |-> flds, nodes |-> NodesOf(val), open |-> TRUE]
      BY <2>1, <2>4, <3>1, <3>3 DEF FieldTaken
    <3> QED
      BY <2>1, <3>1, <3>2, <3>4 DEF flds, nodes
  <2>5. CASE key # "nodes"
    <3>1. N(k) = nodes
      BY <2>2, <2>5
    <3>2. CASE key \in FF
      <4>1. W(k) = [flds EXCEPT ![key] = val]
        <5>1. \A f \in FF : W(k)[f] = IF f = key THEN val ELSE flds[f]
          BY <2>2
        <5>2. DOMAIN W(k) = FF
          OBVIOUS
        <5>3. W(k) = [f \in FF |-> W(k)[f]]
          BY <5>2
        <5> HIDE DEF W, flds
        <5>4. [f \in FF |-> W(k)[f]] = [f \in FF |-> IF f = key THEN val ELSE flds[f]]
          BY <5>1
        <5>5. [flds EXCEPT ![key] = val] = [f \in FF |-> IF f = key THEN val ELSE flds[f]]
          BY <2>3, <3>2
        <5> QED
          BY <5>3, <5>4, <5>5
      <4> HIDE DEF flds, nodes, W, N
      <4>2. FieldTaken(g, key, val) = [g EXCEPT !.flds[key] = val]
        BY <2>1, <2>5, <3>2 DEF FieldTaken
      <4>3. FieldTaken(g, key, val) = [flds |-> [flds EXCEPT ![key] = val], nodes |-> nodes, open |-> TRUE]
        BY <4>2
      <4> QED
        BY <2>1, <3>1, <4>1, <4>3 DEF flds, nodes
    <3>3. CASE key \notin FF
      <4>1. W(k) = flds
        <5>1. \A f \in FF : Has(f, k) <=> Has(f, k-1)
          BY <2>2, <3>3
        <5> QED
          BY <5>1
      <4> HIDE DEF flds, nodes, W, N
      <4>2. FieldTaken(g, key, val) = g
        BY <2>1, <2>5, <3>3 DEF FieldTaken
      <4> QED
        BY <2>1, <3>1, <4>1, <4>2 DEF flds, nodes
    <3> QED
      BY <3>2, <3>3
  <2> QED
    BY <2>4, <2>5
<1>10. Runs(w)
  <2>1. w = [k \in 0 .. n |-> w[k]] /\ \A k \in 0 .. n : w[k] = [flds |-> W(k), nodes |-> N(k), open |-> TRUE]
    OBVIOUS
  <2>2. 0 \in 0 .. n /\ \A k \in 0 .. n : k = 0 \/ (k \in 1 .. n /\ k - 1 \in 0 .. n)
    BY <1>1
  <2> HIDE DEF w
  <2>3. w[0] = NewGroup
    BY <1>8, <2>1, <2>2 DEF NewGroup
  <2> HIDE DEF W, N, Step
  <2>4. \A k \in 0 .. n : w[k] = IF k = 0 THEN NewGroup ELSE Step(k, w[k-1])
    BY <1>9, <2>1, <2>2, <2>3
  <2>5. [k \in 0 .. n |-> w[k]] = [k \in 0 .. n |-> IF k = 0 THEN NewGroup ELSE Step(k, w[k-1])]
    BY <2>4
  <2> QED
    BY <2>1, <2>5
<1>11. Runs(upto)
  BY <1>10
<1> HIDE DEF upto, Step
<1>12. upto[0] = NewGroup /\ \A k \in 1 .. n : upto[k] = Step(k, upto[k-1])
  <2>1. 0 \in 0 .. n /\ \A k \in 1 .. n : k \in 0 .. n /\ k # 0
    BY <1>1
  <2> QED
    BY <1>11, <2>1
<1> DEFINE R(k) == [flds |-> W(k), nodes |-> N(k), open |-> TRUE]
           P == {k \in 0 .. n : upto[k] = R(k)}
<1>13. R(0) = NewGroup
  BY <1>8 DEF NewGroup
<1> HIDE DEF W, N
<1>14. P = 0 .. n
  <2>1. 0 \in P /\ \A k \in 1 .. n : k - 1 \in P => k \in P
    <3>1. 0 \in 0 .. n /\ \A k \in 1 .. n : k \in 0 .. n
      BY <1>1
    <3> QED
      BY <1>9, <1>12, <1>13, <3>1
  <2>2. P \in SUBSET (0 .. n)
    OBVIOUS
  <2> HIDE DEF P
  <2> QED
    BY <1>1, <2>1, <2>2, UpTo
<1>15. upto[n] = R(n)
  <2>1. n \in 0 .. n
    BY <1>1
  <2> QED
    BY <1>14, <2>1
<1>16. "nodes" \in DOMAIN make_group(o) /\ make_group(o).nodes = N(n)
  BY <1>2, <1>15
<1> QED
  BY <1>16 DEF N, Has, n

\* An id of two pieces of two words.
LEMMA PieceOfTwo ==
  ASSUME NEW ua, NEW y
  PROVE  IdPiece(ua, y, 2) = IdWord(IdWord([ua EXCEPT !.done = FALSE], y, 1), y, 2)
<1> DEFINE a == [ua EXCEPT !.done = FALSE]
           b == IdWord(a, y, 1)
           c == IdWord(b, y, 2)
           Runs(g) == g = [j \in 0 .. 2 |-> IF j = 0 THEN a ELSE IdWord(g[j-1], y, j)]
           upto == CHOOSE g : Runs(g)
           w == [j \in 0 .. 2 |-> IF j = 0 THEN a ELSE IF j = 1 THEN b ELSE c]
<1>1. IdPiece(ua, y, 2) = upto[2]
  BY DEF IdPiece
<1> HIDE DEF a
<1>2. Runs(w)
  <2>1. w = [j \in 0 .. 2 |-> w[j]] /\ w[0] = a /\ w[1] = b /\ w[2] = c
    OBVIOUS
  <2> HIDE DEF w
  <2>2. \A j \in 0 .. 2 : j = 0 \/ j = 1 \/ j = 2
    OBVIOUS
  <2>3. 1 - 1 = 0 /\ 2 - 1 = 1
    OBVIOUS
  <2>4. \A j \in 0 .. 2 : w[j] = IF j = 0 THEN a ELSE IdWord(w[j-1], y, j)
    BY <2>1, <2>2, <2>3
  <2>5. [j \in 0 .. 2 |-> w[j]] = [j \in 0 .. 2 |-> IF j = 0 THEN a ELSE IdWord(w[j-1], y, j)]
    BY <2>4
  <2> QED
    BY <2>1, <2>5
<1>3. Runs(upto)
  BY <1>2
<1> HIDE DEF upto
<1>4. upto[0] = a /\ upto[1] = IdWord(upto[0], y, 1) /\ upto[2] = IdWord(upto[1], y, 2)
  <2>1. 0 \in 0 .. 2 /\ 1 \in 0 .. 2 /\ 2 \in 0 .. 2 /\ 1 - 1 = 0 /\ 2 - 1 = 1
    OBVIOUS
  <2> QED
    BY <1>3, <2>1
<1> QED
  BY <1>1, <1>4 DEF a

\* A number of 16 bits stays as it is.
LEMMA SmallStays ==
  ASSUME NEW n \in UInt16
  PROVE  n % 65536 = n
<1>1. n \in Int /\ 0 <= n /\ n < 65536
  BY DEF UInt16
<1> QED
  BY <1>1, SMTT(60)

\* The namespace and the number a word stands for.
NsOf(w) == atoi(w) % 65536
NumberOf(w) == ToString(atoi(w))

\* The first and the second word of a piece of two.
LEMMA FirstWord ==
  ASSUME NEW ua, NEW y, Len(y) = 2, ~ua.done
  PROVE  IdWord(ua, y, 1) =
           IF y[1] = "ns" THEN [ua EXCEPT !.ns = NsOf(y[2])]
           ELSE IF y[1] = "i" THEN [ua EXCEPT !.type = "numeric", !.ident = NumberOf(y[2]), !.done = TRUE]
           ELSE IF y[1] = "s" THEN [ua EXCEPT !.type = "string", !.ident = y[2], !.done = TRUE]
           ELSE ua
  BY DEF IdWord, NsOf, NumberOf

LEMMA SecondWord ==
  ASSUME NEW ua, NEW y, Len(y) = 2, ~ua.done
  PROVE  IdWord(ua, y, 2) = IF y[2] \in {"ns", "i", "s"} THEN [ua EXCEPT !.valid = FALSE, !.done = TRUE] ELSE ua
  BY DEF IdWord

\* What is named by an id that is known.
IdFields == {"ns", "type", "ident", "valid", "done"}

LEMMA IdOfTwo ==
  ASSUME NEW id, PlainId(id), IdKnown(getUA_NodeID(id))
  PROVE  LET ua == getUA_NodeID(id)
         IN [ns |-> ua.ns, type |-> ua.type, ident |-> ua.ident] = NamedBy(id)
<1> DEFINE a == IdPiece(NoId, id[1], 2)
           b == IdPiece(a, id[2], 2)
           Runs(g) == g = [k \in 0 .. 2 |-> IF k = 0 THEN NoId ELSE IdPiece(g[k-1], id[k], 2)]
           upto == CHOOSE g : Runs(g)
           w == [k \in 0 .. 2 |-> IF k = 0 THEN NoId ELSE IF k = 1 THEN a ELSE b]
<1>1. /\ Len(id) = 2 /\ Len(id[1]) = 2 /\ Len(id[2]) = 2
      /\ id[1][1] = "ns" /\ atoi(id[1][2]) \in UInt16
  BY DEF PlainId
<1>2. getUA_NodeID(id) = upto[2]
  BY <1>1 DEF getUA_NodeID
<1>3. Runs(w)
  <2>1. w = [k \in 0 .. 2 |-> w[k]] /\ w[0] = NoId /\ w[1] = a /\ w[2] = b
    OBVIOUS
  <2> HIDE DEF w
  <2>2. \A k \in 0 .. 2 : k = 0 \/ k = 1 \/ k = 2
    OBVIOUS
  <2>3. 1 - 1 = 0 /\ 2 - 1 = 1
    OBVIOUS
  <2>4. \A k \in 0 .. 2 : w[k] = IF k = 0 THEN NoId ELSE IdPiece(w[k-1], id[k], 2)
    BY <2>1, <2>2, <2>3
  <2>5. [k \in 0 .. 2 |-> w[k]] = [k \in 0 .. 2 |-> IF k = 0 THEN NoId ELSE IdPiece(w[k-1], id[k], 2)]
    BY <2>4
  <2> QED
    BY <2>1, <2>5
<1>4. Runs(upto)
  BY <1>3
<1> HIDE DEF upto
<1>5. upto[2] = b
  <2>1. 0 \in 0 .. 2 /\ 1 \in 0 .. 2 /\ 2 \in 0 .. 2 /\ 1 - 1 = 0 /\ 2 - 1 = 1
    OBVIOUS
  <2>2. upto[0] = NoId /\ upto[1] = IdPiece(upto[0], id[1], 2) /\ upto[2] = IdPiece(upto[1], id[2], 2)
    BY <1>4, <2>1
  <2> QED
    BY <2>2
<1> DEFINE x == id[1][2]
           k == id[2][1]
           v == id[2][2]
           a0 == [NoId EXCEPT !.done = FALSE]
           a1 == IdWord(a0, id[1], 1)
           b0 == [a EXCEPT !.done = FALSE]
           d == IdWord(b0, id[2], 1)
<1>6. a = IdWord(a1, id[1], 2) /\ b = IdWord(d, id[2], 2)
  BY PieceOfTwo
<1>7. DOMAIN a0 = IdFields /\ ~a0.done /\ a0.type = "undef"
  BY DEF NoId, IdFields
<1> HIDE DEF a0
<1>8. a1 = [a0 EXCEPT !.ns = NsOf(x)]
  BY <1>1, <1>7, FirstWord
<1>9. NsOf(x) = atoi(x)
  BY <1>1, SmallStays DEF NsOf
<1>10. DOMAIN a1 = IdFields /\ ~a1.done /\ a1.type = "undef" /\ a1.ns = atoi(x)
  BY <1>7, <1>8, <1>9 DEF IdFields
<1> HIDE DEF a1
<1>11. a = IF x \in {"ns", "i", "s"} THEN [a1 EXCEPT !.valid = FALSE, !.done = TRUE] ELSE a1
  BY <1>1, <1>6, <1>10, SecondWord
<1> HIDE DEF a
<1>12. DOMAIN a = IdFields /\ a.type = "undef" /\ a.ns = atoi(x)
  BY <1>10, <1>11 DEF IdFields
<1>13. DOMAIN b0 = IdFields /\ ~b0.done /\ b0.type = "undef" /\ b0.ns = atoi(x)
  BY <1>12 DEF IdFields
<1> HIDE DEF b0
<1>14. d = IF k = "ns" THEN [b0 EXCEPT !.ns = NsOf(v)]
           ELSE IF k = "i" THEN [b0 EXCEPT !.type = "numeric", !.ident = NumberOf(v), !.done = TRUE]
           ELSE IF k = "s" THEN [b0 EXCEPT !.type = "string", !.ident = v, !.done = TRUE]
           ELSE b0
  BY <1>1, <1>13, FirstWord
<1> HIDE DEF d
<1>15. b.valid /\ b.type # "undef"
  BY <1>2, <1>5 DEF IdKnown
<1>16. DOMAIN d = IdFields
  BY <1>13, <1>14
<1> HIDE DEF b
<1>17. CASE k = "i" \/ k = "s"
  <2>1. d.done
    BY <1>13, <1>14, <1>17 DEF IdFields
  <2>2. b = d
    BY <1>6, <2>1 DEF IdWord
  <2>3. d.ns = atoi(x) /\ d.type = (IF k = "i" THEN "numeric" ELSE "string")
        /\ d.ident = (IF k = "i" THEN NumberOf(v) ELSE v)
    BY <1>13, <1>14, <1>17 DEF IdFields
  <2> QED
    BY <1>2, <1>5, <2>2, <2>3 DEF NamedBy, NumberOf
<1>18. CASE ~(k = "i" \/ k = "s")
  <2>1. ~d.done /\ d.type = "undef"
    BY <1>13, <1>14, <1>18 DEF IdFields
  <2>2. b = IF v \in {"ns", "i", "s"} THEN [d EXCEPT !.valid = FALSE, !.done = TRUE] ELSE d
    BY <1>1, <1>6, <2>1, SecondWord
  <2>3. b.type = "undef"
    BY <1>16, <2>1, <2>2 DEF IdFields
  <2> QED
    BY <1>15, <2>3
<1> QED
  BY <1>17, <1>18

\* Adding a member leaves it and every other one there.
LEMMA MemberThere ==
  ASSUME NEW P, NEW o \in Seq(P), NEW a, NEW v
  PROVE  HasAlias(WithMember(o, a, v), a) /\ \A b : HasAlias(o, b) => HasAlias(WithMember(o, a, v), b)
<1> DEFINE new == [alias |-> a, v |-> v]
           w == WithMember(o, a, v)
<1>1. new.alias = a
  OBVIOUS
<1> HIDE DEF new
<1>2. CASE HasAlias(o, a)
  <2>1. w = [k \in DOMAIN o |-> IF o[k].alias = a THEN new ELSE o[k]]
    BY <1>2 DEF WithMember, new
  <2>2. DOMAIN w = DOMAIN o /\ \A k \in DOMAIN o : w[k].alias = o[k].alias
    BY <1>1, <2>1
  <2> HIDE DEF w
  <2> QED
    BY <1>2, <2>2 DEF HasAlias, w
<1>3. CASE ~HasAlias(o, a)
  <2>1. w = Append(o, new)
    BY <1>3 DEF WithMember, new
  <2>2. /\ DOMAIN o = 1 .. Len(o) /\ Len(o) \in Nat /\ DOMAIN w = 1 .. (Len(o) + 1)
        /\ w[Len(o)+1] = new /\ \A k \in 1 .. Len(o) : w[k] = o[k]
    BY <2>1
  <2> HIDE DEF w
  <2>3. Len(o) + 1 \in DOMAIN w /\ \A k \in DOMAIN o : k \in DOMAIN w
    BY <2>2
  <2>4. HasAlias(w, a) /\ \A b : HasAlias(o, b) => HasAlias(w, b)
    BY <1>1, <2>2, <2>3 DEF HasAlias
  <2> QED
    BY <2>4 DEF w
<1> QED
  BY <1>2, <1>3

\* The object has a member for every value of the round that makes one.
LEMMA MembersHold ==
  ASSUME NEW ns, NEW seen, seen \in Seq(ToSet(seen))
  PROVE  /\ MembersOf(ns, seen) \in Seq(Pairs(ns, seen))
         /\ \A e \in ToSet(seen) : HasMember(e.s) => HasAlias(MembersOf(ns, seen), ns[e.k].alias)
<1> DEFINE n == Len(seen)
           S == Seq(Pairs(ns, seen))
           Holds(o, k) == \A j \in 1 .. k : HasMember(seen[j].s) => HasAlias(o, ns[seen[j].k].alias)
<1>1. n \in Nat /\ DOMAIN seen = 1 .. n /\ \A k \in 1 .. n : seen[k] \in ToSet(seen)
  OBVIOUS
<1>2. PICK g : g[0] = <<>> /\ (\A k \in 1 .. n : g[k] = Adds(g[k-1], ns, seen[k])) /\ MembersOf(ns, seen) = g[n]
  BY MembersRun
<1> DEFINE P == {k \in 0 .. n : g[k] \in S /\ Holds(g[k], k)}
<1>3. \A k \in 1 .. n : \A o \in S : Adds(o, ns, seen[k]) \in S
  BY <1>1, AddsTyped
<1>4. <<>> \in S
  OBVIOUS
<1>5. ASSUME NEW k \in 1 .. n, NEW o \in S, Holds(o, k-1) PROVE Holds(Adds(o, ns, seen[k]), k)
  <2> DEFINE a == ns[seen[k].k].alias
             w == Adds(o, ns, seen[k])
  <2>1. \A j \in 1 .. k : j = k \/ j \in 1 .. (k-1)
    BY <1>1
  <2>2. CASE ~HasMember(seen[k].s)
    <3>1. w = o
      BY <2>2 DEF Adds
    <3> HIDE DEF w
    <3> QED
      BY <1>5, <2>1, <2>2, <3>1 DEF w
  <2>3. CASE HasMember(seen[k].s)
    <3>1. w = WithMember(o, a, Published(seen[k].s))
      BY <2>3 DEF Adds
    <3>2. HasAlias(w, a) /\ \A b : HasAlias(o, b) => HasAlias(w, b)
      BY <3>1, MemberThere
    <3> HIDE DEF w
    <3> QED
      BY <1>5, <2>1, <3>2 DEF w
  <2> QED
    BY <2>2, <2>3
<1> HIDE DEF S, n
<1>6. 0 \in P
  <2>1. 0 \in 0 .. n /\ 1 .. 0 = {}
    BY <1>1
  <2> QED
    BY <1>2, <1>4, <2>1
<1> HIDE DEF Holds
<1>7. \A k \in 1 .. n : k - 1 \in P => k \in P
  <2>1. \A k \in 1 .. n : k \in 0 .. n
    BY <1>1
  <2> QED
    BY <1>2, <1>3, <1>5, <2>1
<1>8. n \in P
  <2>1. P \in SUBSET (0 .. n)
    OBVIOUS
  <2> HIDE DEF P
  <2>2. P = 0 .. n
    BY <1>1, <1>6, <1>7, <2>1, UpTo
  <2> QED
    BY <1>1, <2>2
<1>9. g[n] \in S /\ Holds(g[n], n)
  BY <1>8
<1>10. \A e \in ToSet(seen) : \E j \in 1 .. n : seen[j] = e
  BY <1>1 DEF ToSet
<1> QED
  BY <1>2, <1>9, <1>10 DEF Holds, S

-----------------------------------------------------------------------------
(* Records: what is watched is what the file says.                         *)

\* The nodes of a group that is written in full are the written ones.
Loaded(g) ==
  PlainGroup(g) =>
    \/ groups[g].nodes = <<>>
    \/ /\ WrittenNodes(g) \in Seq(ToSet(WrittenNodes(g)))
       /\ groups[g].nodes = [k \in 1 .. Len(WrittenNodes(g)) |-> Given(WrittenNodes(g)[k])]

\* The id of every node that is watched is known.
IdsKnown ==
  \A g \in PollGroups \cup EventGroups : \A k \in DOMAIN groups[g].nodes : IdKnown(getUA_NodeID(groups[g].nodes[k].id))

\* A thread reads the nodes of its group.
ReadFrom(g) ==
  PlainGroup(g) => /\ thread[g].k \in Nat \ {0}
                   /\ \A e \in ToSet(thread[g].seen) : e.k \in DOMAIN groups[g].nodes

\* So does every record.
OfItsNodes ==
  delivered.from # "none" =>
    /\ phase = "running" /\ delivered.group \in PollGroups \cup EventGroups
    /\ delivered.seen \in Seq(ToSet(delivered.seen))
    /\ PlainGroup(delivered.group) => \A e \in ToSet(delivered.seen) : e.k \in DOMAIN groups[delivered.group].nodes

ConfiguredInv ==
  /\ phase = "running" => /\ \A g \in DOMAIN groups : Loaded(g)
                          /\ IdsKnown
                          /\ \A g \in PollGroups : ReadFrom(g)
  /\ OfItsNodes

\* The fields a node is given.
LEMMA GivenFields ==
  ASSUME NEW o
  PROVE  Given(o).id = o[1].val /\ Given(o).alias = IF o[3].val = "" THEN o[2].val ELSE o[3].val
  BY DEF Given

\* What a group that is loaded reads of a node, and calls it.
LEMMA NodeConfigured ==
  ASSUME NEW g \in PollGroups \cup EventGroups, Loaded(g), IdsKnown, PlainGroup(g), NEW k \in DOMAIN groups[g].nodes
  PROVE  LET o == WrittenNodes(g)[k]
             ua == getUA_NodeID(groups[g].nodes[k].id)
         IN /\ [ns |-> ua.ns, type |-> ua.type, ident |-> ua.ident] = NamedBy(o[1].val)
            /\ groups[g].nodes[k].alias = IF o[3].val = "" THEN o[2].val ELSE o[3].val
<1> DEFINE list == WrittenNodes(g)
           ns == groups[g].nodes
           o == list[k]
<1>1. ns # <<>>
  OBVIOUS
<1>2. list \in Seq(ToSet(list)) /\ ns = [j \in 1 .. Len(list) |-> Given(list[j])]
  BY <1>1 DEF Loaded
<1>3. k \in DOMAIN list /\ ns[k] = Given(o)
  BY <1>2
<1>4. PlainNode(o)
  BY <1>3 DEF PlainGroup
<1>5. IdKnown(getUA_NodeID(ns[k].id))
  BY DEF IdsKnown
<1> HIDE DEF ns, list, o
<1>6. ns[k].id = o[1].val /\ ns[k].alias = IF o[3].val = "" THEN o[2].val ELSE o[3].val
  BY <1>3, GivenFields
<1>7. PlainId(o[1].val) /\ IdKnown(getUA_NodeID(o[1].val))
  BY <1>4, <1>5, <1>6 DEF PlainNode
<1> QED
  BY <1>6, <1>7, IdOfTwo DEF ns, list, o

\* With it, what is published is what the file says.
LEMMA ConfiguredSays ==
  ASSUME RecordsInv, ConfiguredInv
  PROVE  PublishesConfigured
<1> SUFFICES ASSUME delivered.from # "none", PlainGroup(delivered.group), NEW e \in ToSet(delivered.seen)
             PROVE  LET o == WrittenNodes(delivered.group)[e.k]
                        name == IF o[3].val = "" THEN o[2].val ELSE o[3].val
                        ua == getUA_NodeID(Node(delivered.group, e.k).id)
                    IN /\ [ns |-> ua.ns, type |-> ua.type, ident |-> ua.ident] = NamedBy(o[1].val)
                       /\ HasMember(e.s) => HasAlias(delivered.json, name)
  BY DEF PublishesConfigured
<1> DEFINE g == delivered.group
           ns == groups[g].nodes
           o == WrittenNodes(g)[e.k]
           made == MembersOf(ns, delivered.seen)
<1>1. /\ phase = "running" /\ g \in PollGroups \cup EventGroups /\ delivered.seen \in Seq(ToSet(delivered.seen))
      /\ e.k \in DOMAIN ns
  BY DEF ConfiguredInv, OfItsNodes
<1>2. g \in DOMAIN groups
  BY <1>1 DEF PollGroups, EventGroups, Watched
<1>3. Loaded(g) /\ IdsKnown
  BY <1>1, <1>2 DEF ConfiguredInv
<1>4. LET ua == getUA_NodeID(ns[e.k].id)
      IN /\ [ns |-> ua.ns, type |-> ua.type, ident |-> ua.ident] = NamedBy(o[1].val)
         /\ ns[e.k].alias = IF o[3].val = "" THEN o[2].val ELSE o[3].val
  BY <1>1, <1>3, NodeConfigured
<1>5. delivered.json = WithMember(made, "time", 0)
  BY DEF RecordsInv, RecordsOwn, MembersRead
<1>6. made \in Seq(Pairs(ns, delivered.seen)) /\ (HasMember(e.s) => HasAlias(made, ns[e.k].alias))
  BY <1>1, MembersHold
<1> HIDE DEF made
<1>7. HasMember(e.s) => HasAlias(delivered.json, ns[e.k].alias)
  BY <1>5, <1>6, MemberThere
<1> QED
  BY <1>4, <1>7 DEF Node

\* A group of the file that is written in full is loaded with the nodes written.
LEMMA GroupConfigured ==
  ASSUME DocumentConstants, FieldConstants, document \in Documents, NEW g \in DOMAIN document.map, PlainGroup(g),
         NEW b
  PROVE  LET ns == Flags(make_group(document.map[g]), b).nodes
         IN \/ ns = <<>>
            \/ /\ WrittenNodes(g) \in Seq(ToSet(WrittenNodes(g)))
               /\ ns = [k \in 1 .. Len(WrittenNodes(g)) |-> Given(WrittenNodes(g)[k])]
<1> DEFINE o == document.map[g]
           list == WrittenNodes(g)
           ns == make_group(o).nodes
<1>1. o \in ToSet(document.map)
  BY DEF ToSet
<1>2. IsObject(o) /\ \A e \in ToSet(o) : e.key = "nodes" => e.val \in Seq(ToSet(e.val)) /\ \A n \in ToSet(e.val) : IsObject(n)
  BY <1>1 DEF DocumentConstants
<1>3. list = o[MemberOf(o, "nodes")].val
  BY DEF WrittenNodes
<1>4. /\ \A k \in DOMAIN o : o[k].key \in ToSet(GroupFields)
      /\ \A k \in DOMAIN list : PlainNode(list[k])
  BY DEF PlainGroup
<1> HIDE DEF o, list
<1>5. DOMAIN o = 1 .. Len(o) /\ \A k \in 1 .. Len(o) : o[k] \in ToSet(o)
  BY <1>2 DEF IsObject
<1>6. "nodes" \in DOMAIN make_group(o)
      /\ ns = IF \E k \in 1 .. Len(o) : o[k].key = "nodes" THEN NodesOf(o[MemberOf(o, "nodes")].val) ELSE <<>>
  BY <1>2, <1>4, <1>5, GroupLoads
<1>7. Flags(make_group(o), b).nodes = ns
  BY <1>6 DEF Flags
<1>8. CASE \E k \in 1 .. Len(o) : o[k].key = "nodes"
  <2>1. PICK k \in 1 .. Len(o) : o[k].key = "nodes"
    BY <1>8
  <2>2. MemberOf(o, "nodes") = k
    BY <1>2, <1>5, <2>1 DEF IsObject, MemberOf
  <2>3. list = o[k].val /\ list \in Seq(ToSet(list)) /\ \A n \in ToSet(list) : IsObject(n)
    BY <1>2, <1>3, <1>5, <2>1, <2>2
  <2>4. DOMAIN list = 1 .. Len(list) /\ \A j \in 1 .. Len(list) : list[j] \in ToSet(list)
    BY <2>3
  <2>5. \A j \in 1 .. Len(list) : PlainNode(list[j]) /\ IsObject(list[j])
    BY <1>4, <2>3, <2>4
  <2>6. NodesOf(list) = [j \in 1 .. Len(list) |-> Given(list[j])]
    BY <2>3, <2>5, NodesAreGiven
  <2>7. ns = NodesOf(list)
    BY <1>3, <1>6, <2>1
  <2> QED
    BY <1>7, <2>3, <2>6, <2>7 DEF o, list
<1>9. CASE ~\E k \in 1 .. Len(o) : o[k].key = "nodes"
  BY <1>6, <1>7, <1>9 DEF o
<1> QED
  BY <1>8, <1>9

\* Loading.
LEMMA ConfigConfigures ==
  ASSUME DocumentConstants, FieldConstants, RecordsInv, ConfiguredInv, config
  PROVE  ConfiguredInv'
<1>1. phase = "start" /\ document' = document /\ delivered' = delivered /\ (Refuse \/ load)
  BY DEF config
<1>2. document \in Documents /\ delivered.from = "none"
  BY <1>1 DEF RecordsInv, Nothing
<1>3. OfItsNodes'
  BY <1>1, <1>2 DEF OfItsNodes
<1>4. CASE Refuse
  <2>1. phase' = "refused"
    BY <1>4 DEF Refuse
  <2> QED
    BY <1>3, <2>1 DEF ConfiguredInv
<1>5. CASE load
  <2> SUFFICES ASSUME phase' = "running"
               PROVE  (\A g \in DOMAIN groups' : Loaded(g)') /\ IdsKnown' /\ \A g \in PollGroups' : ReadFrom(g)'
    BY <1>3 DEF ConfiguredInv
  <2> DEFINE objects == IF document.syntax THEN document.map ELSE <<>>
  <2>1. PICK b \in [{"mqtt", "tcp", "enable"} -> {"yes", "no"}] :
          /\ groups' = [i \in DOMAIN objects |-> Flags(make_group(objects[i]), b)]
          /\ ~IdsUndefined(groups', document)
          /\ thread' = [i \in Watched("poll", groups', document) |-> NewThread]
    <3>1. PICK b \in [{"mqtt", "tcp", "enable"} -> {"yes", "no"}] :
            LET gs == [i \in DOMAIN objects |-> Flags(make_group(objects[i]), b)]
            IN /\ groups' = gs
               /\ phase' = IF (\E i \in DOMAIN gs : GroupUndefined(gs[i])) \/ IdsUndefined(gs, document)
                           THEN "undefined" ELSE "running"
               /\ thread' = [i \in Watched("poll", gs, document) |-> NewThread]
      BY <1>5 DEF load
    <3> QED
      BY <3>1
  <2>2. PollGroups' = Watched("poll", groups', document) /\ EventGroups' = Watched("event", groups', document)
    BY <1>1 DEF PollGroups, EventGroups
  <2>3. IdsKnown'
    <3>1. ~IdsUndefined(groups', document)
      BY <2>1
    <3>2. \A i \in Watched("poll", groups', document) \cup Watched("event", groups', document) :
             \A k \in DOMAIN groups'[i].nodes : IdKnown(getUA_NodeID(groups'[i].nodes[k].id))
      BY <3>1 DEF IdsUndefined
    <3> QED
      BY <2>2, <3>2 DEF IdsKnown
  <2>4. \A g \in PollGroups' : ReadFrom(g)'
    <3>1. ToSet(<<>>) = {}
      BY DEF ToSet
    <3>2. \A g \in PollGroups' : thread'[g].k = 1 /\ thread'[g].seen = <<>>
      BY <2>1, <2>2 DEF NewThread
    <3> QED
      BY <3>1, <3>2 DEF ReadFrom
  <2>5. ASSUME NEW g \in DOMAIN groups', PlainGroup(g) PROVE Loaded(g)'
    <3>1. g \in DOMAIN objects /\ groups'[g] = Flags(make_group(objects[g]), b)
      BY <2>1
    <3>2. document.syntax
      BY <3>1
    <3>3. g \in DOMAIN document.map /\ groups'[g] = Flags(make_group(document.map[g]), b)
      BY <3>1, <3>2
    <3>4. \/ groups'[g].nodes = <<>>
          \/ /\ WrittenNodes(g) \in Seq(ToSet(WrittenNodes(g)))
             /\ groups'[g].nodes = [k \in 1 .. Len(WrittenNodes(g)) |-> Given(WrittenNodes(g)[k])]
      BY <1>2, <2>5, <3>3, GroupConfigured
    <3>5. WrittenNodes(g)' = WrittenNodes(g)
      BY <1>1 DEF WrittenNodes
    <3> QED
      BY <3>4, <3>5 DEF Loaded
  <2>6. \A g : PlainGroup(g)' <=> PlainGroup(g)
    BY <1>1 DEF PlainGroup, WrittenNodes
  <2>7. \A g \in DOMAIN groups' : Loaded(g)'
    BY <2>5, <2>6 DEF Loaded
  <2> QED
    BY <2>3, <2>4, <2>7
<1> QED
  BY <1>1, <1>4, <1>5

\* What is loaded stays: a step sees to what is read and given to the sinks.
LEMMA LoadedStays ==
  ASSUME ConfiguredInv, phase = "running", UNCHANGED <<document, phase, groups>>,
         \A g \in PollGroups : ReadFrom(g)', OfItsNodes'
  PROVE  ConfiguredInv'
<1>1. PollGroups' = PollGroups /\ EventGroups' = EventGroups
  BY DEF PollGroups, EventGroups
<1>2. \A g : (PlainGroup(g)' <=> PlainGroup(g)) /\ WrittenNodes(g)' = WrittenNodes(g)
  BY DEF PlainGroup, WrittenNodes
<1>3. \A g \in DOMAIN groups' : Loaded(g)'
  BY <1>2 DEF ConfiguredInv, Loaded
<1>4. IdsKnown'
  BY <1>1 DEF ConfiguredInv, IdsKnown
<1> QED
  BY <1>1, <1>3, <1>4 DEF ConfiguredInv

\* A poll thread reads one node after the other, up to the last of its group.
LEMMA ThreadConfigured ==
  ASSUME RecordsInv, ConfiguredInv, phase = "running", NEW g \in PollGroups, opcua_poll_group(g)
  PROVE  ConfiguredInv'
<1> DEFINE t == thread[g]
           ns == groups[g].nodes
<1>1. document' = document /\ phase' = phase /\ groups' = groups
  BY DEF opcua_poll_group
<1>2. /\ PollGroups' = PollGroups /\ EventGroups' = EventGroups
      /\ \A h : PlainGroup(h)' <=> PlainGroup(h)
  BY <1>1 DEF PollGroups, EventGroups, PlainGroup, WrittenNodes
<1>3. /\ DOMAIN thread = PollGroups
      /\ t = [pc |-> t.pc, k |-> t.k, jobj |-> t.jobj, kvs |-> t.kvs, round |-> t.round, seen |-> t.seen]
      /\ t.seen \in Seq(ToSet(t.seen))
  BY DEF RecordsInv, Polling, Gathered
<1>4. g \in DOMAIN groups
  BY DEF PollGroups, Watched
<1>5. Loaded(g) /\ ReadFrom(g) /\ \A h \in PollGroups : ReadFrom(h)
  BY <1>4 DEF ConfiguredInv
<1>6. ASSUME PlainGroup(g), t.k <= Len(ns) PROVE t.k \in DOMAIN ns
  <2>1. t.k \in Nat \ {0}
    BY <1>5, <1>6 DEF ReadFrom
  <2>2. CASE ns = <<>>
    BY <1>6, <2>1, <2>2
  <2>3. CASE ns # <<>>
    <3>1. WrittenNodes(g) \in Seq(ToSet(WrittenNodes(g))) /\ ns = [k \in 1 .. Len(WrittenNodes(g)) |-> Given(WrittenNodes(g)[k])]
      BY <1>5, <1>6, <2>3 DEF Loaded
    <3> HIDE DEF ns
    <3>2. Len(WrittenNodes(g)) \in Nat
      BY <3>1
    <3>3. Len(ns) = Len(WrittenNodes(g)) /\ DOMAIN ns = 1 .. Len(ns)
      BY <3>1, <3>2
    <3>4. t.k <= Len(ns)
      BY <1>6 DEF ns
    <3> QED
      BY <2>1, <3>2, <3>3, <3>4
  <2> QED
    BY <2>2, <2>3
<1> HIDE DEF ns
<1>7. ASSUME NEW r, thread'[g] = r, \A h \in PollGroups \ {g} : thread'[h] = thread[h], r.k \in {1, t.k, t.k + 1},
             PlainGroup(g) => \A e \in ToSet(r.seen) : e.k \in DOMAIN ns
      PROVE  \A h \in PollGroups : ReadFrom(h)'
  <2>1. thread'[g] = r /\ \A h \in PollGroups \ {g} : thread'[h] = thread[h]
    BY <1>7
  <2>2. ReadFrom(g)'
    <3> SUFFICES ASSUME PlainGroup(g)' PROVE r.k \in Nat \ {0} /\ \A e \in ToSet(r.seen) : e.k \in DOMAIN groups'[g].nodes
      BY <2>1 DEF ReadFrom
    <3>1. PlainGroup(g)
      BY <1>2
    <3>2. t.k \in Nat \ {0}
      BY <1>5, <3>1 DEF ReadFrom
    <3> QED
      BY <1>1, <1>7, <3>1, <3>2 DEF ns
  <2>3. ASSUME NEW h \in PollGroups \ {g} PROVE ReadFrom(h)'
    BY <1>1, <1>2, <1>5, <2>1 DEF ReadFrom
  <2> QED
    BY <2>2, <2>3
<1>8. PlainGroup(g) => \A e \in ToSet(t.seen) : e.k \in DOMAIN ns
  BY <1>5 DEF ReadFrom, ns
<1>9. ASSUME Silent PROVE OfItsNodes'
  BY <1>9 DEF Silent, Nothing, OfItsNodes
<1>10. ASSUME \A h \in PollGroups : ReadFrom(h)', OfItsNodes' PROVE ConfiguredInv'
  BY <1>1, <1>10, LoadedStays
<1>11. CASE BeginRound(g)
  <2> DEFINE r == [pc |-> "read", k |-> 1, jobj |-> t.jobj, kvs |-> t.kvs, round |-> t.round + 1, seen |-> t.seen]
  <2>1. thread'[g] = r /\ Silent /\ \A h \in PollGroups \ {g} : thread'[h] = thread[h]
    BY <1>3, <1>11 DEF BeginRound
  <2> QED
    BY <1>7, <1>8, <1>9, <1>10, <2>1
<1>12. CASE ReadSkips(g)
  <2> DEFINE r == [pc |-> t.pc, k |-> t.k + 1, jobj |-> t.jobj, kvs |-> t.kvs, round |-> t.round, seen |-> t.seen]
  <2>1. thread'[g] = r /\ Silent /\ \A h \in PollGroups \ {g} : thread'[h] = thread[h]
    BY <1>3, <1>12 DEF ReadSkips
  <2> QED
    BY <1>7, <1>8, <1>9, <1>10, <2>1
<1>13. CASE ReadValue(g)
  <2>1. PICK s \in Readings :
          /\ thread' = [thread EXCEPT ![g].pc = "copy",
                                      ![g].jobj = IF HasMember(s) THEN WithMember(@, ns[t.k].alias, Published(s)) ELSE @,
                                      ![g].seen = Append(@, [k |-> t.k, s |-> s])]
          /\ Silent /\ t.k <= Len(ns)
    BY <1>13 DEF ReadValue, Node, ns
  <2> DEFINE e == [k |-> t.k, s |-> s]
             jobj == IF HasMember(s) THEN WithMember(t.jobj, ns[t.k].alias, Published(s)) ELSE t.jobj
             seen == Append(t.seen, e)
             r == [pc |-> "copy", k |-> t.k, jobj |-> jobj, kvs |-> t.kvs, round |-> t.round, seen |-> seen]
  <2>2. thread'[g] = r /\ \A h \in PollGroups \ {g} : thread'[h] = thread[h]
    BY <1>3, <2>1
  <2>3. ToSet(seen) = ToSet(t.seen) \cup {e}
    BY <1>3, OneMore
  <2>4. PlainGroup(g) => e.k \in DOMAIN ns
    BY <1>6, <2>1 DEF ns
  <2>5. r.k = t.k /\ r.seen = seen
    OBVIOUS
  <2> HIDE DEF r, seen, e, jobj
  <2>6. PlainGroup(g) => \A x \in ToSet(r.seen) : x.k \in DOMAIN ns
    BY <1>8, <2>3, <2>4, <2>5
  <2> QED
    BY <1>7, <1>9, <1>10, <2>1, <2>2, <2>5, <2>6
<1>14. CASE CopyText(g)
  <2>1. PICK text : thread' = [thread EXCEPT ![g].pc = "read", ![g].k = @ + 1, ![g].kvs = Append(@, text)]
    BY <1>14 DEF CopyText
  <2> DEFINE r == [pc |-> "read", k |-> t.k + 1, jobj |-> t.jobj, kvs |-> Append(t.kvs, text), round |-> t.round, seen |-> t.seen]
  <2>2. thread'[g] = r /\ \A h \in PollGroups \ {g} : thread'[h] = thread[h]
    BY <1>3, <2>1
  <2>3. Silent
    BY <1>14 DEF CopyText
  <2> QED
    BY <1>7, <1>8, <1>9, <1>10, <2>2, <2>3
<1>15. CASE WriteTopic(g)
  <2> DEFINE r == [pc |-> "publish", k |-> t.k, jobj |-> t.jobj, kvs |-> t.kvs, round |-> t.round, seen |-> t.seen]
  <2>1. thread'[g] = r /\ Silent /\ \A h \in PollGroups \ {g} : thread'[h] = thread[h]
    BY <1>3, <1>15 DEF WriteTopic
  <2> QED
    BY <1>7, <1>8, <1>9, <1>10, <2>1
<1>16. CASE PublishRound(g)
  <2> DEFINE r == [pc |-> "begin", k |-> t.k, jobj |-> <<>>, kvs |-> <<>>, round |-> t.round, seen |-> <<>>]
  <2>1. /\ thread'[g] = r /\ \A h \in PollGroups \ {g} : thread'[h] = thread[h]
        /\ delivered' = IF t.jobj = <<>> THEN Nothing
                        ELSE Record("poll", g, topic, t.jobj, Append(t.kvs, [alias |-> "time", v |-> 0]), t.seen)
    BY <1>3, <1>16 DEF PublishRound, Released
  <2>2. ToSet(<<>>) = {}
    BY DEF ToSet
  <2>3. \A h \in PollGroups : ReadFrom(h)'
    BY <1>7, <2>1, <2>2
  <2>4. OfItsNodes'
    <3>1. CASE t.jobj = <<>>
      BY <2>1, <3>1 DEF Nothing, OfItsNodes
    <3>2. CASE t.jobj # <<>>
      <4>1. delivered'.group = g /\ delivered'.seen = t.seen
        BY <2>1, <3>2 DEF Record
      <4> QED
        BY <1>1, <1>2, <1>3, <1>8, <4>1 DEF OfItsNodes, ns
    <3> QED
      BY <3>1, <3>2
  <2> QED
    BY <1>10, <2>3, <2>4
<1> QED
  BY <1>11, <1>12, <1>13, <1>14, <1>15, <1>16 DEF opcua_poll_group

\* A notification is of a node of its group.
LEMMA CallbackConfigured ==
  ASSUME ConfiguredInv, phase = "running", NEW g \in EventGroups, NEW k \in DOMAIN groups[g].nodes, callback(g, k)
  PROVE  ConfiguredInv'
<1>1. document' = document /\ phase' = phase /\ groups' = groups /\ thread' = thread
  BY DEF callback
<1>2. /\ PollGroups' = PollGroups /\ EventGroups' = EventGroups
      /\ \A h : PlainGroup(h)' <=> PlainGroup(h)
  BY <1>1 DEF PollGroups, EventGroups, PlainGroup, WrittenNodes
<1>3. \A h \in PollGroups : ReadFrom(h)'
  BY <1>1, <1>2 DEF ConfiguredInv, ReadFrom
<1>4. PICK s \in Readings :
        LET alias == groups[g].nodes[k].alias
            member == [alias |-> alias, v |-> Published(s)]
        IN delivered' = IF ~HasMember(s) THEN Nothing
                        ELSE Record("event", g, g, <<member>>, <<[alias |-> "time", v |-> 0], member>>, <<[k |-> k, s |-> s]>>)
  BY DEF callback, Node
<1>5. OfItsNodes'
  <2>1. CASE ~HasMember(s)
    BY <1>4, <2>1 DEF Nothing, OfItsNodes
  <2>2. CASE HasMember(s)
    <3> DEFINE e == [k |-> k, s |-> s]
               seen == <<e>>
    <3>1. delivered'.group = g /\ delivered'.seen = seen
      BY <1>4, <2>2 DEF Record
    <3>2. ToSet(seen) = {e}
      BY DEF ToSet
    <3>3. seen \in Seq(ToSet(seen)) /\ e.k = k
      BY <3>2
    <3> HIDE DEF seen, e
    <3> QED
      BY <1>1, <1>2, <3>1, <3>2, <3>3 DEF OfItsNodes
  <2> QED
    BY <2>1, <2>2
<1> QED
  BY <1>1, <1>3, <1>5, LoadedStays

\* Every step, and every behaviour's beginning.
LEMMA ConfiguredStep ==
  ASSUME DocumentConstants, FieldConstants, RecordsInv, ConfiguredInv, [RecordsNext]_recordVars
  PROVE  ConfiguredInv'
<1>1. CASE UNCHANGED recordVars
  <2>1. document' = document /\ phase' = phase /\ groups' = groups /\ thread' = thread /\ delivered' = delivered
    BY <1>1 DEF recordVars
  <2>2. /\ PollGroups' = PollGroups /\ EventGroups' = EventGroups
        /\ \A g : (PlainGroup(g)' <=> PlainGroup(g)) /\ WrittenNodes(g)' = WrittenNodes(g)
    BY <2>1 DEF PollGroups, EventGroups, PlainGroup, WrittenNodes
  <2>3. OfItsNodes'
    BY <2>1, <2>2 DEF ConfiguredInv, OfItsNodes
  <2>4. phase = "running" => \A g \in PollGroups : ReadFrom(g)'
    BY <2>1, <2>2 DEF ConfiguredInv, ReadFrom
  <2>5. CASE phase = "running"
    BY <2>1, <2>3, <2>4, <2>5, LoadedStays
  <2>6. CASE phase # "running"
    BY <2>1, <2>3, <2>6 DEF ConfiguredInv
  <2> QED
    BY <2>5, <2>6
<1>2. CASE config
  BY <1>2, ConfigConfigures
<1>3. CASE phase = "running" /\ \E g \in PollGroups : opcua_poll_group(g)
  BY <1>3, ThreadConfigured
<1>4. CASE phase = "running" /\ \E g \in EventGroups : \E k \in DOMAIN groups[g].nodes : callback(g, k)
  BY <1>4, CallbackConfigured
<1> QED
  BY <1>1, <1>2, <1>3, <1>4 DEF RecordsNext

\* In a group that is written in full every value is read from the node whose id the
\* file gives beside its alias, or its topic, and is in the record under that name,
\* whatever the other groups of the file are (load, make_group, getUA_NodeID,
\* opcua_poll_group, callback).
THEOREM ConfiguredIsPublished == RecordsSpec => []PublishesConfigured
<1> USE DocumentConstants, FieldConstants
<1>1. RecordsInit => ConfiguredInv
  <2> SUFFICES ASSUME RecordsInit PROVE ConfiguredInv
    OBVIOUS
  <2>1. phase = "start" /\ delivered.from = "none"
    BY DEF RecordsInit, Nothing
  <2> QED
    BY <2>1 DEF ConfiguredInv, OfItsNodes
<1>2. RecordsInv /\ ConfiguredInv /\ [RecordsNext]_recordVars => ConfiguredInv'
  BY ConfiguredStep
<1>3. RecordsInv /\ ConfiguredInv => PublishesConfigured
  BY ConfiguredSays
<1> QED
  BY <1>1, <1>2, <1>3, RecordsInvariance, PTL DEF RecordsSpec
=============================================================================

------------------------------- MODULE MqttClient ------------------------------
(***************************************************************************)
(* The client of paho.mqtt.embedded-c (MQTTClient-C/src/MQTTClient.c) with *)
(* a broker.  A call of the program sends a packet and reads packets until *)
(* one of the type it waits for comes or its time is up; between calls the *)
(* task of the client (MQTTRun) reads them.  A mutex keeps the two apart.  *)
(*                                                                         *)
(* A packet is a record; the connection keeps their order and may be lost. *)
(* Topics are sequences of characters.                                     *)
(***************************************************************************)
EXTENDS Integers, Sequences, FiniteSets, SequencesExt

CONSTANTS
  Filters,            \* topic filters the program subscribes to
  Names,              \* topics of messages
  MaxHandlers,        \* MAX_MESSAGE_HANDLERS
  MAX_PACKET_ID,
  CommandTimeout,     \* command_timeout_ms, in cycles that read nothing
  KeepAlive,          \* keepAliveInterval, in the same unit
  MaxCalls,           \* calls of the program (bound)
  MaxMessages,        \* messages of the broker (bound)
  MaxPending          \* packets under way in one direction (bound)

VARIABLES
  mc,                 \* the MQTTClient
  call,               \* the call that waits, op "none" outside of calls
  toBroker, toClient, \* packets under way
  open,               \* the connection is there
  subscribed,         \* filters the broker has for the client
  result,             \* of the last call: [op, rc, id, answer, late]
  owed,               \* the answers calls over this connection gave up (history)
  seen,               \* messages read, with the filters that had a handler (history)
  handed,             \* messages given to handlers: <<number, filter>> (history)
  calls, messages     \* bounds
mqttVars == <<mc, call, toBroker, toClient, open, subscribed, result, owed, seen, handed, calls, messages>>

Packet(type, id) == [type |-> type, id |-> id, topic |-> <<>>, qos |-> 0, n |-> 0]
NoCall == [op |-> "none", want |-> "none", id |-> 0, timer |-> 0, topic |-> <<>>]

MqttInit ==
  /\ mc = [isconnected |-> FALSE, ping_outstanding |-> FALSE, next |-> 1, handlers |-> [i \in 1..MaxHandlers |-> <<>>], ping_timer |-> KeepAlive]
  /\ call = NoCall /\ toBroker = <<>> /\ toClient = <<>> /\ open = FALSE /\ subscribed = {}
  /\ result = [op |-> "none", rc |-> "none", id |-> 0, answer |-> 0, late |-> FALSE]
  /\ owed = {} /\ seen = {} /\ handed = {} /\ calls = 0 /\ messages = 0

\* NetworkConnect: a connection, or a new one after the last was lost.
NetworkConnect ==
  /\ ~open /\ call = NoCall /\ calls < MaxCalls
  /\ open' = TRUE /\ toBroker' = <<>> /\ toClient' = <<>> /\ subscribed' = {}
  /\ owed' = {}
  /\ UNCHANGED <<mc, call, result, seen, handed, calls, messages>>

Lost ==
  /\ open /\ open' = FALSE
  /\ UNCHANGED <<mc, call, toBroker, toClient, subscribed, result, owed, seen, handed, calls, messages>>

--------------------------------------------------------------------------------
(* Topics *)

\* The last character of the level that begins at j.
Skip(n, j) == LET stop == {k \in (j + 1)..Len(n) : n[k] = "/"} IN IF stop = {} THEN Len(n) ELSE (CHOOSE k \in stop : \A l \in stop : k <= l) - 1

\* isTopicMatched, from the i-th character of the filter and the j-th of the name.
Matched(f, n) ==
  LET from[i \in 1..(Len(f) + 1), j \in 1..(Len(n) + 1)] ==
        IF i > Len(f) \/ j > Len(n) THEN j = Len(n) + 1 /\ i = Len(f) + 1
        ELSE IF (n[j] = "/" /\ f[i] # "/") \/ (f[i] \notin {"+", "#"} /\ f[i] # n[j]) THEN FALSE
        ELSE from[i + 1, IF f[i] = "+" THEN Skip(n, j) + 1 ELSE IF f[i] = "#" THEN Len(n) + 1 ELSE j + 1]
  IN from
isTopicMatched(f, n) == Matched(f, n)[1, 1]

\* What the broker does: the levels are compared one by one, and a # stands for all
\* that follow or for none (external).
Levels(s) ==
  LET upto[k \in 0..Len(s)] ==
        IF k = 0 THEN <<<<>>>>
        ELSE IF s[k] = "/" THEN Append(upto[k-1], <<>>)
        ELSE Front(upto[k-1]) \o <<Append(Last(upto[k-1]), s[k])>>
  IN upto[Len(s)]
Covers(f, n) ==
  LET Fit(m) == m <= Len(n) /\ \A k \in 1..m : f[k] \in {<<"+">>, n[k]}
  IN \/ Len(f) = Len(n) /\ Fit(Len(n))
     \/ \E k \in DOMAIN f : f[k] = <<"#">> /\ Fit(k - 1)

--------------------------------------------------------------------------------
(* Sending *)

getNextPacketId == IF mc.next = MAX_PACKET_ID THEN 1 ELSE mc.next + 1

\* sendPacket: the packet is under way and the ping timer starts anew, or nothing
\* is sent because the connection is gone.
sendPacket(client, p) ==
  IF open THEN toBroker' = Append(toBroker, p) /\ mc' = [client EXCEPT !.ping_timer = KeepAlive]
  ELSE UNCHANGED toBroker /\ mc' = client

Ends(op, rc, id, answer, late) == call' = NoCall /\ result' = [op |-> op, rc |-> rc, id |-> id, answer |-> answer, late |-> late]

\* The beginning of every call: a client that is not connected refuses (MQTTConnect
\* one that is); a packet that cannot be sent fails; otherwise the answer is awaited.
Begins(op, type, want, id, topic, qos) ==
  LET client == [mc EXCEPT !.next = IF id = 0 THEN @ ELSE id]
  IN /\ call = NoCall /\ calls < MaxCalls /\ Len(toBroker) < MaxPending
     /\ calls' = calls + 1
     /\ IF mc.isconnected = (op = "connect")
        THEN Ends(op, "failure", id, 0, FALSE) /\ UNCHANGED <<mc, toBroker>>
        ELSE /\ sendPacket(client, [Packet(type, id) EXCEPT !.topic = topic, !.qos = qos])
             /\ IF ~open THEN Ends(op, "failure", id, 0, FALSE)
                ELSE IF want = "none" THEN Ends(op, "success", id, id, FALSE)
                ELSE call' = [op |-> op, want |-> want, id |-> id, timer |-> CommandTimeout, topic |-> topic] /\ UNCHANGED result
     /\ UNCHANGED <<toClient, open, subscribed, owed, seen, handed, messages>>

MQTTConnect == Begins("connect", "connect", "connack", 0, <<>>, 0)
MQTTSubscribe(f) == Begins("subscribe", "subscribe", "suback", getNextPacketId, f, 0)
MQTTUnsubscribe(f) == Begins("unsubscribe", "unsubscribe", "unsuback", getNextPacketId, f, 0)
MQTTPublish(qos) ==
  Begins("publish", "publish", <<"none", "puback", "pubcomp">>[qos + 1], IF qos = 0 THEN 0 ELSE getNextPacketId, <<"a">>, qos)

\* MQTTDisconnect: whatever becomes of the packet; the program closes the socket.
MQTTDisconnect ==
  /\ call = NoCall /\ calls < MaxCalls
  /\ calls' = calls + 1 /\ open' = FALSE
  /\ mc' = [mc EXCEPT !.isconnected = FALSE]
  /\ Ends("disconnect", IF open THEN "success" ELSE "failure", 0, 0, FALSE)
  /\ UNCHANGED <<toBroker, toClient, subscribed, owed, seen, handed, messages>>

--------------------------------------------------------------------------------
(* Reading *)

\* keepalive: with the timer expired and no ping on its way, one is sent.
Pings(client) ==
  IF open /\ client.ping_timer = 0 /\ ~client.ping_outstanding
  THEN [client |-> [client EXCEPT !.ping_outstanding = TRUE, !.ping_timer = KeepAlive], packets |-> <<Packet("pingreq", 0)>>]
  ELSE [client |-> client, packets |-> <<>>]

\* Mutant: the first handler alone is called.
Handlers_first(topic) ==
  LET fits == {i \in 1..MaxHandlers : mc.handlers[i] # <<>> /\ isTopicMatched(mc.handlers[i], topic)}
  IN {mc.handlers[i] : i \in {x \in fits : \A y \in fits : x <= y}}
\* deliverMessage: the handlers called for a topic.
Handlers(topic) ==
  {mc.handlers[i] : i \in {x \in 1..MaxHandlers : mc.handlers[x] # <<>> /\ (mc.handlers[x] = topic \/ isTopicMatched(mc.handlers[x], topic))}}

\* What cycle sends for a packet: acknowledgements; a PUBREL is not answered.
Replies(p) ==
  CASE p.type = "publish" /\ p.qos = 1 -> <<Packet("puback", p.id)>>
    [] p.type = "publish" /\ p.qos = 2 -> <<Packet("pubrec", p.id)>>
    [] p.type = "pubrec" -> <<Packet("pubrel", p.id)>>
    [] OTHER -> <<>>

\* The answer of a call is there.  MQTTSubscribe stores the handler in the first
\* place that is free or has the filter already; 128 is a refusal.  A table that is
\* full is not reported.
Stored(f) ==
  LET fits == {i \in 1..MaxHandlers : mc.handlers[i] \in {<<>>, f}}
      i == CHOOSE x \in fits : \A y \in fits : x <= y
  IN IF fits = {} THEN mc.handlers ELSE [mc.handlers EXCEPT ![i] = f]
Answered(client, p) ==
  CASE call.op = "connect" -> [client EXCEPT !.isconnected = p.qos = 0]
    [] call.op = "subscribe" /\ p.qos # 128 -> [client EXCEPT !.handlers = Stored(call.topic)]
    [] OTHER -> client

\* Mutant: every packet with an identifier ends the wait.
IsAwaited_any(p) == call.op # "none" /\ p.type \in {call.want, "puback", "suback", "unsuback", "pubcomp"}
\* waitfor looks at the type alone.
IsAwaited(p) == call.op # "none" /\ p.type = call.want

Awaits(p) ==
  IF IsAwaited(p) THEN Ends(call.op, IF p.qos \in {0, 1, 2} THEN "success" ELSE "failure", call.id, p.id, p.type = call.want /\ <<p.type, p.id>> \in owed)
  ELSE UNCHANGED <<call, result>>

Noticed(p) == IF p.type = "pingresp" THEN [mc EXCEPT !.ping_outstanding = FALSE] ELSE mc

\* The answer to the call.  One that took another call's leaves its own behind.
Answer == <<call.want, call.id>>

\* cycle, with a packet; in a call or in MQTTRun.  The replies come before the ping.
Cycle ==
  LET p == Head(toClient)
      replied == IF Replies(p) # <<>> /\ open THEN [Noticed(p) EXCEPT !.ping_timer = KeepAlive] ELSE Noticed(p)
      pinged == Pings(replied)
  IN /\ toClient # <<>> /\ Len(toBroker) < MaxPending
     /\ toClient' = Tail(toClient)
     /\ toBroker' = IF open THEN toBroker \o Replies(p) \o pinged.packets ELSE toBroker
     /\ mc' = IF IsAwaited(p) THEN Answered(pinged.client, p) ELSE pinged.client
     /\ Awaits(p)
     /\ owed' = owed \cup (IF IsAwaited(p) THEN {Answer} \ {<<p.type, p.id>>} ELSE {})
     /\ seen' = IF p.type = "publish" THEN seen \cup {[n |-> p.n, topic |-> p.topic, filters |-> ToSet(mc.handlers) \ {<<>>}]} ELSE seen
     /\ handed' = IF p.type = "publish" THEN handed \cup {<<p.n, f>> : f \in Handlers(p.topic)} ELSE handed
     /\ UNCHANGED <<open, subscribed, calls, messages>>

\* cycle, with nothing to read or a connection that is gone: waitfor goes on in
\* either case until the time of the call is up; no time passes in a cycle that
\* has a packet.
CycleEmpty ==
  LET aged == [mc EXCEPT !.ping_timer = IF @ > 0 THEN @ - 1 ELSE 0]
      pinged == Pings(aged)
  IN /\ toClient = <<>> /\ Len(toBroker) < MaxPending /\ (call = NoCall => open)
     /\ mc' = pinged.client /\ toBroker' = toBroker \o pinged.packets
     /\ IF call = NoCall THEN UNCHANGED <<call, result, owed>>
        ELSE IF call.timer > 1 THEN call' = [call EXCEPT !.timer = @ - 1] /\ UNCHANGED <<result, owed>>
        ELSE Ends(call.op, "failure", call.id, 0, FALSE) /\ owed' = owed \cup {Answer}
     /\ UNCHANGED <<toClient, open, subscribed, seen, handed, calls, messages>>

--------------------------------------------------------------------------------
(* The broker (external) *)

BrokerAnswer(p, refuse) ==
  CASE p.type = "connect" -> <<[Packet("connack", 0) EXCEPT !.qos = IF refuse THEN 5 ELSE 0]>>
    [] p.type = "subscribe" -> <<[Packet("suback", p.id) EXCEPT !.qos = IF refuse THEN 128 ELSE 0]>>
    [] p.type = "unsubscribe" -> <<Packet("unsuback", p.id)>>
    [] p.type = "publish" /\ p.qos = 1 -> <<Packet("puback", p.id)>>
    [] p.type = "publish" /\ p.qos = 2 -> <<Packet("pubrec", p.id)>>
    [] p.type = "pubrel" -> <<Packet("pubcomp", p.id)>>
    [] p.type = "pingreq" -> <<Packet("pingresp", 0)>>
    [] OTHER -> <<>>

BrokerReads(refuse) ==
  LET p == Head(toBroker)
  IN /\ open /\ toBroker # <<>> /\ Len(toClient) < MaxPending
     /\ toBroker' = Tail(toBroker) /\ toClient' = toClient \o BrokerAnswer(p, refuse)
     /\ subscribed' = IF p.type = "subscribe" /\ ~refuse THEN subscribed \cup {p.topic}
                      ELSE IF p.type = "unsubscribe" THEN subscribed \ {p.topic} ELSE subscribed
     /\ UNCHANGED <<mc, call, open, result, owed, seen, handed, calls, messages>>

BrokerPublishes(topic, qos) ==
  /\ open /\ messages < MaxMessages /\ Len(toClient) < MaxPending
  /\ \E f \in subscribed : Covers(Levels(f), Levels(topic))
  /\ messages' = messages + 1
  /\ toClient' = Append(toClient, [type |-> "publish", id |-> IF qos = 0 THEN 0 ELSE 1, topic |-> topic, qos |-> qos, n |-> messages + 1])
  /\ UNCHANGED <<mc, call, toBroker, open, subscribed, result, owed, seen, handed, calls>>

MqttNext ==
  \/ NetworkConnect \/ Lost \/ MQTTConnect \/ MQTTDisconnect \/ Cycle \/ CycleEmpty
  \/ \E f \in Filters : MQTTSubscribe(f) \/ MQTTUnsubscribe(f)
  \/ \E qos \in 0..2 : MQTTPublish(qos)
  \/ \E refuse \in BOOLEAN : BrokerReads(refuse)
  \/ \E topic \in Names, qos \in 0..2 : BrokerPublishes(topic, qos)

MqttSpec == MqttInit /\ [][MqttNext]_mqttVars

--------------------------------------------------------------------------------
(* Properties *)

\* A call succeeds with the broker's answer to it, or with the answer to an earlier
\* call of its kind that had given up, since waitfor compares no identifiers; never
\* with anything else that arrives while it waits.
AnswerIsOwn ==
  result.rc = "success" /\ result.op \in {"subscribe", "unsubscribe", "publish"} => result.id = result.answer \/ result.late

\* A wildcard that has no character to stand for: the level in its place is empty, or
\* a # has no level left (a/# for a and for a//b, +/b for /b, a/+ for a/, # for /a).
StandsForNone(f, n) ==
  \E k \in DOMAIN f :
    \/ f[k] = <<"+">> /\ n[k] = <<>>
    \/ f[k] = <<"#">> /\ (k > Len(n) \/ n[k] = <<>>)

\* A message goes to the handlers of all filters that cover its topic and to no
\* other, but for the filters with a wildcard that has no character to stand for:
\* these isTopicMatched misses, and the broker sends the message all the same.
MessagesReach ==
  \A s \in seen : \A f \in s.filters :
    <<s.n, f>> \in handed <=> Covers(Levels(f), Levels(s.topic)) /\ ~StandsForNone(Levels(f), Levels(s.topic))
================================================================================

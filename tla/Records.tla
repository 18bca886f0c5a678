-------------------------------- MODULE Records --------------------------------
(***************************************************************************)
(* From the configuration file to the published record, in                 *)
(* src/open62541_mqtt/mqtt: config, load and make_group                    *)
(* (client-config.cpp), getUA_NodeID (client-nodeid.cpp), callback,        *)
(* monitor_start, opcua_poll and what opcua_poll_group puts together of    *)
(* the values it reads (client-monitoring.cpp).                            *)
(*                                                                         *)
(* The connection those reads go through is in Bridge, the sinks that take *)
(* the records are in Sinks.  A file is given as json-c delivers it: the   *)
(* members of an object in their order, and a text as the value the code   *)
(* sees in it.  The lengths of texts, and the fixed buffers they are       *)
(* copied to, are left out.                                                *)
(***************************************************************************)
EXTENDS Integers, Sequences, FiniteSets, SequencesExt

CONSTANTS
  Documents,     \* configuration files, see below
  Abbreviations, \* [key |-> the fields it is a proper prefix of]
  Numeral,       \* [word |-> number], of the words atoi reads a number in
  IntBits,       \* an int holds -(2^IntBits) .. 2^IntBits - 1 (31)
  Readings,       \* what a server may answer: [type, v], or type "Failed"
  MaxRounds      \* bound on the rounds of a poll thread, and on events

\* A document: [args, readable, syntax : BOOLEAN, present : set of paths,
\*              method, async, map : Seq of objects]
\* An object is a sequence of members [key, val], each key once.
IsObject(o) ==
  /\ o \in Seq(ToSet(o))
  /\ \A j, k \in DOMAIN o : o[j].key = o[k].key => j = k

ASSUME DocumentConstants ==
  \A doc \in Documents :
    /\ doc.map \in Seq(ToSet(doc.map))
    /\ \A o \in ToSet(doc.map) :
         /\ IsObject(o)
         /\ \A e \in ToSet(o) : e.key = "nodes" => e.val \in Seq(ToSet(e.val)) /\ \A n \in ToSet(e.val) : IsObject(n)

VARIABLES
  document,  \* the file the command line names
  phase,     \* "start", "refused", "running" or "undefined"
  groups,    \* gmap: the groups in order
  thread,    \* poll threads: [pc, k, jobj, kvs, round, seen]
  skv,       \* the static buffer of a key and its value: [by, text]
  topic,     \* the static buffer of a topic: the group written last
  events,    \* number of notifications so far
  delivered       \* the record the last step gave to the sinks
recordVars == <<document, phase, groups, thread, skv, topic, events, delivered>>

--------------------------------------------------------------------------------
(* Loading *)

DevicePaths == {"Device", "Device.deviceID"}
ServerPaths ==
  {"opcuaServer", "EndpointURL", "publishIntervalUs", "asycRequestSupported", "method",
   "mqttBrocker", "mqtt.enable", "mqtt.ip", "mqtt.port", "mqtt.topicBase",
   "amqpRabbit", "amqp.enable", "amqp.ip", "amqp.port", "amqp.topicBase",
   "tcpSever", "tcp.ip", "tcp.port", "tcp.sampleIntervalUs", "tcp.singleshot", "tcp.enable"}

\* A section that is there must be whole; a section that is not leaves the fields
\* of the configuration as they are.  Without a valid object neither is there.
Sections(doc) == IF doc.syntax THEN doc.present ELSE {}
SectionMissing(doc) ==
  \/ "device-configuration" \in Sections(doc) /\ ~(DevicePaths \subseteq Sections(doc))
  \/ "server-configuration" \in Sections(doc) /\ ~(ServerPaths \subseteq Sections(doc))

\* g_config->method and asycRequestSupported are zero until they are read.
Method(doc) == IF "server-configuration" \in Sections(doc) THEN doc.method ELSE ""
Async(doc) == "server-configuration" \in Sections(doc) /\ doc.async

\* strncmp over the length of the key: a key that is a prefix of a field's name
\* is taken for the first such field of the chain.
GroupFields == <<"name", "method", "intervalUSec", "topic", "format", "mqtt", "amqp", "tcp", "enable", "nodes">>
NodeFields == <<"id", "topic", "alias">>
Denotes(key) == IF key \in DOMAIN Abbreviations THEN Abbreviations[key] ELSE {key}
FieldOf(key, chain) ==
  LET fits == {i \in DOMAIN chain : chain[i] \in Denotes(key)}
  IN IF fits = {} THEN "none" ELSE chain[CHOOSE i \in fits : \A j \in fits : i <= j]

\* The name of a field is not the prefix of another's.
ASSUME FieldConstants == DOMAIN Abbreviations \cap (ToSet(GroupFields) \cup ToSet(NodeFields)) = {}

\* Mutant: an empty alias stays empty.
FieldGiven_emptyAlias(n, key, val) ==
  LET f == FieldOf(key, NodeFields) IN IF f = "none" THEN n ELSE [n EXCEPT ![f] = val]

\* A member of a node; an empty alias is the topic that is known by then.
FieldGiven(n, key, val) ==
  LET f == FieldOf(key, NodeFields)
  IN IF f = "none" THEN n
     ELSE IF f = "alias" /\ val = "" THEN [n EXCEPT !.alias = n.topic]
     ELSE [n EXCEPT ![f] = val]

\* All members of a node.
NodeGiven(n, o) ==
  LET upto[k \in 0..Len(o)] == IF k = 0 THEN n ELSE FieldGiven(upto[k-1], o[k].key, o[k].val)
  IN upto[Len(o)]

\* The nodes of a group.  One variable serves for all of them: what a node does not
\* give, it has from the node before it.
NoNode == [id |-> <<>>, topic |-> "undef", alias |-> "undef"]
NodesOf(list) ==
  LET n[k \in 0..Len(list)] == IF k = 0 THEN NoNode ELSE NodeGiven(n[k-1], list[k])
  IN [k \in DOMAIN list |-> n[k]]

\* map::insert: a node that is there already stays.
Inserted(old, new) == old \o SubSeq(new, Len(old) + 1, Len(new))

\* make_group, which ends at the first key it does not know; its result is
\* ignored and the group is kept with what it has.
NoGroup == [f \in {"name", "method", "topic", "format", "mqtt", "tcp", "enable"} |-> "undef"]
NewGroup == [flds |-> NoGroup, nodes |-> <<>>, open |-> TRUE]
FieldTaken(g, f, val) ==
  IF f = "none" THEN [g EXCEPT !.open = FALSE]
  ELSE IF f = "nodes" THEN [g EXCEPT !.nodes = Inserted(@, NodesOf(val))]
  ELSE IF f \in DOMAIN NoGroup THEN [g EXCEPT !.flds[f] = val] ELSE g
make_group(o) ==
  LET upto[k \in 0..Len(o)] ==
        IF k = 0 THEN NewGroup
        ELSE IF upto[k-1].open THEN FieldTaken(upto[k-1], FieldOf(o[k].key, GroupFields), o[k].val) ELSE upto[k-1]
  IN upto[Len(o)]

\* A text that was never set is printed or used: anything may happen.
NodeUndefined(n) == n.id = <<>> \/ n.topic = "undef" \/ n.alias = "undef"
GroupUndefined(g) ==
  \/ \E f \in {"name", "method", "topic", "format"} : g.flds[f] = "undef"
  \/ \E k \in DOMAIN g.nodes : NodeUndefined(g.nodes[k])

\* The flags of a group that were never set are whatever the stack holds.
Flags(g, b) == [g EXCEPT !.flds = [f \in DOMAIN g.flds |-> IF g.flds[f] = "undef" /\ f \in DOMAIN b THEN b[f] ELSE g.flds[f]]]

--------------------------------------------------------------------------------
(* Node ids, written as their pieces: split at ';', and each at '=' *)

atoi(w) == IF w \in DOMAIN Numeral THEN Numeral[w] ELSE 0

\* One word of a piece.  The word behind it is read whether it is there or not.
IdWord(ua, y, j) ==
  IF ua.done THEN ua
  ELSE IF j > Len(y) \/ (y[j] \in {"ns", "i", "s"} /\ j = Len(y)) THEN [ua EXCEPT !.valid = FALSE, !.done = TRUE]
  ELSE IF y[j] = "ns" THEN [ua EXCEPT !.ns = atoi(y[j + 1]) % 65536]
  ELSE IF y[j] = "i" THEN [ua EXCEPT !.type = "numeric", !.ident = ToString(atoi(y[j + 1])), !.done = TRUE]
  ELSE IF y[j] = "s" THEN [ua EXCEPT !.type = "string", !.ident = y[j + 1], !.done = TRUE]
  ELSE ua

\* getUA_NodeID.  As many words of each piece are looked at as there are pieces.
IdPiece(ua, y, words) ==
  LET upto[j \in 0..words] == IF j = 0 THEN [ua EXCEPT !.done = FALSE] ELSE IdWord(upto[j-1], y, j)
  IN upto[words]
NoId == [ns |-> -1, type |-> "undef", ident |-> "undef", valid |-> TRUE, done |-> FALSE]
getUA_NodeID(id) ==
  LET upto[k \in 0..Len(id)] == IF k = 0 THEN NoId ELSE IdPiece(upto[k-1], id[k], Len(id))
  IN upto[Len(id)]

IdKnown(ua) == ua.valid /\ ua.ns # -1 /\ ua.type # "undef"

--------------------------------------------------------------------------------
(* The groups that are watched *)

\* A word is compared as far as the value goes, so that a beginning of it is enough.
getMonitorMode(method) == IF method \in {"", "e", "ev", "eve", "even", "event"} THEN "event" ELSE "poll"
getPayloadFormat(format) == IF format \in {"k", "kv"} THEN "kv" ELSE "json"

Watched(mode, gs, doc) ==
  IF ~Async(doc) /\ getMonitorMode(Method(doc)) # mode THEN {}
  ELSE {i \in DOMAIN gs : getMonitorMode(gs[i].flds.method) = mode /\ gs[i].flds.enable = "yes"}
PollGroups == Watched("poll", groups, document)
EventGroups == Watched("event", groups, document)
IdsUndefined(gs, doc) ==
  \E i \in Watched("poll", gs, doc) \cup Watched("event", gs, doc) :
     \E k \in DOMAIN gs[i].nodes : ~IdKnown(getUA_NodeID(gs[i].nodes[k].id))

NewThread == [pc |-> "begin", k |-> 1, jobj |-> <<>>, kvs |-> <<>>, round |-> 0, seen |-> <<>>]

\* config and load, and, when they succeed, monitor_start and opcua_poll.
Refuse ==
  /\ ~document.args \/ ~document.readable \/ SectionMissing(document)
  /\ phase' = "refused" /\ UNCHANGED <<groups, thread>>
load ==
  /\ document.args /\ document.readable /\ ~SectionMissing(document)
  /\ \E b \in [{"mqtt", "tcp", "enable"} -> {"yes", "no"}] :
       LET objects == IF document.syntax THEN document.map ELSE <<>>
           gs == [i \in DOMAIN objects |-> Flags(make_group(objects[i]), b)]
       IN /\ groups' = gs
          /\ phase' = IF (\E i \in DOMAIN gs : GroupUndefined(gs[i])) \/ IdsUndefined(gs, document)
                      THEN "undefined" ELSE "running"
          /\ thread' = [i \in Watched("poll", gs, document) |-> NewThread]
config ==
  /\ phase = "start"
  /\ Refuse \/ load
  /\ UNCHANGED <<document, skv, topic, events, delivered>>

--------------------------------------------------------------------------------
(* Values *)

\* What the value of a node is published as.  The unsigned types are printed as
\* signed ones; a text is published only when it is not empty.
Supported(s) == s.type \in {"Int32", "UInt32", "String"}
Published(s) == IF s.type = "UInt32" /\ s.v >= 2 ^ IntBits THEN s.v - 2 ^ (IntBits + 1) ELSE s.v
HasMember(s) == Supported(s) /\ ~(s.type = "String" /\ s.v = 0)

\* json_object_object_add: a member of that name is replaced, a new one added.
HasAlias(jobj, alias) == \E k \in DOMAIN jobj : jobj[k].alias = alias
WithMember(jobj, alias, v) ==
  IF HasAlias(jobj, alias) THEN [k \in DOMAIN jobj |-> IF jobj[k].alias = alias THEN [alias |-> alias, v |-> v] ELSE jobj[k]]
  ELSE Append(jobj, [alias |-> alias, v |-> v])

SinksOf(g) == {s \in {"mqtt", "tcp"} : groups[g].flds[s] = "yes"}
Nothing == [from |-> "none", group |-> 0, topic |-> 0, format |-> "none", json |-> <<>>, kvs |-> <<>>, to |-> {}, seen |-> <<>>]
Record(from, g, about, jobj, kvs, seen) ==
  [from |-> from, group |-> g, topic |-> about, format |-> getPayloadFormat(groups[g].flds.format),
   json |-> WithMember(jobj, "time", 0), kvs |-> kvs, to |-> SinksOf(g), seen |-> seen]

--------------------------------------------------------------------------------
(* A poll thread *)

Node(g, k) == groups[g].nodes[k]

\* Nothing is given to the sinks.
Silent == delivered' = Nothing

BeginRound(g) ==
  /\ thread[g].pc = "begin" /\ thread[g].round < MaxRounds
  /\ thread' = [thread EXCEPT ![g].pc = "read", ![g].k = 1, ![g].round = @ + 1]
  /\ Silent /\ UNCHANGED <<skv, topic>>

\* A read that fails, a type that is not supported: on to the next node.
ReadSkips(g) ==
  /\ thread[g].pc = "read" /\ thread[g].k <= Len(groups[g].nodes)
  /\ \E s \in Readings : ~Supported(s)
  /\ thread' = [thread EXCEPT ![g].k = @ + 1]
  /\ Silent /\ UNCHANGED <<skv, topic>>

\* The value goes into the object, and with its alias into the static buffer.
ReadValue(g) ==
  LET t == thread[g]
      alias == Node(g, t.k).alias
  IN /\ t.pc = "read" /\ t.k <= Len(groups[g].nodes)
     /\ \E s \in {x \in Readings : Supported(x)} :
          /\ thread' = [thread EXCEPT ![g].pc = "copy",
                                      ![g].jobj = IF HasMember(s) THEN WithMember(@, alias, Published(s)) ELSE @,
                                      ![g].seen = Append(@, [k |-> t.k, s |-> s])]
          /\ skv' = [by |-> g, text |-> [alias |-> alias, v |-> Published(s)]]
     /\ Silent /\ UNCHANGED topic

\* The buffer is copied.  When another thread has written to it since, its text
\* may be the other's or a mixture.
CopyText(g) ==
  /\ thread[g].pc = "copy"
  /\ \E text \in {skv.text} \cup (IF skv.by = g THEN {} ELSE {[alias |-> "mixed", v |-> 0]}) :
       thread' = [thread EXCEPT ![g].pc = "read", ![g].k = @ + 1, ![g].kvs = Append(@, text)]
  /\ Silent /\ UNCHANGED <<skv, topic>>

WriteTopic(g) ==
  /\ thread[g].pc = "read" /\ thread[g].k > Len(groups[g].nodes)
  /\ topic' = g
  /\ thread' = [thread EXCEPT ![g].pc = "publish"]
  /\ Silent /\ UNCHANGED skv

\* Mutant: the object and the texts of the round are used again in the next.
Released_kept(t) == [t EXCEPT !.pc = "begin", !.seen = <<>>]

\* The object and the texts are freed, the next round makes new ones.
Released(t) == [t EXCEPT !.pc = "begin", !.seen = <<>>, !.jobj = <<>>, !.kvs = <<>>]

\* An empty object is not published.
PublishRound(g) ==
  LET t == thread[g]
  IN /\ t.pc = "publish"
     /\ delivered' = IF t.jobj = <<>> THEN Nothing
                ELSE Record("poll", g, topic, t.jobj, Append(t.kvs, [alias |-> "time", v |-> 0]), t.seen)
     /\ thread' = [thread EXCEPT ![g] = Released(@)]
     /\ UNCHANGED <<skv, topic>>

opcua_poll_group(g) ==
  /\ BeginRound(g) \/ ReadSkips(g) \/ ReadValue(g) \/ CopyText(g) \/ WriteTopic(g) \/ PublishRound(g)
  /\ UNCHANGED <<document, phase, groups, events>>

\* callback, in the main thread: one node, with buffers of its own.
callback(g, k) ==
  /\ events < MaxRounds /\ events' = events + 1
  /\ \E s \in Readings :
       LET alias == Node(g, k).alias
           member == [alias |-> alias, v |-> Published(s)]
       IN delivered' = IF ~HasMember(s) THEN Nothing
                  ELSE Record("event", g, g, <<member>>, <<[alias |-> "time", v |-> 0], member>>, <<[k |-> k, s |-> s]>>)
  /\ UNCHANGED <<document, phase, groups, thread, skv, topic>>

RecordsInit ==
  /\ document \in Documents
  /\ phase = "start" /\ groups = <<>> /\ thread = <<>>
  /\ skv = [by |-> 0, text |-> [alias |-> "", v |-> 0]] /\ topic = 0
  /\ events = 0 /\ delivered = Nothing

RecordsNext ==
  \/ config
  \/ /\ phase = "running"
     /\ \/ \E g \in PollGroups : opcua_poll_group(g)
        \/ \E g \in EventGroups : \E k \in DOMAIN groups[g].nodes : callback(g, k)

RecordsSpec == RecordsInit /\ [][RecordsNext]_recordVars

--------------------------------------------------------------------------------
(* Properties *)

\* What the values read of the nodes ns in a round make of the object, the last
\* value of an alias counting, and what they make of the list of texts.
Adds(o, ns, e) == IF HasMember(e.s) THEN WithMember(o, ns[e.k].alias, Published(e.s)) ELSE o
MembersOf(ns, seen) ==
  LET upto[k \in 0..Len(seen)] == IF k = 0 THEN <<>> ELSE Adds(upto[k-1], ns, seen[k])
  IN upto[Len(seen)]
TextsOf(ns, seen) == {[alias |-> ns[e.k].alias, v |-> Published(e.s)] : e \in ToSet(seen)}
MembersRead(r) == MembersOf(groups[r.group].nodes, r.seen)
TextsRead(r) == TextsOf(groups[r.group].nodes, r.seen)

\* A record carries the values of its own round and of its own group, whichever
\* threads poll at the same time, whatever failed to be read this time or was read
\* last time.  A list of key and value texts, and a topic, keep that only while a
\* single thread polls: the buffers they are put together in are shared.
RecordsOwn ==
  delivered.from # "none" =>
    /\ delivered.json = WithMember(MembersRead(delivered), "time", 0)
    /\ delivered.from = "event" \/ Cardinality(PollGroups) = 1 =>
         /\ delivered.topic = delivered.group
         /\ ToSet(delivered.kvs) = TextsRead(delivered) \cup {[alias |-> "time", v |-> 0]}

\* The node a file names: the words behind ns and behind i or s.
NamedBy(id) ==
  [ns |-> atoi(id[1][2]), type |-> IF id[2][1] = "i" THEN "numeric" ELSE "string",
   ident |-> IF id[2][1] = "i" THEN ToString(atoi(id[2][2])) ELSE id[2][2]]
MemberOf(o, key) == (CHOOSE k \in DOMAIN o : o[k].key = key)
UInt16 == 0..65535
PlainId(id) ==
  /\ Len(id) = 2 /\ \A p \in 1..2 : Len(id[p]) = 2
  /\ id[1][1] = "ns" /\ atoi(id[1][2]) \in UInt16
GivesFields(o) == [k \in DOMAIN o |-> o[k].key] = <<"id", "topic", "alias">>
PlainNode(o) == GivesFields(o) /\ PlainId(o[1].val)
WrittenNodes(g) == document.map[g][MemberOf(document.map[g], "nodes")].val
PlainGroup(g) ==
  /\ {document.map[g][k].key : k \in DOMAIN document.map[g]} \subseteq ToSet(GroupFields)
  /\ \A k \in DOMAIN WrittenNodes(g) : PlainNode(WrittenNodes(g)[k])

\* What the file writes is what is watched and published: in a group whose nodes
\* give an id "ns=..;i=.." or "ns=..;s=..", a topic and an alias, each value was
\* read from the node named beside the alias, or, where the alias is empty, beside
\* the topic it is published under.
PublishesConfigured ==
  delivered.from # "none" /\ PlainGroup(delivered.group) =>
    \A e \in ToSet(delivered.seen) :
      LET o == WrittenNodes(delivered.group)[e.k]
          name == IF o[3].val = "" THEN o[2].val ELSE o[3].val
          ua == getUA_NodeID(Node(delivered.group, e.k).id)
      IN /\ [ns |-> ua.ns, type |-> ua.type, ident |-> ua.ident] = NamedBy(o[1].val)
         /\ HasMember(e.s) => HasAlias(delivered.json, name)

\* The example of the repository's README ("config.json modify") loads.
ReadmeExampleLoads == document.name = "readme" => phase # "refused"
================================================================================

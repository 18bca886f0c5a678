------------------------------ MODULE MCLibraries ------------------------------
(***************************************************************************)
(* The parts that share no state with the rest: the configuration and its  *)
(* records, the discovery server, the three formats and the MQTT client.   *)
(* A behaviour is one of one part; the others stay as they begin.          *)
(***************************************************************************)
EXTENDS MCRecords, Discovery, Mdns, Codec, JsonText, JsonObjects, MqttPackets, MqttClient

VARIABLE part

--------------------------------------------------------------------------------
(* Discovery *)

MCNames == {<<"a">>, <<"a", "b">>}
MCAnnounced == [n \in MCNames |-> IF n = <<"a">> THEN [host |-> "h1:1", path |-> "/p", caps |-> <<"DA">>]
                                  ELSE [host |-> "h2:2", path |-> "/", caps |-> <<"DA", "HD">>]]
MCBucketOf == [n \in MCNames |-> Len(n)]
MCSearches == [start : 0..1, max : 0..1, filter : {{}, {"DA"}}]

Url(h, p) == [valid |-> TRUE, host |-> h, port |-> p, path |-> ""]
Req(u, urls, sem, online) == [uri |-> u, name |-> u, urls |-> urls, sem |-> sem, online |-> online, caps |-> {}]
MCOwnRequest == [Req("own", <<Url("h", 1)>>, "none", TRUE) EXCEPT !.caps = {"DA"}]
TwoUrls == <<Url("g", 1), Url("g", 3)>>
MCRequests == {Req("s", TwoUrls, "f", TRUE), Req("s", TwoUrls, "none", FALSE), Req("s", <<Url("g", 3)>>, "none", TRUE),
               Req("s", <<Url("g", 3)>>, "none", FALSE), Req("s", <<>>, "none", TRUE), [Req("s", TwoUrls, "none", TRUE) EXCEPT !.name = "none"]}
MCLayers == <<Url("h", 1), Url("h", 2)>>
MCQueries == {<<>>, <<"self", "own">>, <<"s", "s">>}
\* The domains of the server that registers and of the other one fall into one list.
MCBucket(name) == CASE name = <<"_opcua-tcp">> -> 0 [] name[1] \in {"own", "s"} -> 1 [] OTHER -> 2
MCClaimed == {<<"s", "g">>}

--------------------------------------------------------------------------------
(* OPC UA binary *)

M(t) == [type |-> t, array |-> FALSE]
A(t) == [type |-> t, array |-> TRUE]

\* Members, sizes and ids as the generated types have them.
MCStructs == [
  QualifiedName |-> [members |-> <<M("UInt16"), M("String")>>, size |-> 24, typeId |-> 20, binaryId |-> 0],
  ReadValueId |-> [members |-> <<M("NodeId"), M("UInt32"), M("String"), M("QualifiedName")>>, size |-> 72, typeId |-> 626, binaryId |-> 628],
  WriteValue |-> [members |-> <<M("NodeId"), M("UInt32"), M("String"), M("DataValue")>>, size |-> 144, typeId |-> 668, binaryId |-> 670],
  RelativePathElement |-> [members |-> <<M("NodeId"), M("Boolean"), M("Boolean"), M("QualifiedName")>>, size |-> 56, typeId |-> 537, binaryId |-> 539],
  RelativePath |-> [members |-> <<A("RelativePathElement")>>, size |-> 16, typeId |-> 540, binaryId |-> 542],
  DeleteAtTimeDetails |-> [members |-> <<M("NodeId"), A("DateTime")>>, size |-> 40, typeId |-> 689, binaryId |-> 691]]

Text == Arr(<<7, 8, 9>>)
Num(ns, n) == [t |-> "numeric", ns |-> ns, id |-> <<n>>]
Str == [t |-> "string", ns |-> 1, id |-> <<65, 66>>]
Gui == [t |-> "guid", ns |-> 2, id |-> <<1, 2, 3, 4, 5, 6, 7, 8, 9, 10, 11>>]
Opq == [t |-> "bytestring", ns |-> 300, id |-> <<>>]
NodeIds == {Num(0, 255), Num(0, 256), Num(255, 1), Num(256, 1), Num(0, 65536), Num(1, 65535), Str, Gui, Opq}
Expanded == {[nodeId |-> Num(0, 5), uri |-> u, serverIndex |-> i] : u \in {NullArr, Text}, i \in {0, 9}}

None == [type |-> "none", array |-> FALSE, data |-> NullArr, dims |-> NullArr]
Scalar(t, v) == [type |-> t, array |-> FALSE, data |-> Arr(<<v>>), dims |-> NullArr]
Many(t, s, d) == [type |-> t, array |-> TRUE, data |-> s, dims |-> d]
Name(s) == <<1, s>>
Element(s) == <<Num(0, 47), 0, 1, Name(s)>>
Object(e, id, b, t, d) == [encoding |-> e, typeId |-> id, body |-> b, type |-> t, data |-> d]
Objects == {Object("nobody", Num(0, 1), NullArr, "none", <<>>), Object("bytestring", Num(1, 628), Text, "none", <<>>),
            Object("xml", Num(0, 628), Text, "none", <<>>), Object("decoded", Num(0, 628), NullArr, "ReadValueId", <<<<Str, 13, NullArr, Name(Text)>>>>)}
VariantValues == {None, Scalar("Boolean", 1), Scalar("String", Text), Many("UInt16", Arr(<<1, 2, 3, 4>>), Arr(<<2, 2>>)), Many("String", Arr(<<Text, NullArr>>), NullArr),
             Many("Byte", Arr(<<>>), NullArr), Many("Byte", NullArr, NullArr), Scalar("Variant", Scalar("Guid", <<1, 2, 3, 4, 5, 6, 7, 8, 9, 10, 11>>)),
             Scalar("WriteValue", <<Str, 13, NullArr, [value |-> <<Scalar("Byte", 3)>>, status |-> <<>>, sourceTimestamp |-> <<>>,
                                     sourcePicoseconds |-> <<>>, serverTimestamp |-> <<77>>, serverPicoseconds |-> <<5>>]>>),
             Many("ExtensionObject", Arr(<<CHOOSE x \in Objects : x.encoding = "decoded", CHOOSE x \in Objects : x.encoding = "xml">>), NullArr)}
DataValues == {[value |-> v, status |-> s, sourceTimestamp |-> t, sourcePicoseconds |-> p, serverTimestamp |-> u, serverPicoseconds |-> q] :
                 v \in {<<>>, <<Scalar("Int32", 5)>>}, s \in {<<>>, <<3>>}, t \in {<<>>, <<1000>>}, p \in {<<>>, <<9999>>}, u \in {<<>>, <<500>>}, q \in {<<>>, <<1>>}}
Texts == {[locale |-> l, text |-> x] : l \in {<<>>, <<Text>>}, x \in {<<>>, <<Text>>}}
Diagnostics == {[symbolicId |-> a, namespaceUri |-> <<>>, localizedText |-> b, locale |-> <<>>, additionalInfo |-> c, innerStatusCode |-> <<>>, innerDiagnosticInfo |-> <<>>] :
                 a \in {<<>>, <<4>>}, b \in {<<>>, <<5>>}, c \in {<<>>, <<Text>>}}

Of(t, values, caps) == [type : {t}, value : values, cap : caps]
Whole ==
  UNION {Of("NodeId", NodeIds, {10000}), Of("ExpandedNodeId", Expanded, {10000}), Of("Variant", VariantValues, {10000}),
         Of("ExtensionObject", Objects, {10000}), Of("DataValue", DataValues, {10000}), Of("LocalizedText", Texts, {10000}),
         Of("DiagnosticInfo", Diagnostics, {10000})}

Path(n) == <<Arr([i \in 1..n |-> Element(Text)])>>
Chunked ==
  UNION {Of("RelativePath", {Path(n) : n \in 1..3}, 19..40), Of("DeleteAtTimeDetails", {<<Num(0, 85), Arr([i \in 1..5 |-> i])>>}, 8..44)}

MCItems == Whole \cup Chunked

--------------------------------------------------------------------------------
(* JSON *)

S(s) == Json("string", s)
JArr(vals) == Holding("array", [i \in 1..Len(vals) |-> [key |-> <<>>, val |-> vals[i]]])
JInt(s) == Json("int", s)
Obj(keys, vals) == Holding("object", [i \in 1..Len(keys) |-> [key |-> keys[i], val |-> vals[i]]])
JsonValues == {Null, JInt(<<"-", "1", "2">>), Json("double", <<"1", ".", "0", "e", "-", "1">>), Json("inf", <<"-">>),
  S(<<"q", "\\", "x", "ctl", "lf", "/">>), JArr(<<>>), Obj(<<>>, <<>>),
  JArr(<<Null, Json("nan", <<>>), Json("bool", <<"true">>), JArr(<<JInt(<<"1">>)>>)>>),
  Obj(<<<<"x">>, <<"q">>>>, <<Json("bool", <<"false">>), Obj(<<<<"x">>>>, <<S(<<>>)>>)>>)}
MCSamples == [value : JsonValues, flags : {"plain", "spaced", "pretty"}, strict : BOOLEAN]

T(text, strict, err, value) == [text |-> text \o <<"NUL">>, strict |-> strict, err |-> err, value |-> value, others |-> {}]
OrCut(t, others) == [t EXCEPT !.others = others]
Read(v) == [err |-> "success", value |-> <<v>>]
Refused(err) == [err |-> err, value |-> <<>>]
Nested4 == [i \in 1..4 |-> "["] \o [i \in 1..4 |-> "]"]
MCJsonTexts == {
  T(<<"/", "*", "x", "*", "/", "[", "1", ",", "]", "/", "/", "x">>, FALSE, "success", <<JArr(<<JInt(<<"1">>)>>)>>),
  T(<<"[", "1", ",", "]">>, TRUE, "unexpected", <<>>), T(<<"[", "q", "q", "]">>, TRUE, "success", <<JArr(<<S(<<>>)>>)>>),
  T(<<"{", "'", "x", "'", ":", "1", ",", "q", "x", "q", ":", "2", ",", "}">>, FALSE, "success", <<Obj(<<<<"x">>>>, <<JInt(<<"2">>)>>)>>),
  OrCut(T(<<"q", "\\", "u", "d", "8", "\\", "u", "d", "c", "q">>, FALSE, "success", <<S(<<"pair">>)>>),
        {Read(S(<<"repl", "repl">>)), Refused("string")}),
  OrCut(T(<<"q", "\\", "u", "d", "8", "\\", "u", "4", "1", "q">>, FALSE, "success", <<S(<<"repl", "other">>)>>), {Refused("string")}),
  T(<<"q", "\\", "u", "d", "8", "x", "\\", "u", "d", "c", "q">>, FALSE, "success", <<S(<<"repl", "x", "repl">>)>>),
  OrCut(T(<<"1", "-", "2">>, FALSE, "number", <<>>), {Read(JInt(<<"1">>))}),
  OrCut(T(<<"1", "e", "1", "e">>, FALSE, "number", <<>>), {Read(Json("double", <<"1", "e", "1", "e">>))}), T(<<"-", " ">>, FALSE, "number", <<>>),
  T(<<"0", "1", " ">>, TRUE, "number", <<>>), T(<<"0", "1">>, TRUE, "eof", <<>>), T(<<"0", "1">>, FALSE, "success", <<JInt(<<"0", "1">>)>>), T(<<"0", "0">>, TRUE, "success", <<JInt(<<"0", "0">>)>>),
  T(<<"/", "*", "*", "*", "/", "1">>, FALSE, "eof", <<>>),
  T(<<"[", "1">>, FALSE, "eof", <<>>), T(<<"q", "x">>, FALSE, "eof", <<>>), T(<<"q", "\\", "x">>, FALSE, "string", <<>>), T(<<"q", "\\", "u", "x">>, FALSE, "string", <<>>),
  T(Nested4, FALSE, "depth", <<>>), T(<<"1", "x">>, TRUE, "unexpected", <<>>),
  T(<<"{", "1">>, FALSE, "key_name", <<>>), T(<<"{", "q", "q", "1">>, FALSE, "key_sep", <<>>), T(<<"{", "q", "q", ":", "1", "x">>, FALSE, "value_sep", <<>>),
  T(<<"[", "1", "x">>, FALSE, "array", <<>>), T(<<"n", "x">>, FALSE, "null", <<>>), T(<<"t", "x">>, FALSE, "boolean", <<>>),
  T(<<"/", "x">>, FALSE, "comment", <<>>), T(<<"-", "i", "x">>, FALSE, "unexpected", <<>>)}
MCKeys == [a |-> 0, b |-> 0, c |-> 1]

--------------------------------------------------------------------------------
(* MQTT *)

Publish(d, q, r, id, t, n) == [kind |-> "publish", dup |-> d, qos |-> q, retained |-> r, id |-> id, topic |-> t, payload |-> [i \in 1..n |-> i % 256]]
Bytes2 == <<65, 66>>
Will == <<[qos |-> 2, retained |-> TRUE, topic |-> <<7>>, message |-> <<>>]>>
Connect(v, w, u, p) == [kind |-> "connect", version |-> v, clean |-> v = 4, keepAlive |-> 300, client |-> Bytes2, will |-> w, username |-> u, password |-> p]
Ack(k, id) == [kind |-> k, dup |-> FALSE, id |-> id]
Ping == [kind |-> "pingresp"]
MqttPackets1 == {Connect(v, w, u, p) : v \in {3, 4}, w \in {<<>>, Will}, u \in {<<<<1>>>>}, p \in {<<>>, <<<<2, 3>>>>}} \cup {Connect(4, <<>>, <<>>, <<>>)}
  \cup {Publish(d, q, r, IF q = 0 THEN 0 ELSE 700, Bytes2, 3) : d \in BOOLEAN, q \in 0..2, r \in BOOLEAN}
  \cup {Publish(FALSE, 1, FALSE, 65535, Bytes2, n) : n \in 119..124}
  \cup {Ack(k, 258) : k \in Acks}
  \cup {[kind |-> "connack", present |-> TRUE, rc |-> 5], [kind |-> "suback", id |-> 9, granted |-> <<1, 128>>], [kind |-> "unsuback", id |-> 9],
         [kind |-> "subscribe", dup |-> TRUE, id |-> 512, filters |-> <<[topic |-> <<9>>, qos |-> 2], [topic |-> <<>>, qos |-> 0]>>],
         [kind |-> "unsubscribe", dup |-> FALSE, id |-> 1, topics |-> <<<<9>>, Bytes2>>]}
MCConversations == {<<p>> : p \in MqttPackets1} \cup {<<Ack("pubrel", 3), Ping>>, <<Publish(FALSE, 0, FALSE, 0, Bytes2, 125), Publish(TRUE, 2, FALSE, 1, <<>>, 0), Ack("puback", 2)>>}
MCFilters == {<<"a", "/", "#">>, <<"+", "/", "b">>}
MCTopicNames == {<<"a">>, <<"a", "/", "b">>, <<"a", "/", "/", "b">>, <<"/", "b">>}

--------------------------------------------------------------------------------
Parts == {"records", "registrations", "pointers", "network", "codec", "text", "objects", "packets", "client"}

\* The inputs of a part; one of them stands for all where the part stays as it begins.
InputsOf(p, all) == IF part = p THEN all ELSE {CHOOSE one \in all : TRUE}

Init ==
  /\ part \in Parts
  /\ document \in InputsOf("records", Documents) /\ item \in InputsOf("codec", Items) /\ sample \in InputsOf("text", JsonInputs)
  /\ sent \in InputsOf("packets", PacketInputs) /\ reader \in InputsOf("packets", {"read", "readnb"})
  /\ RecordsInit /\ DiscInit /\ MdnsInit /\ CodecInit /\ JsonInit /\ ObjectsInit /\ PacketsInit /\ MqttInit

\* The registrations over a long time, while the daemon only takes what it is given;
\* what the daemon makes of it over a short time, while the discovery server answers.
Stretch ==
  IF part = "registrations" THEN running' /\ reply' = NoReply => published' = published
  ELSE now' <= 1 /\ reachable' /\ files' = files

Next ==
  /\ UNCHANGED part
  /\ \/ part = "records" /\ RecordsNext /\ UNCHANGED <<discVars, mdnsVars, codecVars, jsonVars, objectVars, packetVars, mqttVars>>
     \/ part \in {"registrations", "pointers"} /\ DiscNext /\ Stretch /\ UNCHANGED <<recordVars, mdnsVars, codecVars, jsonVars, objectVars, packetVars, mqttVars>>
     \/ part = "network" /\ MdnsNext /\ UNCHANGED <<recordVars, discVars, codecVars, jsonVars, objectVars, packetVars, mqttVars>>
     \/ part = "codec" /\ CodecNext /\ UNCHANGED <<recordVars, discVars, mdnsVars, jsonVars, objectVars, packetVars, mqttVars>>
     \/ part = "text" /\ JsonNext /\ UNCHANGED <<recordVars, discVars, mdnsVars, codecVars, objectVars, packetVars, mqttVars>>
     \/ part = "objects" /\ ObjectsNext /\ UNCHANGED <<recordVars, discVars, mdnsVars, codecVars, jsonVars, packetVars, mqttVars>>
     \/ part = "packets" /\ PacketsNext /\ UNCHANGED <<recordVars, discVars, mdnsVars, codecVars, jsonVars, objectVars, mqttVars>>
     \/ part = "client" /\ MqttNext /\ UNCHANGED <<recordVars, discVars, mdnsVars, codecVars, jsonVars, objectVars, packetVars>>
================================================================================

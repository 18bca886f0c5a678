------------------------------ MODULE MqttPackets ------------------------------
(***************************************************************************)
(* The packets of paho.mqtt.embedded-c (MQTTPacket/src) on a connection:   *)
(* the sender serialises them into its buffer, the socket hands the bytes  *)
(* over in portions, and the receiver reads and deserialises them, with    *)
(* MQTTPacket_read or with the non-blocking MQTTPacket_readnb.             *)
(*                                                                         *)
(* Bytes are numbers.  A string is a sequence of bytes; one that may be    *)
(* absent (a NULL pointer) is a sequence of at most one string.            *)
(***************************************************************************)
EXTENDS Integers, Sequences, SequencesExt

CONSTANTS
  Conversations,   \* sequences of packets, each written and read in order
  Cap,             \* size of the buffers
  MaxPolls         \* receive calls that find nothing (bound)

VARIABLES
  sent,            \* the packets
  stream,          \* their bytes
  at,              \* bytes received
  reader,          \* "read" or "readnb"
  trp,             \* MQTTTransport, or the locals of MQTTPacket_read
  inbuf,           \* the receiver's buffer
  read,            \* packets deserialised
  shortened,       \* MQTTPacket_read missed a byte of a length (history)
  trouble,         \* a read failed or was cut short (history)
  polls            \* receive calls that found nothing
packetVars == <<sent, stream, at, reader, trp, inbuf, read, shortened, trouble, polls>>

Type == [connect |-> 1, connack |-> 2, publish |-> 3, puback |-> 4, pubrec |-> 5, pubrel |-> 6, pubcomp |-> 7,
         subscribe |-> 8, suback |-> 9, unsubscribe |-> 10, unsuback |-> 11, pingreq |-> 12, pingresp |-> 13, disconnect |-> 14]
Acks == {"puback", "pubrec", "pubrel", "pubcomp"}
Bare == {"pingreq", "pingresp", "disconnect"}

--------------------------------------------------------------------------------
(* Writing *)

\* The remaining length, seven bits a byte.
MQTTPacket_encode(n) ==
  LET digits == IF n < 128 THEN 1 ELSE IF n < 16384 THEN 2 ELSE IF n < 2097152 THEN 3 ELSE 4
  IN [i \in 1..digits |-> ((n \div 128^(i - 1)) % 128) + (IF i < digits THEN 128 ELSE 0)]

\* What is compared with the size of the buffer.
MQTTPacket_len(n) ==
  LET m == n + 1 IN m + (IF m < 128 THEN 1 ELSE IF m < 16384 THEN 2 ELSE IF m < 2097151 THEN 3 ELSE 4)

writeInt(n) == <<n \div 256, n % 256>>
writeMQTTString(s) == writeInt(Len(s)) \o s
Strings(list) == FlattenSeq([i \in 1..Len(list) |-> writeMQTTString(list[i])])

Flag(b, bit) == IF b THEN bit ELSE 0
Header(kind, flags) == 16 * Type[kind] + flags

ConnectFlags(p) ==
  Flag(p.clean, 2)
  + (IF p.will = <<>> THEN 0 ELSE 4 + 8 * p.will[1].qos + Flag(p.will[1].retained, 32))
  + Flag(p.password # <<>>, 64) + Flag(p.username # <<>>, 128)
Protocol(version) == IF version = 4 THEN <<77, 81, 84, 84>> ELSE <<77, 81, 73, 115, 100, 112>>
MQTTSerialize_connect(p) ==
  writeMQTTString(Protocol(p.version)) \o <<p.version, ConnectFlags(p)>> \o writeInt(p.keepAlive) \o writeMQTTString(p.client)
  \o (IF p.will = <<>> THEN <<>> ELSE writeMQTTString(p.will[1].topic) \o writeMQTTString(p.will[1].message))
  \o Strings(p.username) \o Strings(p.password)
\* MQTTSerialize_connectLength counts the same parts before they are written.
MQTTSerialize_connectLength(p) ==
  (IF p.version = 3 THEN 12 ELSE 10) + Len(p.client) + 2
  + (IF p.will = <<>> THEN 0 ELSE Len(p.will[1].topic) + 2 + Len(p.will[1].message) + 2)
  + (IF p.username = <<>> THEN 0 ELSE Len(p.username[1]) + 2) + (IF p.password = <<>> THEN 0 ELSE Len(p.password[1]) + 2)

MQTTSerialize_publish(p) == writeMQTTString(p.topic) \o (IF p.qos > 0 THEN writeInt(p.id) ELSE <<>>) \o p.payload
MQTTSerialize_publishLength(p) == 2 + Len(p.topic) + Len(p.payload) + (IF p.qos > 0 THEN 2 ELSE 0)

MQTTSerialize_subscribe(p) == writeInt(p.id) \o FlattenSeq([i \in 1..Len(p.filters) |-> writeMQTTString(p.filters[i].topic) \o <<p.filters[i].qos>>])
MQTTSerialize_subscribeLength(p) == 2 + FoldLeft(LAMBDA n, f : n + 2 + Len(f.topic) + 1, 0, p.filters)
MQTTSerialize_unsubscribe(p) == writeInt(p.id) \o Strings(p.topics)
MQTTSerialize_unsubscribeLength(p) == 2 + FoldLeft(LAMBDA n, t : n + 2 + Len(t), 0, p.topics)
MQTTSerialize_suback(p) == writeInt(p.id) \o p.granted
MQTTSerialize_connack(p) == <<Flag(p.present, 1), p.rc>>

Body(p) ==
  CASE p.kind = "connect" -> MQTTSerialize_connect(p)
    [] p.kind = "connack" -> MQTTSerialize_connack(p)
    [] p.kind = "publish" -> MQTTSerialize_publish(p)
    [] p.kind = "subscribe" -> MQTTSerialize_subscribe(p)
    [] p.kind = "suback" -> MQTTSerialize_suback(p)
    [] p.kind = "unsubscribe" -> MQTTSerialize_unsubscribe(p)
    [] p.kind \in Acks \cup {"unsuback"} -> writeInt(p.id)
    [] OTHER -> <<>>

HeaderFlags(p) ==
  CASE p.kind = "publish" -> Flag(p.dup, 8) + 2 * p.qos + Flag(p.retained, 1)
    [] p.kind = "pubrel" -> Flag(p.dup, 8) + 2
    [] p.kind \in Acks -> Flag(p.dup, 8)
    [] p.kind \in {"subscribe", "unsubscribe"} -> Flag(p.dup, 8) + 2
    [] OTHER -> 0

\* The room a packet is said to need: computed for those of variable length,
\* constants for the others.
Needed(p) ==
  CASE p.kind = "connect" -> MQTTPacket_len(MQTTSerialize_connectLength(p))
    [] p.kind = "publish" -> MQTTPacket_len(MQTTSerialize_publishLength(p))
    [] p.kind = "subscribe" -> MQTTPacket_len(MQTTSerialize_subscribeLength(p))
    [] p.kind = "unsubscribe" -> MQTTPacket_len(MQTTSerialize_unsubscribeLength(p))
    [] p.kind = "suback" -> 2 + Len(p.granted)
    [] p.kind \in Acks -> 4
    [] OTHER -> 2

\* MQTTSerialize_*: nothing (MQTTPACKET_BUFFER_TOO_SHORT) or the bytes written.
Serialize(p, cap) ==
  IF Needed(p) > cap THEN <<>>
  ELSE <<Header(p.kind, HeaderFlags(p))>> \o MQTTPacket_encode(Len(Body(p))) \o Body(p)

--------------------------------------------------------------------------------
(* Reading out of a buffer: [v, pos, ok], pos bytes being consumed *)

Kind(b) == CHOOSE k \in DOMAIN Type : Type[k] = b \div 16
BitSet(n, b) == (n \div b) % 2 = 1
readInt(b, pos) == 256 * b[pos + 1] + b[pos + 2]

\* MQTTPacket_decodeBuf: where the body begins.
BodyAt(b) == 1 + (CHOOSE i \in 1..4 : b[i + 1] < 128 /\ \A j \in 1..(i - 1) : b[j + 1] >= 128)

readMQTTLenString(b, pos) ==
  IF Len(b) - pos > 1 /\ pos + 2 + readInt(b, pos) <= Len(b)
  THEN [v |-> SubSeq(b, pos + 3, pos + 2 + readInt(b, pos)), pos |-> pos + 2 + readInt(b, pos), ok |-> TRUE]
  ELSE [v |-> <<>>, pos |-> pos, ok |-> FALSE]

\* A string after the ones read so far: r.v collects them.
Next1(b, r) ==
  LET s == readMQTTLenString(b, r.pos)
  IN IF ~r.ok THEN r ELSE [v |-> Append(r.v, s.v), pos |-> s.pos, ok |-> s.ok]
\* User name and password must not be empty.
Next3(b, r) == IF Len(b) - r.pos < 3 THEN [r EXCEPT !.ok = FALSE] ELSE Next1(b, r)

\* Only as much is compared as there is of the name.
MQTTPacket_checkVersion(protocol, version) ==
  version \in {3, 4} /\ \A i \in 1..Len(Protocol(version)) : i <= Len(protocol) => protocol[i] = Protocol(version)[i]

MQTTDeserialize_connect(b) ==
  LET protocol == readMQTTLenString(b, BodyAt(b))
      version == b[protocol.pos + 1]
      flags == b[protocol.pos + 2]
      client == Next1(b, [v |-> <<>>, pos |-> protocol.pos + 4, ok |-> MQTTPacket_checkVersion(protocol.v, version)])
      will == IF BitSet(flags, 4) THEN Next1(b, Next1(b, client)) ELSE client
      user == IF BitSet(flags, 128) THEN Next3(b, will) ELSE [will EXCEPT !.ok = @ /\ ~BitSet(flags, 64)]
      pass == IF BitSet(flags, 64) THEN Next3(b, user) ELSE user
  IN IF ~pass.ok THEN <<>>
     ELSE <<[kind |-> "connect", version |-> version, clean |-> BitSet(flags, 2), keepAlive |-> readInt(b, protocol.pos + 2), client |-> pass.v[1],
             will |-> IF BitSet(flags, 4) THEN <<[qos |-> (flags \div 8) % 4, retained |-> BitSet(flags, 32), topic |-> pass.v[2], message |-> pass.v[3]]>> ELSE <<>>,
             username |-> IF BitSet(flags, 128) THEN <<pass.v[Len(will.v) + 1]>> ELSE <<>>,
             password |-> IF BitSet(flags, 64) THEN <<pass.v[Len(pass.v)]>> ELSE <<>>]>>

MQTTDeserialize_connack(b) == <<[kind |-> "connack", present |-> BitSet(b[3], 1), rc |-> b[4]]>>

MQTTDeserialize_publish(b) ==
  LET topic == readMQTTLenString(b, BodyAt(b))
      qos == (b[1] \div 2) % 4
      from == topic.pos + (IF qos > 0 THEN 2 ELSE 0)
  IN IF ~topic.ok THEN <<>>
     ELSE <<[kind |-> "publish", dup |-> BitSet(b[1], 8), qos |-> qos, retained |-> BitSet(b[1], 1),
             id |-> IF qos > 0 THEN readInt(b, topic.pos) ELSE 0, topic |-> topic.v, payload |-> SubSeq(b, from + 1, Len(b))]>>

\* The topics of a subscription or its end, with the byte behind each of them.
RECURSIVE Topics(_, _, _)
Topics(b, pos, extra) ==
  LET s == readMQTTLenString(b, pos)
  IN IF pos >= Len(b) THEN [v |-> <<>>, ok |-> TRUE]
     ELSE IF ~s.ok \/ s.pos + extra > Len(b) THEN [v |-> <<>>, ok |-> FALSE]
     ELSE LET rest == Topics(b, s.pos + extra, extra)
          IN [v |-> <<[topic |-> s.v, qos |-> IF extra = 1 THEN b[s.pos + 1] ELSE 0]>> \o rest.v, ok |-> rest.ok]

MQTTDeserialize_subscribe(b) ==
  LET t == Topics(b, BodyAt(b) + 2, 1)
  IN IF t.ok THEN <<[kind |-> "subscribe", dup |-> BitSet(b[1], 8), id |-> readInt(b, BodyAt(b)), filters |-> t.v]>> ELSE <<>>
MQTTDeserialize_unsubscribe(b) ==
  LET t == Topics(b, BodyAt(b) + 2, 0)
  IN IF t.ok THEN <<[kind |-> "unsubscribe", dup |-> BitSet(b[1], 8), id |-> readInt(b, BodyAt(b)), topics |-> [i \in 1..Len(t.v) |-> t.v[i].topic]]>> ELSE <<>>
MQTTDeserialize_suback(b) == <<[kind |-> "suback", id |-> readInt(b, BodyAt(b)), granted |-> SubSeq(b, BodyAt(b) + 3, Len(b))]>>
MQTTDeserialize_ack(b) == <<[kind |-> Kind(b[1]), dup |-> BitSet(b[1], 8), id |-> readInt(b, BodyAt(b))]>>
MQTTDeserialize_unsuback(b) == <<[kind |-> "unsuback", id |-> readInt(b, BodyAt(b))]>>

\* The packet of the buffer, nothing if it is refused.
Deserialize(b) ==
  CASE Kind(b[1]) = "connect" -> MQTTDeserialize_connect(b)
    [] Kind(b[1]) = "connack" -> MQTTDeserialize_connack(b)
    [] Kind(b[1]) = "publish" -> MQTTDeserialize_publish(b)
    [] Kind(b[1]) = "subscribe" -> MQTTDeserialize_subscribe(b)
    [] Kind(b[1]) = "unsubscribe" -> MQTTDeserialize_unsubscribe(b)
    [] Kind(b[1]) = "suback" -> MQTTDeserialize_suback(b)
    [] Kind(b[1]) = "unsuback" -> MQTTDeserialize_unsuback(b)
    [] Kind(b[1]) \in Acks -> MQTTDeserialize_ack(b)
    [] OTHER -> <<[kind |-> Kind(b[1])]>>

--------------------------------------------------------------------------------
(* Reading from the socket *)

Idle == [state |-> 0, len |-> 0, rem |-> 0, mult |-> 1]
PacketInputs == {SelectSeq(c, LAMBDA p : Serialize(p, Cap) # <<>>) : c \in Conversations}

PacketsInit ==
  /\ sent \in PacketInputs
  /\ stream = FlattenSeq([i \in 1..Len(sent) |-> Serialize(sent[i], Cap)])
  /\ reader \in {"read", "readnb"}
  /\ at = 0 /\ trp = Idle /\ inbuf = <<>> /\ read = <<>> /\ shortened = FALSE /\ trouble = FALSE /\ polls = 0

\* A receive call gives k bytes, at most the ones asked for; none when the time is up.
Receives(want, k) ==
  /\ k \in 0..want /\ at + k <= Len(stream) /\ (k = 0 => polls < MaxPolls)
  /\ at' = at + k /\ polls' = IF k = 0 THEN polls + 1 ELSE polls
  /\ UNCHANGED <<sent, stream, reader>>
Taken(k) == SubSeq(stream, at + 1, at + k)

\* A packet is complete, or the reader gives up; what it makes of the bytes that
\* follow then, in the middle of a packet, is not followed.  Of a packet whose length
\* was cut short the type is returned; the fields of what is in the buffer are left out.
Complete(bytes) ==
  /\ trp' = [trp EXCEPT !.state = 0] /\ inbuf' = <<>>
  /\ read' = read \o (IF shortened' THEN <<[kind |-> Kind(bytes[1])]>> ELSE Deserialize(bytes))
  /\ trouble' = shortened'
GiveUp == trp' = [trp EXCEPT !.state = 0] /\ inbuf' = <<>> /\ trouble' = TRUE /\ UNCHANGED read
Waits == UNCHANGED <<inbuf, read, trouble>>

ReadHeader(k) ==
  /\ trp.state = 0 /\ Receives(1, k) /\ UNCHANGED shortened
  /\ IF k = 0 THEN UNCHANGED trp /\ Waits
     ELSE trp' = [trp EXCEPT !.state = 1, !.len = 0] /\ inbuf' = Taken(1) /\ UNCHANGED <<read, trouble>>

\* Mutant: what the last packet left is not cleared.
Fresh_kept(t) == t
\* The first call for the length clears what the last packet left.
Fresh(t) == IF t.len = 0 THEN [t EXCEPT !.rem = 0, !.mult = 1] ELSE t

\* One byte of the length.
Length(t, b) == [t EXCEPT !.len = @ + 1, !.rem = @ + (b % 128) * t.mult, !.mult = 128 * @]

\* The length is put into the buffer again; the body must fit behind it.
LengthRead(t) ==
  LET head == inbuf \o MQTTPacket_encode(t.rem)
  IN IF Len(head) + t.rem > Cap THEN GiveUp
     ELSE IF t.rem = 0 /\ reader = "read" THEN Complete(head)
     ELSE trp' = [t EXCEPT !.state = 2, !.len = Len(head)] /\ inbuf' = head /\ UNCHANGED <<read, trouble>>

\* MQTTPacket_decodenb counts a call that finds nothing as a byte of the length,
\* of which there are at most four; MQTTPacket_decode returns, and MQTTPacket_read
\* goes on with what it has of the length.
ReadLength(k) ==
  /\ trp.state = 1
  /\ \/ /\ reader = "readnb" /\ trp.len = 4 /\ k = 0
        /\ GiveUp /\ UNCHANGED <<sent, stream, at, reader, polls, shortened>>
     \/ /\ trp.len < 4 /\ Receives(1, k)
        /\ shortened' = (k = 0 /\ reader = "read")
        /\ IF k = 1 THEN IF Taken(1)[1] >= 128 THEN trp' = Length(Fresh(trp), Taken(1)[1]) /\ Waits ELSE LengthRead(Length(Fresh(trp), Taken(1)[1]))
           ELSE IF reader = "readnb" THEN trp' = [Fresh(trp) EXCEPT !.len = @ + 1] /\ Waits
           ELSE LengthRead(Fresh(trp))

\* MQTTPacket_read wants the body in one piece.  With nothing to ask for, readnb
\* is told to call again, for ever.
ReadBody(k) ==
  /\ trp.state = 2 /\ trp.rem > 0 /\ Receives(trp.rem, k) /\ UNCHANGED shortened
  /\ IF k = trp.rem THEN Complete(inbuf \o Taken(k))
     ELSE IF reader = "readnb" THEN trp' = [trp EXCEPT !.rem = @ - k, !.len = @ + k] /\ inbuf' = inbuf \o Taken(k) /\ UNCHANGED <<read, trouble>>
     ELSE GiveUp

PacketsNext == ~trouble /\ \E k \in 0..Cap : ReadHeader(k) \/ ReadLength(k) \/ ReadBody(k)

--------------------------------------------------------------------------------
(* Properties *)

\* The packets read are those written, in their order and with every field, in
\* whatever portions the bytes arrive, with one exception: where a receive call finds
\* nothing while MQTTPacket_read reads a length, a packet of the right type is
\* returned that is not the one written, unless it has no fields.  Nothing is left
\* when all bytes are there, but for a packet without a body, which readnb never
\* returns; and readnb fails only when too many calls found nothing while it read
\* the length.
ReadsWhatWasSent ==
  /\ Len(read) <= Len(sent)
  /\ \A i \in 1..Len(read) : read[i] = sent[i] \/ (shortened /\ i = Len(read) /\ read[i] = [kind |-> sent[i].kind])
  /\ at = Len(stream) /\ ~trouble /\ ~shortened => read = sent \/ (reader = "readnb" /\ trp.state = 2 /\ trp.rem = 0)
  /\ trouble /\ reader = "readnb" => \E i \in 1..Len(sent) : polls + Len(MQTTPacket_encode(Len(Body(sent[i])))) > 4
================================================================================
